---------------------------- MODULE ResolveProofs ----------------------------
(***************************************************************************)
(* The resolution of references, for every set of commands and existing    *)
(* resources, any number of faults and of changes outside of formae: a     *)
(* secret stays one on its way through the references, and the updates of  *)
(* a command see one version of what they refer to while the cache lives.  *)
(*                                                                         *)
(* A secret that leaves the store comes back from the provider as a plain  *)
(* value. What makes it opaque again is the stored row: whatever the       *)
(* provider holds of a secret is opaque in the row of that resource        *)
(* (Covered), so that every document on the way can be guarded. The cache  *)
(* guards top-level properties only; Hidden are the secrets of a command   *)
(* that refers to no others.                                               *)
(***************************************************************************)
EXTENDS ResolveCache, NaturalsInduction, WellFoundedInduction, TLAPS

-----------------------------------------------------------------------------
(* The inductive invariant *)

\* What must not be spelled out in a document, at any path or at the top level.
Hidden == IF TopLevel THEN Secrets ELSE {}
Guards(doc, S) == \A p \in DOMAIN doc : Spells(doc[p], S) => doc[p].vis = "Opaque"
GuardsTop(doc, S) ==
    \A p \in DOMAIN doc : p \notin Nested /\ Spells(doc[p], S) => doc[p].vis = "Opaque"

\* An updater's document is the wanted one but for the values of references.
Fits(upd, doc) ==
    /\ upd = [state |-> upd.state, props |-> upd.props, asked |-> upd.asked,
              remaining |-> upd.remaining]
    /\ upd.state \in {"waiting", "resolving", "creating", "lost"} \cup Final
    /\ upd.remaining \subseteq ExtractResolvableURIs(doc)
    /\ upd.state = "resolving" => upd.asked \in ExtractResolvableURIs(doc)

Resolves(props, doc, S) ==
    /\ DOMAIN props = DOMAIN doc /\ Document(props) /\ Guards(props, S)
    /\ \A p \in DOMAIN doc :
          /\ props[p].kind = doc[p].kind /\ props[p].ref = doc[p].ref
          /\ \/ doc[p].kind # "ref"
             \/ doc[p].strat = "SetOnce" /\ doc[p].val # None
             => props[p] = doc[p]

\* An answer to an updater: it has a value.
GuardedAnswer(x, S) == IsProperty(x) /\ x.val # None /\ (Spells(x, S) => x.vis = "Opaque")
AnswerOK(a, S) == a # None => a.found \in BOOLEAN /\ (a.found => GuardedAnswer(a.answer, S))

URIs == UNION {ExtractResolvableURIs(wanted[u]) : u \in Updates}
Messages == {Shutdown} \cup {[from |-> u, uri |-> w] : u \in Updates, w \in URIs}

Types ==
    /\ sendErrors \in SendErrors /\ wanted \in Formas
    /\ updater = [u \in Updates |-> updater[u]]
    /\ \A u \in Updates : Fits(updater[u], wanted[u]) /\ Resolves(updater[u].props, wanted[u], Hidden)
    /\ inbox = [u \in Updates |-> inbox[u]] /\ \A u \in Updates : AnswerOK(inbox[u], Hidden)
    /\ mailbox \in Seq(Messages)
    /\ phase \in {"idle", "reading", "down", "ended"}
    /\ cache = [r \in DOMAIN cache |-> cache[r]]
    /\ \A r \in DOMAIN cache : Document(cache[r]) /\ GuardsTop(cache[r], Hidden)
    /\ DOMAIN cache \subseteq DOMAIN row
    /\ faults \in 0 .. MaxFaults /\ changes \in 0 .. MaxChanges

\* While the cache reads a resource, its request waits and the resource is there.
ReadsRequested ==
    phase = "reading" => /\ mailbox # << >> /\ Request # Shutdown
                         /\ Resource \in DOMAIN row /\ Resource \notin DOMAIN cache

\* What the provider holds of a secret is opaque in the row, which hashes it.
Covered(real, stored, S) ==
    /\ Document(real)
    /\ \A p \in DOMAIN real : Spells(real[p], S) =>
          p \in DOMAIN stored.Properties /\ stored.Properties[p].vis = "Opaque"
Hashed(stored, S) ==
    \A p \in DOMAIN stored.Properties :
        Spells(stored.Properties[p], S) => stored.Properties[p].val[1] = "hash"
StoreOK ==
    /\ DOMAIN row = DOMAIN world /\ world = [r \in DOMAIN world |-> world[r]]
    /\ \A r \in DOMAIN world : Covered(world[r], row[r], Hidden) /\ Hashed(row[r], Hidden)

\* What the cache has answered in this life is what it would answer now, and
\* what it has answered in an earlier one was the same for all.
Cached(a) ==
    /\ a.uri[1] \in DOMAIN cache
    /\ a.answer = AnswerFrom(cache[a.uri[1]], a.uri).answer
AnswersCached ==
    /\ life \in Nat /\ OneAnswerPerProperty
    /\ \A a \in answers : a.life \in 0 .. life /\ (a.life = life => Cached(a))

\* A row holds the values that came with the references that are set once.
Keeps(stored, doc) ==
    \A p \in RefPaths(doc) : doc[p].strat = "SetOnce" /\ doc[p].val # None =>
        stored.Properties[p].val \in {doc[p].val, Hash(doc[p].val)}
SetOnceStored == \A u \in Updates \cap DOMAIN row : Keeps(row[u], wanted[u])

\* What an updater has been told it has.
Told(upd, doc) ==
    /\ upd.state = "waiting" => upd.remaining = ExtractResolvableURIs(doc)
    /\ upd.state = "creating" => upd.remaining = {}
    /\ \A p \in RefPaths(doc) :
          \/ doc[p].ref \in upd.remaining
          \/ upd.state = "resolving" /\ doc[p].ref = upd.asked
          \/ upd.state \in {"failed", "lost"}
          \/ upd.props[p].val # None
Informed == \A u \in Updates : RefersOnce(wanted[u]) => Told(updater[u], wanted[u])

IInv == Types /\ ReadsRequested /\ StoreOK /\ AnswersCached /\ SetOnceStored /\ Informed

\* The hidden are secrets, and the same throughout a command.
LEMMA HiddenOK ==
    /\ Hidden \subseteq Secrets /\ Blank \notin Hidden
    /\ wanted' = wanted => Hidden' = Hidden
BY DocumentsAssumption DEF DocumentsAssumption, Hidden, TopLevel, Updates

-----------------------------------------------------------------------------
(* Documents *)

\* Setting one field of a property.
LEMMA WithField ==
    ASSUME NEW k, NEW r, NEW v, NEW i, NEW s, NEW w, NEW x, x = Property(k, r, v, i, s)
    PROVE  /\ [x EXCEPT !.val = w] = Property(k, r, w, i, s)
           /\ [x EXCEPT !.vis = w] = Property(k, r, v, w, s)
           /\ [x EXCEPT !.strat = w] = Property(k, r, v, i, w)
BY DEF Property

\* A property whose value is replaced keeps everything else (setValue).
LEMMA WithValue ==
    ASSUME NEW x, IsProperty(x), NEW v, NEW y, y = [x EXCEPT !.val = v]
    PROVE  /\ IsProperty(y) /\ y.kind = x.kind /\ y.ref = x.ref /\ y.val = v
           /\ y.vis = x.vis /\ y.strat = x.strat
<1>1. PICK k, r, w, i, s : x = Property(k, r, w, i, s)
  BY DEF IsProperty
<1>2. k = x.kind /\ r = x.ref /\ w = x.val /\ i = x.vis /\ s = x.strat
  BY <1>1 DEF Property
<1>3. y = Property(k, r, v, i, s)
  BY <1>1, WithField
<1>4. k \in {"plain", "value", "ref"} /\ (k = "plain" => i = "")
  BY <1>2 DEF IsProperty
<1>5. y.kind = k /\ y.ref = r /\ y.val = v /\ y.vis = i /\ y.strat = s
  BY <1>3 DEF Property
<1> QED
  BY <1>2, <1>3, <1>4, <1>5 DEF IsProperty

\* String keeps what a value spells; that of null is a value too.
LEMMA StringSpells ==
    ASSUME NEW val
    PROVE  /\ String(val) # None
           /\ String(val)[2] = IF val = None THEN Blank ELSE val[2]
BY DEF String, None

\* What setRefValue makes of a reference.
LEMMA SetRefValueOK ==
    ASSUME NEW S, NEW prop, IsProperty(prop), prop.kind = "ref",
           Spells(prop, S) => prop.vis = "Opaque", NEW a, GuardedAnswer(a, S)
    PROVE  LET x == SetRefValue(prop, a)
           IN  /\ IsProperty(x) /\ x.kind = "ref" /\ x.ref = prop.ref
               /\ Spells(x, S) => x.vis = "Opaque"
               /\ prop.strat = "SetOnce" /\ prop.val # None => x = prop
               /\ x.val # None
<1>1. CASE prop.strat = "SetOnce" /\ prop.val # None
  BY <1>1 DEF SetRefValue
<1>2. CASE ~(prop.strat = "SetOnce" /\ prop.val # None)
  <2>1. PICK v, s, i : /\ v = String(a.val)
                       /\ s = IF prop.strat # "" THEN prop.strat ELSE a.strat
                       /\ i = IF a.vis = "Opaque" THEN "Opaque" ELSE prop.vis
    OBVIOUS
  <2>2. PICK r, w, j, t : prop = Property("ref", r, w, j, t)
    BY DEF IsProperty
  <2>3. SetRefValue(prop, a) = [prop EXCEPT !.val = v, !.strat = s, !.vis = i]
    BY <1>2, <2>1 DEF SetRefValue
  <2>4. [prop EXCEPT !.val = v, !.strat = s, !.vis = i] = Property("ref", r, v, i, s)
    <3>1. PICK y : y = [prop EXCEPT !.val = v]
      OBVIOUS
    <3>2. PICK z : z = [y EXCEPT !.strat = s]
      OBVIOUS
    <3>3. [prop EXCEPT !.val = v, !.strat = s, !.vis = i] = [z EXCEPT !.vis = i]
      BY <3>1, <3>2
    <3>4. y = Property("ref", r, v, j, t)
      BY <2>2, <3>1, WithField
    <3>5. z = Property("ref", r, v, j, s)
      <4> HIDE <2>1, <2>3
      <4> QED BY <3>2, <3>4 DEF Property
    <3>6. [z EXCEPT !.vis = i] = Property("ref", r, v, i, s)
      BY <3>5, WithField
    <3> QED
      BY <3>3, <3>6
  <2>5. prop.ref = r
    BY <2>2 DEF Property
  <2>6. PICK x : x = Property("ref", r, v, i, s)
    OBVIOUS
  <2>7. IsProperty(x) /\ x.kind = "ref" /\ x.ref = r /\ x.val = v /\ x.vis = i
    <3>1. x.kind = "ref" /\ x.ref = r /\ x.val = v /\ x.vis = i /\ x.strat = s
      BY <2>6 DEF Property
    <3> QED
      BY <2>6, <3>1 DEF IsProperty
  <2>8. Spells(x, S) => x.vis = "Opaque"
    BY <2>1, <2>7, StringSpells DEF Spells, GuardedAnswer
  <2>9. x.val # None
    BY <2>1, <2>7, StringSpells
  <2> QED
    BY <1>2, <2>3, <2>4, <2>5, <2>6, <2>7, <2>8, <2>9
<1> QED
  BY <1>1, <1>2

\* A set of numbers with a bound has a greatest one.
LEMMA Greatest ==
    ASSUME NEW V \in SUBSET Nat, V # {}, NEW n \in Nat, \A k \in V : k <= n
    PROVE  \E m \in V : \A k \in V : k <= m
<1> DEFINE W == {n - k : k \in V}
<1>1. W \subseteq Nat /\ W # {}
  <2>1. \A k \in V : n - k \in Nat
    OBVIOUS
  <2>2. PICK k \in V : TRUE
    OBVIOUS
  <2> QED
    BY <2>1, <2>2
<1>2. PICK x \in W : \A y \in W : ~(<<y, x>> \in OpToRel(<, Nat))
  BY <1>1, NatLessThanWellFounded, WFMin
<1>3. PICK m \in V : x = n - m
  OBVIOUS
<1>4. ASSUME NEW k \in V PROVE k <= m
  <2>1. n - k \in W /\ n - k \in Nat /\ x \in Nat
    BY <1>1
  <2>2. ~(n - k < x)
    BY <1>2, <2>1 DEF OpToRel
  <2> QED
    BY <2>1, <2>2, <1>3
<1> QED
  BY <1>4

\* The resolver's map has a path for each URI the document refers to.
LEMMA RefsPath ==
    ASSUME NEW doc, NEW uri \in ExtractResolvableURIs(doc)
    PROVE  /\ Refs(doc)[uri] \in RefPaths(doc)
           /\ doc[Refs(doc)[uri]].ref = uri
<1> DEFINE P == {p \in RefPaths(doc) : doc[p].ref = uri}
           V == {i \in 1 .. Len(PathOrder) : PathOrder[i] \in P}
<1>1. P # {}
  BY DEF ExtractResolvableURIs
<1>2. \E p \in P : ~\E q \in P : Before(p, q)
  <2>1. CASE \E p \in P : \A i \in 1 .. Len(PathOrder) : PathOrder[i] # p
    BY <2>1 DEF Before
  <2>2. CASE \A p \in P : \E i \in 1 .. Len(PathOrder) : PathOrder[i] = p
    <3>1. V # {} /\ V \in SUBSET Nat /\ \A k \in V : k <= Len(PathOrder)
      BY <1>1, <2>2
    <3>2. PICK m \in V : \A k \in V : k <= m
      <4> HIDE DEF V
      <4> QED BY <3>1, PathOrderAssumption, Greatest
    <3>3. PathOrder[m] \in P
      OBVIOUS
    <3>4. ASSUME NEW q \in P, Before(PathOrder[m], q) PROVE FALSE
      <4>1. PICK i, j \in 1 .. Len(PathOrder) : i < j /\ PathOrder[i] = PathOrder[m] /\ PathOrder[j] = q
        BY <3>4 DEF Before
      <4>2. i = m /\ j \in V
        BY <4>1, <3>4, PathOrderAssumption
      <4>3. j <= m
        BY <3>2, <4>2
      <4>4. i \in Nat /\ j \in Nat
        BY PathOrderAssumption
      <4> QED
        BY <4>1, <4>2, <4>3, <4>4
    <3> QED
      BY <3>3, <3>4
  <2> QED
    BY <2>1, <2>2
<1>3. Refs(doc)[uri] = CHOOSE p \in RefPaths(doc) :
            /\ doc[p].ref = uri
            /\ ~\E q \in RefPaths(doc) : doc[q].ref = uri /\ Before(p, q)
  BY DEF Refs
<1>4. \E p \in RefPaths(doc) :
            /\ doc[p].ref = uri
            /\ ~\E q \in RefPaths(doc) : doc[q].ref = uri /\ Before(p, q)
  BY <1>2
<1> QED
  BY <1>3, <1>4

\* The references of a document on its way are those of the wanted one.
LEMMA SameRefs ==
    ASSUME NEW props, NEW doc, NEW S, Resolves(props, doc, S)
    PROVE  /\ RefPaths(props) = RefPaths(doc)
           /\ \A p \in RefPaths(doc) : props[p].ref = doc[p].ref
           /\ ExtractResolvableURIs(props) = ExtractResolvableURIs(doc)
<1>1. /\ RefPaths(props) = RefPaths(doc)
      /\ \A p \in RefPaths(doc) : props[p].ref = doc[p].ref
  BY DEF RefPaths, Resolves
<1> QED
  BY <1>1 DEF ExtractResolvableURIs

\* What an answer makes of a document.
LEMMA AnswerResolves ==
    ASSUME NEW props, NEW doc, NEW S, Resolves(props, doc, S),
           NEW uri \in ExtractResolvableURIs(doc),
           NEW a, GuardedAnswer(a, S), NEW next, next = ResolvePropertyReferences(uri, props, a)
    PROVE  /\ Resolves(next, doc, S)
           /\ \A p \in DOMAIN doc : props[p].val # None => next[p].val # None
           /\ RefersOnce(doc) =>
                 \A p \in RefPaths(doc) : doc[p].ref = uri => next[p].val # None
<1>1. PICK q : q = Refs(props)[uri]
  OBVIOUS
<1>2. q \in RefPaths(doc) /\ props[q].ref = uri /\ doc[q].ref = uri
  BY <1>1, SameRefs, RefsPath
<1>3. q \in DOMAIN doc /\ doc[q].kind = "ref" /\ props[q].kind = "ref"
      /\ DOMAIN props = DOMAIN doc /\ Document(props) /\ Guards(props, S)
  BY <1>2 DEF RefPaths, Resolves
<1>4. PICK old : old = props[q]
  OBVIOUS
<1>5. /\ IsProperty(old) /\ old.kind = "ref" /\ old.ref = uri
      /\ Spells(old, S) => old.vis = "Opaque"
  BY <1>2, <1>3, <1>4 DEF Document, Guards
<1>6. PICK x : x = SetRefValue(old, a)
  OBVIOUS
<1>7. /\ IsProperty(x) /\ x.kind = "ref" /\ x.ref = uri
      /\ Spells(x, S) => x.vis = "Opaque"
      /\ old.strat = "SetOnce" /\ old.val # None => x = old
      /\ x.val # None
  BY <1>5, <1>6, SetRefValueOK
<1>8. next = [props EXCEPT ![q] = x]
  BY <1>1, <1>4, <1>6 DEF ResolvePropertyReferences, ResolveReferences
<1>9. /\ DOMAIN next = DOMAIN doc /\ next = [p \in DOMAIN next |-> next[p]]
      /\ \A p \in DOMAIN doc : next[p] = IF p = q THEN x ELSE props[p]
  BY <1>3, <1>8 DEF Document
<1>10. Document(next) /\ Guards(next, S)
  BY <1>3, <1>7, <1>9 DEF Document, Guards
<1>11. ASSUME NEW p \in DOMAIN doc
       PROVE  /\ next[p].kind = doc[p].kind /\ next[p].ref = doc[p].ref
              /\ \/ doc[p].kind # "ref"
                 \/ doc[p].strat = "SetOnce" /\ doc[p].val # None
                 => next[p] = doc[p]
  <2>1. CASE p # q
    BY <1>9, <2>1 DEF Resolves
  <2>2. CASE p = q
    <3>1. doc[q].strat = "SetOnce" /\ doc[q].val # None => old = doc[q]
      BY <1>3, <1>4 DEF Resolves
    <3> QED
      BY <1>2, <1>3, <1>7, <1>9, <2>2, <3>1
  <2> QED
    BY <2>1, <2>2
<1>12. Resolves(next, doc, S)
  BY <1>9, <1>10, <1>11 DEF Resolves
<1>13. RefersOnce(doc) => \A p \in RefPaths(doc) : doc[p].ref = uri => p = q
  BY <1>2 DEF RefersOnce
<1> QED
  BY <1>3, <1>7, <1>9, <1>12, <1>13

\* What the plugin is given of a document: its values.
ValuesOf(w, props) ==
    /\ DOMAIN w = DOMAIN props /\ Document(w)
    /\ \A p \in DOMAIN props : /\ w[p].val = props[p].val
                               /\ props[p].kind = "plain" => w[p].vis = ""

\* References and value objects have values.
Spelled(props) == \A p \in DOMAIN props : props[p].kind # "plain" => props[p].val # None

\* What a plugin is sent holds the values of the document, and nothing that
\* refers to another resource once all values are there (ConvertToPluginFormat).
LEMMA WireOK ==
    ASSUME NEW props, Document(props)
    PROVE  LET w == ConvertToPluginFormat(props)
           IN  /\ ValuesOf(w, props)
               /\ Spelled(props) /\ RefersOnce(props) => \A p \in DOMAIN w : w[p].kind = "plain"
<1> SUFFICES ASSUME NEW w, w = ConvertToPluginFormat(props)
             PROVE  /\ ValuesOf(w, props)
                    /\ Spelled(props) /\ RefersOnce(props) => \A p \in DOMAIN w : w[p].kind = "plain"
  OBVIOUS
<1>1. /\ DOMAIN w = DOMAIN props /\ w = [p \in DOMAIN props |-> w[p]]
      /\ \A p \in DOMAIN props :
            w[p] = IF /\ props[p].val # None
                      /\ props[p].kind = "ref" => Refs(props)[props[p].ref] = p
                   THEN Plain(props[p].val) ELSE props[p]
  BY DEF ConvertToPluginFormat, ToPluginFormat
<1>2. ASSUME NEW p \in DOMAIN props
      PROVE  /\ IsProperty(w[p]) /\ w[p].val = props[p].val
             /\ props[p].kind = "plain" => w[p].vis = ""
             /\ \/ w[p].kind = "plain"
                \/ /\ w[p] = props[p]
                   /\ \/ props[p].val = None
                      \/ props[p].kind = "ref" /\ Refs(props)[props[p].ref] # p
  <2>1. PICK x : x = props[p]
    OBVIOUS
  <2>2. IsProperty(x)
    BY <2>1 DEF Document
  <2>3. PICK y : y = Plain(x.val)
    OBVIOUS
  <2>4. IsProperty(y) /\ y.val = x.val /\ y.vis = "" /\ y.kind = "plain"
    BY <2>3 DEF Plain, Property, IsProperty
  <2>5. w[p] = IF x.val # None /\ (x.kind = "ref" => Refs(props)[x.ref] = p) THEN y ELSE x
    BY <1>1, <2>1, <2>3
  <2>6. x.kind = "plain" => x.vis = ""
    BY <2>2 DEF IsProperty
  <2> QED
    BY <2>1, <2>2, <2>4, <2>5, <2>6
<1>3. ASSUME Spelled(props), RefersOnce(props), NEW p \in DOMAIN props
      PROVE  w[p].kind = "plain"
  <2>1. props[p].kind = "ref" => Refs(props)[props[p].ref] = p
    BY <1>3, RefsPath DEF RefersOnce, RefPaths, ExtractResolvableURIs
  <2>2. CASE w[p] = props[p] /\ props[p].val = None
    BY <1>3, <2>2 DEF Spelled
  <2> QED
    BY <1>2, <2>1, <2>2
<1> QED
  BY <1>1, <1>2, <1>3 DEF Document, ValuesOf

\* What is stored of a resource: opaque values are hashed.
HashesOf(stored, doc) ==
    /\ DOMAIN stored.Properties = DOMAIN doc
    /\ \A p \in DOMAIN doc :
          /\ stored.Properties[p].vis = doc[p].vis
          /\ stored.Properties[p].val =
                IF doc[p].vis = "Opaque" THEN Hash(doc[p].val) ELSE doc[p].val

\* What is stored holds a hash for each opaque value and the value itself for
\* the others (ApplyToResource).
LEMMA StoredOK ==
    ASSUME NEW doc, Document(doc), NEW ro
    PROVE  HashesOf(ApplyToResource([Properties |-> doc, ReadOnlyProperties |-> ro]), doc)
<1> SUFFICES ASSUME NEW stored,
                    stored = ApplyToResource([Properties |-> doc, ReadOnlyProperties |-> ro])
             PROVE  HashesOf(stored, doc)
  OBVIOUS
<1>1. stored.Properties = TransformRawProps(doc)
  BY DEF ApplyToResource
<1> DEFINE t == TransformRawProps(doc)
<1>2. /\ DOMAIN t = DOMAIN doc
      /\ \A p \in DOMAIN doc :
            t[p] = IF doc[p].vis = "Opaque" THEN [doc[p] EXCEPT !.val = Hash(doc[p].val)]
                   ELSE doc[p]
  BY DEF TransformRawProps
<1> HIDE DEF t
<1>3. ASSUME NEW p \in DOMAIN doc
      PROVE  /\ t[p].vis = doc[p].vis
             /\ t[p].val = IF doc[p].vis = "Opaque" THEN Hash(doc[p].val) ELSE doc[p].val
  <2>1. IsProperty(doc[p])
    BY DEF Document
  <2>2. CASE doc[p].vis # "Opaque"
    BY <1>2, <2>2
  <2>3. CASE doc[p].vis = "Opaque"
    <3>1. PICK x, v : x = doc[p] /\ v = Hash(doc[p].val)
      OBVIOUS
    <3>2. t[p] = [x EXCEPT !.val = v]
      BY <1>2, <2>3, <3>1
    <3> QED
      BY <2>1, <2>3, <3>1, <3>2, WithValue
  <2> QED
    BY <2>2, <2>3
<1> QED
  BY <1>1, <1>2, <1>3 DEF t, HashesOf

\* What a row so stored holds of secrets.
LEMMA HashedOK ==
    ASSUME NEW S, NEW doc, Guards(doc, S), NEW stored, HashesOf(stored, doc)
    PROVE  Hashed(stored, S)
<1> SUFFICES ASSUME NEW p \in DOMAIN doc, Spells(stored.Properties[p], S)
             PROVE  stored.Properties[p].val[1] = "hash"
  BY DEF Hashed, HashesOf
<1>1. \A v : v # None => Hash(v)[1] = "hash" /\ Hash(v)[2] = v[2]
  BY DEF Hash
<1>2. Hash(None) = None
  BY DEF Hash
<1>3. CASE doc[p].vis # "Opaque"
  BY <1>3 DEF Guards, Spells, HashesOf
<1>4. CASE doc[p].vis = "Opaque"
  BY <1>1, <1>2, <1>4 DEF Spells, HashesOf
<1> QED
  BY <1>3, <1>4

\* A successful create: what the provider has and what is stored of it.
LEMMA CreatedOK ==
    ASSUME NEW props, NEW doc, NEW S, Resolves(props, doc, S), NEW u, u \notin S,
           NEW w, w = ConvertToPluginFormat(props),
           NEW created,
           created = [p \in DOMAIN w \cup {"id"} |-> IF p = "id" THEN Plain(<<"str", u>>) ELSE w[p]],
           NEW stored, stored = ApplyToResource(SplitProperties(created, Fields, props))
    PROVE  Covered(created, stored, S) /\ Hashed(stored, S) /\ Keeps(stored, doc)
<1>1. /\ DOMAIN props = DOMAIN doc /\ Document(props) /\ Guards(props, S)
      /\ \A p \in DOMAIN props : IsProperty(props[p])
  BY DEF Resolves, Document
<1>2. /\ DOMAIN w = DOMAIN props /\ Document(w)
      /\ \A p \in DOMAIN props : /\ w[p].val = props[p].val
                                 /\ props[p].kind = "plain" => w[p].vis = ""
  <2>1. ValuesOf(w, props)
    BY <1>1, WireOK, Zenon
  <2> QED
    BY <2>1 DEF ValuesOf
<1>3. PICK id : id = Plain(<<"str", u>>)
  OBVIOUS
<1>4. IsProperty(id) /\ id.val = <<"str", u>>
  BY <1>3 DEF Plain, Property, IsProperty
<1>5. /\ DOMAIN created = DOMAIN w \cup {"id"} /\ created = [p \in DOMAIN created |-> created[p]]
      /\ \A p \in DOMAIN created : created[p] = IF p = "id" THEN id ELSE w[p]
  BY <1>3
<1>6. PICK merged, ro :
        /\ SplitProperties(created, Fields, props) = [Properties |-> merged, ReadOnlyProperties |-> ro]
        /\ merged = MergeRefsPreservingUserRefs(props, [p \in DOMAIN created \cap Fields |-> created[p]])
  BY DEF SplitProperties
<1>7. PICK plugin : plugin = [p \in DOMAIN created \cap Fields |-> created[p]]
  OBVIOUS
<1>8. /\ DOMAIN plugin \subseteq DOMAIN props
      /\ \A p \in DOMAIN plugin : plugin[p] = w[p]
  BY <1>2, <1>5, <1>7, IdentifierAssumption DEF IdentifierAssumption
<1>9. /\ DOMAIN merged = DOMAIN props /\ merged = [p \in DOMAIN merged |-> merged[p]]
      /\ \A p \in DOMAIN props : merged[p] = MergeProperty(p, props, plugin)
  BY <1>6, <1>7, <1>8 DEF MergeRefsPreservingUserRefs
<1>10. ASSUME NEW p \in DOMAIN props
       PROVE  /\ IsProperty(merged[p]) /\ merged[p].val = props[p].val
              /\ merged[p].vis = props[p].vis
  <2>1. IsProperty(props[p]) /\ merged[p] = MergeProperty(p, props, plugin)
    BY <1>1, <1>9
  <2>2. CASE props[p].kind = "ref"
    <3>1. PICK x, v : /\ x = props[p]
                      /\ v = PreferNonNullValue(x.val, IF p \in DOMAIN plugin THEN plugin[p].val ELSE None)
      OBVIOUS
    <3>2. merged[p] = [x EXCEPT !.val = v]
      BY <2>1, <2>2, <3>1 DEF MergeProperty
    <3>3. v = x.val
      BY <1>2, <1>8, <3>1 DEF PreferNonNullValue
    <3> QED
      BY <2>1, <3>1, <3>2, <3>3, WithValue
  <2>3. CASE props[p].kind = "value"
    BY <2>1, <2>3 DEF MergeProperty
  <2>4. CASE props[p].kind = "plain"
    <3>1. merged[p] = IF p \in DOMAIN plugin THEN plugin[p] ELSE props[p]
      BY <2>1, <2>4 DEF MergeProperty
    <3>2. props[p].vis = ""
      BY <2>1, <2>4 DEF IsProperty
    <3>3. IsProperty(w[p])
      BY <1>2 DEF Document
    <3> QED
      BY <1>2, <1>8, <2>1, <2>4, <3>1, <3>2, <3>3
  <2> QED
    BY <2>1, <2>2, <2>3, <2>4 DEF IsProperty
<1>11. Document(merged) /\ Guards(merged, S)
  BY <1>1, <1>9, <1>10 DEF Document, Guards, Spells
<1>12. /\ DOMAIN stored.Properties = DOMAIN merged
       /\ \A p \in DOMAIN merged :
             /\ stored.Properties[p].vis = merged[p].vis
             /\ stored.Properties[p].val =
                   IF merged[p].vis = "Opaque" THEN Hash(merged[p].val) ELSE merged[p].val
  <2>1. stored = ApplyToResource([Properties |-> merged, ReadOnlyProperties |-> ro])
    BY <1>6
  <2>2. HashesOf(ApplyToResource([Properties |-> merged, ReadOnlyProperties |-> ro]), merged)
    BY <1>11, StoredOK, Zenon
  <2> QED
    BY <2>1, <2>2 DEF HashesOf
<1>13. Hashed(stored, S)
  <2>1. HashesOf(stored, merged)
    BY <1>12 DEF HashesOf
  <2> QED
    BY <1>11, <2>1, HashedOK
<1>14. Covered(created, stored, S)
  <2>1. Document(created)
    BY <1>2, <1>4, <1>5 DEF Document
  <2>2. ASSUME NEW p \in DOMAIN created, Spells(created[p], S)
        PROVE  p \in DOMAIN stored.Properties /\ stored.Properties[p].vis = "Opaque"
    <3>1. p # "id"
      BY <1>4, <1>5, <2>2 DEF Spells
    <3>2. p \in DOMAIN props /\ Spells(props[p], S)
      BY <1>2, <1>5, <2>2, <3>1 DEF Spells
    <3> QED
      BY <1>1, <1>9, <1>10, <1>12, <3>2 DEF Guards
  <2> QED
    BY <2>1, <2>2 DEF Covered
<1>15. Keeps(stored, doc)
  <2> SUFFICES ASSUME NEW p \in RefPaths(doc), doc[p].strat = "SetOnce", doc[p].val # None
               PROVE  stored.Properties[p].val \in {doc[p].val, Hash(doc[p].val)}
    BY DEF Keeps
  <2>1. p \in DOMAIN props /\ props[p] = doc[p]
    BY DEF RefPaths, Resolves
  <2>2. /\ merged[p].val = doc[p].val
        /\ stored.Properties[p].val =
              IF merged[p].vis = "Opaque" THEN Hash(merged[p].val) ELSE merged[p].val
    BY <1>9, <1>10, <1>12, <2>1
  <2> QED
    BY <2>2
<1> QED
  BY <1>13, <1>14, <1>15

-----------------------------------------------------------------------------
(* The updaters *)

\* Setting one field of an updater.
LEMMA WithUpdaterField ==
    ASSUME NEW s, NEW p, NEW a, NEW r, NEW upd,
           upd = [state |-> s, props |-> p, asked |-> a, remaining |-> r], NEW x
    PROVE  /\ [upd EXCEPT !.state = x] = [state |-> x, props |-> p, asked |-> a, remaining |-> r]
           /\ [upd EXCEPT !.props = x] = [state |-> s, props |-> x, asked |-> a, remaining |-> r]
           /\ [upd EXCEPT !.asked = x] = [state |-> s, props |-> p, asked |-> x, remaining |-> r]
           /\ [upd EXCEPT !.remaining = x] = [state |-> s, props |-> p, asked |-> a, remaining |-> x]
OBVIOUS

\* What is in the mailbox of the cache stays there when something is sent to it.
Sends == mailbox' = mailbox \/ \E m \in Messages : mailbox' = Append(mailbox, m)

\* A send leaves the message the cache handles next in its place.
LEMMA SendsKeeps ==
    ASSUME mailbox \in Seq(Messages), Sends, wanted' = wanted
    PROVE  /\ mailbox' \in Seq(Messages)'
           /\ mailbox # << >> => mailbox' # << >> /\ Head(mailbox') = Head(mailbox)
<1>1. Messages' = Messages
  BY DEF Messages, URIs, Updates
<1>2. PICK M : M = Messages
  OBVIOUS
<1>3. ASSUME NEW m \in M, mailbox' = Append(mailbox, m)
      PROVE  /\ mailbox' \in Seq(M)
             /\ mailbox # << >> => mailbox' # << >> /\ Head(mailbox') = Head(mailbox)
  BY <1>2, <1>3
<1> QED
  BY <1>1, <1>2, <1>3 DEF Sends

\* A step of one updater keeps the invariant.
LEMMA UpdaterKeeps ==
    ASSUME IInv, NEW u \in Updates, NEW new, updater' = [updater EXCEPT ![u] = new],
           Fits(new, wanted[u]), Resolves(new.props, wanted[u], Hidden),
           RefersOnce(wanted[u]) => Told(new, wanted[u]),
           Sends, inbox' = inbox \/ inbox' = [inbox EXCEPT ![u] = None],
           UNCHANGED <<sendErrors, wanted, phase, cache, life, answers, changes>>,
           faults' \in 0 .. MaxFaults,
           StoreOK', SetOnceStored', DOMAIN row \subseteq DOMAIN row'
    PROVE  IInv'
<1>1. UNCHANGED <<sendErrors, wanted, phase, cache, life, answers, changes>>
      /\ Updates' = Updates /\ Hidden' = Hidden
  BY HiddenOK DEF Updates
<1>2. /\ updater' = [v \in Updates |-> updater'[v]]
      /\ \A v \in Updates : updater'[v] = IF v = u THEN new ELSE updater[v]
  BY DEF IInv, Types
<1>3. /\ inbox' = [v \in Updates |-> inbox'[v]]
      /\ \A v \in Updates : inbox'[v] = inbox[v] \/ inbox'[v] = None
  BY DEF IInv, Types
<1>4. /\ mailbox' \in Seq(Messages)'
      /\ mailbox # << >> => mailbox' # << >> /\ Head(mailbox') = Head(mailbox)
  BY <1>1, SendsKeeps DEF IInv, Types
<1>5. Types'
  <2>1. \A v \in Updates : Fits(updater'[v], wanted[v])
                            /\ Resolves(updater'[v].props, wanted[v], Hidden)
    BY <1>2 DEF IInv, Types
  <2>2. \A v \in Updates : AnswerOK(inbox'[v], Hidden)
    BY <1>3 DEF IInv, Types, AnswerOK
  <2> QED
    BY <1>1, <1>2, <1>3, <1>4, <2>1, <2>2 DEF IInv, Types
<1>6. ReadsRequested'
  BY <1>1, <1>4 DEF IInv, ReadsRequested, Request, Resource
<1>7. AnswersCached'
  BY <1>1 DEF IInv, AnswersCached, Cached, OneAnswerPerProperty
<1>8. Informed'
  <2>1. \A v \in Updates : RefersOnce(wanted[v]) => Told(updater'[v], wanted[v])
    BY <1>2 DEF IInv, Informed
  <2> QED
    BY <1>1, <2>1 DEF Informed
<1> QED
  BY <1>5, <1>6, <1>7, <1>8 DEF IInv

\* Of an updater that leaves the store alone.
LEMMA UpdaterAloneKeeps ==
    ASSUME IInv, NEW u \in Updates, NEW new, updater' = [updater EXCEPT ![u] = new],
           Fits(new, wanted[u]), Resolves(new.props, wanted[u], Hidden),
           RefersOnce(wanted[u]) => Told(new, wanted[u]),
           Sends, inbox' = inbox \/ inbox' = [inbox EXCEPT ![u] = None],
           UNCHANGED <<sendErrors, wanted, phase, cache, life, answers, changes, row, world>>,
           faults' \in 0 .. MaxFaults
    PROVE  IInv'
<1>1. StoreOK' /\ SetOnceStored'
  BY HiddenOK DEF IInv, StoreOK, SetOnceStored, Updates
<1> QED
  BY <1>1, UpdaterKeeps

\* Asking for the next value.
LEMMA ResolveNext ==
    ASSUME NEW u \in Updates, NEW upd, NEW doc, doc = wanted[u], Resolve(u, upd),
           NEW s, NEW props, NEW a, NEW remaining,
           upd = [state |-> s, props |-> props, asked |-> a, remaining |-> remaining],
           remaining \subseteq ExtractResolvableURIs(doc)
    PROVE  /\ Sends
           /\ \E new : /\ updater' = [updater EXCEPT ![u] = new]
                       /\ Fits(new, doc) /\ new.props = props
                       /\ (\A p \in RefPaths(doc) : doc[p].ref \in remaining \/ props[p].val # None)
                             => Told(new, doc)
<1>1. CASE /\ upd.remaining = {}
           /\ updater' = [updater EXCEPT ![u] = [upd EXCEPT !.state = "creating", !.asked = None]]
           /\ UNCHANGED mailbox
  <2>1. PICK new : new = [upd EXCEPT !.state = "creating", !.asked = None]
    OBVIOUS
  <2>2. new = [state |-> "creating", props |-> props, asked |-> None, remaining |-> remaining]
    <3>1. new = [[upd EXCEPT !.state = "creating"] EXCEPT !.asked = None]
      BY <2>1
    <3> QED
      BY <3>1, WithUpdaterField
  <2>3. /\ new.state = "creating" /\ new.props = props /\ new.asked = None
        /\ new.remaining = remaining /\ remaining = {}
    BY <1>1, <2>2
  <2>4. Fits(new, doc)
    BY <2>2, <2>3 DEF Fits
  <2>5. (\A p \in RefPaths(doc) : doc[p].ref \in remaining \/ props[p].val # None)
           => Told(new, doc)
    BY <2>3 DEF Told
  <2> QED
    BY <1>1, <2>1, <2>3, <2>4, <2>5 DEF Sends
<1>2. ASSUME NEW uri \in upd.remaining, NEW state \in {"resolving", "lost"},
             updater' = [updater EXCEPT ![u] =
                [upd EXCEPT !.state = state, !.asked = uri, !.remaining = @ \ {uri}]],
             \/ mailbox' = mailbox
             \/ mailbox' = Append(mailbox, [from |-> u, uri |-> uri])
      PROVE  /\ Sends
             /\ \E new : /\ updater' = [updater EXCEPT ![u] = new]
                         /\ Fits(new, doc) /\ new.props = props
                         /\ (\A p \in RefPaths(doc) : doc[p].ref \in remaining \/ props[p].val # None)
                               => Told(new, doc)
  <2>1. PICK new : new = [upd EXCEPT !.state = state, !.asked = uri, !.remaining = @ \ {uri}]
    OBVIOUS
  <2>2. PICK rest : rest = remaining \ {uri}
    OBVIOUS
  <2>3. new = [state |-> state, props |-> props, asked |-> uri, remaining |-> rest]
    <3>1. new = [[[upd EXCEPT !.state = state] EXCEPT !.asked = uri] EXCEPT !.remaining = rest]
      BY <2>1, <2>2
    <3> QED
      BY <3>1, WithUpdaterField
  <2>4. /\ new.state = state /\ new.props = props /\ new.asked = uri
        /\ new.remaining = remaining \ {uri} /\ uri \in remaining
    BY <1>2, <2>2, <2>3
  <2>5. Fits(new, doc)
    BY <2>3, <2>4, <2>2 DEF Fits
  <2>6. (\A p \in RefPaths(doc) : doc[p].ref \in remaining \/ props[p].val # None)
           => Told(new, doc)
    BY <2>4 DEF Told
  <2>7. [from |-> u, uri |-> uri] \in Messages
    <3>1. uri \in ExtractResolvableURIs(wanted[u])
      BY <2>4
    <3>2. uri \in URIs
      BY <3>1 DEF URIs
    <3> QED
      BY <3>2 DEF Messages
  <2> QED
    BY <1>2, <2>1, <2>4, <2>5, <2>6, <2>7 DEF Sends
<1>3. PICK state \in {"resolving", "lost"} : state = IF phase = "down" THEN "lost" ELSE "resolving"
  OBVIOUS
<1>4. ASSUME NEW uri \in upd.remaining,
             updater' = [updater EXCEPT ![u] =
                [upd EXCEPT !.state = IF phase = "down" THEN "lost" ELSE "resolving",
                            !.asked = uri, !.remaining = @ \ {uri}]],
             mailbox' = IF phase = "down" THEN mailbox
                        ELSE Append(mailbox, [from |-> u, uri |-> uri])
      PROVE  /\ updater' = [updater EXCEPT ![u] =
                [upd EXCEPT !.state = state, !.asked = uri, !.remaining = @ \ {uri}]]
             /\ \/ mailbox' = mailbox
                \/ mailbox' = Append(mailbox, [from |-> u, uri |-> uri])
  BY <1>3, <1>4
<1> QED
  BY <1>1, <1>2, <1>4 DEF Resolve

\* The last act of the executor.
LEMMA WithShutdownSends ==
    ASSUME NEW next, mailbox' = WithShutdown(next, mailbox)
    PROVE  Sends
BY DEF WithShutdown, Sends, Messages

\* An updater in another state, with the same document.
LEMMA NewState ==
    ASSUME IInv, NEW u \in Updates, NEW state \in {"success", "failed"}, NEW new,
           new = [updater[u] EXCEPT !.state = state]
    PROVE  /\ Fits(new, wanted[u]) /\ new.props = updater[u].props /\ new.state = state
           /\ new.remaining = updater[u].remaining
           /\ Resolves(new.props, wanted[u], Hidden)
<1>1. Fits(updater[u], wanted[u]) /\ Resolves(updater[u].props, wanted[u], Hidden)
  BY DEF IInv, Types
<1>2. PICK upd : upd = updater[u]
  OBVIOUS
<1>3. PICK s, p, a, r : upd = [state |-> s, props |-> p, asked |-> a, remaining |-> r]
  BY <1>1, <1>2 DEF Fits
<1>4. new = [state |-> state, props |-> p, asked |-> a, remaining |-> r]
  <2>1. PICK x : x = state
    OBVIOUS
  <2>2. new = [upd EXCEPT !.state = x]
    BY <1>2, <2>1
  <2>3. [upd EXCEPT !.state = x] = [state |-> x, props |-> p, asked |-> a, remaining |-> r]
    BY <1>3
  <2> QED
    BY <2>1, <2>2, <2>3
<1>5. /\ new.state = state /\ new.props = p /\ new.asked = a /\ new.remaining = r
      /\ upd.props = p /\ upd.remaining = r
  BY <1>3, <1>4
<1>6. Fits(new, wanted[u])
  BY <1>1, <1>2, <1>4, <1>5 DEF Fits, Final
<1> QED
  BY <1>1, <1>2, <1>5, <1>6

\* An updater that gives up keeps the invariant.
LEMMA FailKeeps ==
    ASSUME IInv, NEW u \in Updates, Fail(u),
           UNCHANGED <<sendErrors, wanted, phase, cache, life, answers, changes, row, world>>,
           inbox' = inbox \/ inbox' = [inbox EXCEPT ![u] = None],
           faults' \in 0 .. MaxFaults
    PROVE  IInv'
<1>1. PICK new : new = [updater[u] EXCEPT !.state = "failed"]
  OBVIOUS
<1>2. updater' = [updater EXCEPT ![u] = new] /\ Sends
  <2>1. updater' = [updater EXCEPT ![u].state = "failed"]
    BY DEF Fail
  <2>2. Sends
    BY WithShutdownSends DEF Fail
  <2> QED
    BY <1>1, <2>1, <2>2
<1>3. Fits(new, wanted[u]) /\ Resolves(new.props, wanted[u], Hidden) /\ new.state = "failed"
  BY <1>1, NewState
<1>4. Told(new, wanted[u])
  BY <1>3 DEF Told
<1> QED
  BY <1>2, <1>3, <1>4, UpdaterAloneKeeps

\* A failed resolve, its timeout and a failed create keep the invariant.
LEMMA FailStep ==
    ASSUME IInv, NEW u \in Updates,
           FailsWithDependency(u) \/ ResolveTimeout(u) \/ CreateFails(u)
    PROVE  IInv'
<1>1. faults \in 0 .. MaxFaults /\ MaxFaults \in Nat
  BY ResolveAssumption DEF ResolveAssumption, IInv, Types
<1>2. CASE FailsWithDependency(u) \/ ResolveTimeout(u)
  BY <1>1, <1>2, FailKeeps DEF FailsWithDependency, ResolveTimeout
<1>3. CASE CreateFails(u)
  BY <1>1, <1>3, FailKeeps DEF CreateFails
<1> QED
  BY <1>2, <1>3

\* The parts of an updater.
LEMMA UpdaterParts ==
    ASSUME IInv, NEW u \in Updates
    PROVE  \E s, p, a, r :
              /\ updater[u] = [state |-> s, props |-> p, asked |-> a, remaining |-> r]
              /\ s = updater[u].state /\ p = updater[u].props /\ a = updater[u].asked
              /\ r = updater[u].remaining /\ r \subseteq ExtractResolvableURIs(wanted[u])
              /\ s = "resolving" => a \in ExtractResolvableURIs(wanted[u])
              /\ Resolves(p, wanted[u], Hidden)
BY DEF IInv, Types, Fits

\* An updater that starts to resolve keeps the invariant (resolve).
LEMMA StartStep ==
    ASSUME IInv, NEW u \in Updates, StartUpdate(u)
    PROVE  IInv'
<1>1. PICK doc : doc = wanted[u]
  OBVIOUS
<1>2. PICK s, p, a, r :
        /\ updater[u] = [state |-> s, props |-> p, asked |-> a, remaining |-> r]
        /\ s = updater[u].state /\ p = updater[u].props /\ a = updater[u].asked
        /\ r = updater[u].remaining /\ r \subseteq ExtractResolvableURIs(doc)
        /\ Resolves(p, doc, Hidden)
  BY <1>1, UpdaterParts
<1>3. PICK upd : upd = updater[u]
  OBVIOUS
<1>4. Resolve(u, upd)
  BY <1>3 DEF StartUpdate
<1>5. upd = [state |-> s, props |-> p, asked |-> a, remaining |-> r]
  BY <1>2, <1>3
<1>6. /\ Sends
      /\ \E new : /\ updater' = [updater EXCEPT ![u] = new]
                  /\ Fits(new, doc) /\ new.props = p
                  /\ (\A q \in RefPaths(doc) : doc[q].ref \in r \/ p[q].val # None)
                        => Told(new, doc)
  BY <1>1, <1>2, <1>4, <1>5, ResolveNext
<1>7. RefersOnce(doc) => \A q \in RefPaths(doc) : doc[q].ref \in r
  BY <1>1, <1>2 DEF StartUpdate, IInv, Informed, Told, ExtractResolvableURIs
<1>8. faults' \in 0 .. MaxFaults
       /\ UNCHANGED <<sendErrors, wanted, phase, cache, life, answers, changes, row, world, inbox>>
  BY DEF StartUpdate, IInv, Types
<1> QED
  BY <1>1, <1>2, <1>6, <1>7, <1>8, UpdaterAloneKeeps

\* An answer of the cache, applied by its updater, keeps the invariant
\* (resourceResolved).
LEMMA AnswerStep ==
    ASSUME IInv, NEW u \in Updates, AnswerArrives(u)
    PROVE  IInv'
<1>1. PICK doc : doc = wanted[u]
  OBVIOUS
<1>2. PICK s, p, a, r :
        /\ updater[u] = [state |-> s, props |-> p, asked |-> a, remaining |-> r]
        /\ s = updater[u].state /\ p = updater[u].props /\ a = updater[u].asked
        /\ r = updater[u].remaining /\ r \subseteq ExtractResolvableURIs(doc)
        /\ s = "resolving" => a \in ExtractResolvableURIs(doc)
        /\ Resolves(p, doc, Hidden)
  BY <1>1, UpdaterParts
<1>3. /\ faults' \in 0 .. MaxFaults /\ inbox' = [inbox EXCEPT ![u] = None]
      /\ UNCHANGED <<sendErrors, wanted, phase, cache, life, answers, changes, row, world>>
      /\ s = "resolving" /\ inbox[u] # None /\ AnswerOK(inbox[u], Hidden)
  BY <1>2 DEF AnswerArrives, IInv, Types
<1>4. CASE Fail(u)
  BY <1>3, <1>4, FailKeeps
<1>5. CASE /\ inbox[u].found
           /\ Resolve(u, [updater[u] EXCEPT
                !.props = ResolvePropertyReferences(updater[u].asked, @, inbox[u].answer)])
  <2>1. PICK x, next : x = inbox[u].answer /\ next = ResolvePropertyReferences(a, p, x)
    OBVIOUS
  <2>2. PICK upd : upd = [updater[u] EXCEPT !.props = next]
    OBVIOUS
  <2>3. Resolve(u, upd)
    BY <1>2, <1>5, <2>1, <2>2
  <2>4. upd = [state |-> s, props |-> next, asked |-> a, remaining |-> r]
    BY <1>2, <2>2, WithUpdaterField
  <2>5. GuardedAnswer(x, Hidden)
    BY <1>3, <1>5, <2>1 DEF AnswerOK
  <2>6. /\ Resolves(next, doc, Hidden)
        /\ \A q \in DOMAIN doc : p[q].val # None => next[q].val # None
        /\ RefersOnce(doc) =>
              \A q \in RefPaths(doc) : doc[q].ref = a => next[q].val # None
    BY <1>2, <1>3, <2>1, <2>5, AnswerResolves
  <2>7. /\ Sends
        /\ \E new : /\ updater' = [updater EXCEPT ![u] = new]
                    /\ Fits(new, doc) /\ new.props = next
                    /\ (\A q \in RefPaths(doc) : doc[q].ref \in r \/ next[q].val # None)
                          => Told(new, doc)
    BY <1>1, <1>2, <2>3, <2>4, ResolveNext
  <2>8. RefersOnce(doc) =>
            \A q \in RefPaths(doc) : doc[q].ref \in r \/ next[q].val # None
    <3> SUFFICES ASSUME RefersOnce(doc), NEW q \in RefPaths(doc), doc[q].ref \notin r
                 PROVE  next[q].val # None
      OBVIOUS
    <3>1. doc[q].ref = a \/ p[q].val # None
      BY <1>1, <1>2, <1>3 DEF IInv, Informed, Told
    <3>2. q \in DOMAIN doc
      BY DEF RefPaths
    <3> QED
      BY <2>6, <3>1, <3>2
  <2> QED
    BY <1>1, <1>3, <2>6, <2>7, <2>8, UpdaterAloneKeeps
<1> QED
  BY <1>4, <1>5 DEF AnswerArrives

\* A successful create, whose values become visible to others, keeps the
\* invariant.
LEMMA CreateStep ==
    ASSUME IInv, NEW u \in Updates, CreateSucceeds(u)
    PROVE  IInv'
<1>1. PICK doc : doc = wanted[u]
  OBVIOUS
<1>2. PICK props : props = updater[u].props
  OBVIOUS
<1>3. Resolves(props, doc, Hidden) /\ updater[u].state = "creating"
  BY <1>1, <1>2 DEF IInv, Types, CreateSucceeds
<1>4. PICK created : created = Created(u)
  OBVIOUS
<1>5. PICK stored : stored = ApplyToResource(SplitProperties(created, Fields, props))
  OBVIOUS
<1>6. u \notin Hidden
  <2>1. u \in Resources
    BY ResolveAssumption DEF ResolveAssumption, IInv, Types, Updates
  <2> QED
    BY <2>1, HiddenOK, DocumentsAssumption DEF DocumentsAssumption
<1>7. Covered(created, stored, Hidden) /\ Hashed(stored, Hidden) /\ Keeps(stored, doc)
  <2>1. PICK w : w = ConvertToPluginFormat(props)
    OBVIOUS
  <2>2. created = [p \in DOMAIN w \cup {"id"} |-> IF p = "id" THEN Plain(<<"str", u>>) ELSE w[p]]
    BY <1>2, <1>4, <2>1 DEF Created, Wire
  <2> QED
    BY <1>3, <1>5, <1>6, <2>1, <2>2, CreatedOK
<1>8. PICK new : new = [updater[u] EXCEPT !.state = "success"]
  OBVIOUS
<1>9. /\ updater' = [updater EXCEPT ![u] = new] /\ Sends
      /\ world' = [r \in DOMAIN world \cup {u} |-> IF r = u THEN created ELSE world[r]]
      /\ row' = [r \in DOMAIN row \cup {u} |-> IF r = u THEN stored ELSE row[r]]
      /\ UNCHANGED <<sendErrors, wanted, inbox, phase, cache, life, faults, changes, answers>>
  <2>1. Sends
    BY WithShutdownSends DEF CreateSucceeds
  <2> QED
    BY <1>2, <1>4, <1>5, <1>8, <2>1 DEF CreateSucceeds
<1>10. /\ Fits(new, wanted[u]) /\ Resolves(new.props, wanted[u], Hidden) /\ new.state = "success"
       /\ new.props = props /\ new.remaining = updater[u].remaining
  BY <1>2, <1>8, NewState
<1>11. RefersOnce(doc) => Told(new, wanted[u])
  BY <1>1, <1>2, <1>3, <1>10 DEF IInv, Informed, Told
<1>12. StoreOK'
  BY <1>7, <1>9, HiddenOK DEF IInv, StoreOK
<1>13. SetOnceStored'
  BY <1>1, <1>7, <1>9 DEF IInv, SetOnceStored, Updates
<1>14. faults' \in 0 .. MaxFaults /\ DOMAIN row \subseteq DOMAIN row'
  BY <1>9 DEF IInv, Types
<1> QED
  BY <1>1, <1>9, <1>10, <1>11, <1>12, <1>13, <1>14, UpdaterKeeps

-----------------------------------------------------------------------------
(* The cache *)

\* The answer for a guarded property is guarded.
LEMMA AnswerFromOK ==
    ASSUME NEW S, Blank \notin S, NEW doc, Document(doc), GuardsTop(doc, S),
           NEW uri, uri[2] \notin Nested \/ S = {}, NEW a, a = AnswerFrom(doc, uri)
    PROVE  AnswerOK(a, S) /\ a.found \in BOOLEAN
<1>1. CASE uri[2] \in DOMAIN doc
  <2>1. PICK x : x = doc[uri[2]]
    OBVIOUS
  <2>2. PICK v : v = IF x.kind = "ref" /\ x.val = None THEN <<"json", Blank>> ELSE String(x.val)
    OBVIOUS
  <2>3. PICK y : y = [x EXCEPT !.val = v]
    OBVIOUS
  <2>4. a = [found |-> TRUE, answer |-> y]
    <3>1. y = [doc[uri[2]] EXCEPT !.val = IF doc[uri[2]].kind = "ref" /\ doc[uri[2]].val = None
                                          THEN <<"json", Blank>> ELSE String(doc[uri[2]].val)]
      BY <2>1, <2>2, <2>3, Zenon
    <3> QED
      BY <1>1, <3>1, Zenon DEF AnswerFrom
  <2>5. IsProperty(x) /\ (Spells(x, S) => x.vis = "Opaque")
    <3>1. S = {} => ~Spells(x, S)
      BY DEF Spells
    <3> QED
      BY <1>1, <2>1, <3>1 DEF Document, GuardsTop
  <2>6. IsProperty(y) /\ y.val = v /\ y.vis = x.vis
    BY <2>3, <2>5, WithValue
  <2>7. v # None /\ (v[2] = Blank \/ (x.val # None /\ v[2] = x.val[2]))
    <3>1. <<"json", Blank>> # None /\ <<"json", Blank>>[2] = Blank
      BY DEF None
    <3> QED
      BY <2>2, <3>1, StringSpells
  <2>8. GuardedAnswer(y, S)
    BY <2>5, <2>6, <2>7 DEF GuardedAnswer, Spells
  <2>9. a.found = TRUE /\ a.answer = y
    BY <2>4
  <2> QED
    BY <2>8, <2>9 DEF AnswerOK
<1>2. CASE uri[2] \notin DOMAIN doc
  <2>1. a.found = FALSE
    BY <1>2 DEF AnswerFrom, NoAnswer
  <2> QED
    BY <2>1 DEF AnswerOK
<1> QED
  BY <1>1, <1>2

\* An answer of the cache keeps the invariant: to a waiting updater, to one that
\* is gone, or with the end that follows.
LEMMA ReplyKeeps ==
    ASSUME IInv, mailbox # << >>, Request # Shutdown,
           UNCHANGED <<sendErrors, wanted, updater, row, world, changes>>,
           faults' \in 0 .. MaxFaults,
           NEW a, AnswerOK(a, Hidden), a.found \in BOOLEAN,
           NEW next, Reply(a, next),
           next = [r \in DOMAIN next |-> next[r]], DOMAIN next \subseteq DOMAIN row,
           \A r \in DOMAIN next : Document(next[r]) /\ GuardsTop(next[r], Hidden),
           DOMAIN cache \subseteq DOMAIN next, \A r \in DOMAIN cache : next[r] = cache[r],
           a.found => /\ Resource \in DOMAIN next
                      /\ a.answer = AnswerFrom(next[Resource], Request.uri).answer
    PROVE  IInv'
<1>1. mailbox' \in Seq(Messages)'
  <2>1. Messages' = Messages
    BY DEF Messages, URIs, Updates
  <2>2. PICK M : M = Messages
    OBVIOUS
  <2>3. PICK q : q = mailbox
    OBVIOUS
  <2>4. q \in Seq(M) /\ q # << >> /\ (mailbox' = Tail(q) \/ mailbox' = << >>)
    BY <2>2, <2>3 DEF IInv, Types, Reply, Terminates
  <2>5. Tail(q) \in Seq(M) /\ << >> \in Seq(M)
    BY <2>4
  <2>6. mailbox' \in Seq(M)
    BY <2>4, <2>5, Zenon
  <2> QED
    BY <2>1, <2>2, <2>6
<1>2. /\ inbox' = [u \in Updates |-> inbox'[u]]
      /\ \A u \in Updates : inbox'[u] = inbox[u] \/ inbox'[u] = a
  BY DEF IInv, Types, Reply
<1>3. (cache' = next \/ cache' = Empty) /\ phase' \in {"idle", "down"}
  BY DEF Reply, Terminates
<1>4. /\ cache' = [r \in DOMAIN cache' |-> cache'[r]] /\ DOMAIN cache' \subseteq DOMAIN row
      /\ \A r \in DOMAIN cache' : Document(cache'[r]) /\ GuardsTop(cache'[r], Hidden)
  BY <1>3 DEF Empty
<1>5. Updates' = Updates /\ Hidden' = Hidden
  BY HiddenOK DEF Updates
<1>6. Types'
  BY <1>1, <1>2, <1>3, <1>4, <1>5 DEF IInv, Types
<1>7. AnswersCached'
  <2>1. /\ life \in Nat
        /\ \A b, c \in answers : b.uri = c.uri /\ b.life = c.life => b.answer = c.answer
        /\ \A b \in answers : b.life \in 0 .. life
        /\ \A b \in answers : b.life = life => Cached(b)
    BY DEF IInv, AnswersCached, OneAnswerPerProperty
  <2>2. CASE answers' = answers /\ life' = life + 1
    <3>1. life' \in Nat /\ \A b \in answers : b.life \in 0 .. life' /\ b.life # life'
      BY <2>1, <2>2
    <3> QED
      BY <2>1, <2>2, <3>1 DEF AnswersCached, OneAnswerPerProperty
  <2>3. ASSUME cache' = next, life' = life,
               \/ answers' = answers
               \/ /\ a.found
                  /\ answers' = answers \cup
                        {[uri |-> Request.uri, answer |-> a.answer, life |-> life]}
        PROVE  AnswersCached'
    <3>1. PICK new : new = [uri |-> Request.uri, answer |-> a.answer, life |-> life]
      OBVIOUS
    <3>2. new.uri = Request.uri /\ new.answer = a.answer /\ new.life = life
      BY <3>1
    <3>3. \A b \in answers' : b \in answers \/ (a.found /\ b = new)
      BY <2>3, <3>1
    <3>4. ASSUME NEW b \in answers', b.life = life
          PROVE  /\ b.uri[1] \in DOMAIN next
                 /\ b.answer = AnswerFrom(next[b.uri[1]], b.uri).answer
      <4>1. CASE b \in answers
        BY <2>1, <3>4, <4>1 DEF Cached
      <4>2. CASE a.found /\ b = new
        BY <3>2, <4>2 DEF Resource
      <4> QED
        BY <3>3, <4>1, <4>2
    <3>5. \A b \in answers' : b.life \in 0 .. life
      BY <2>1, <3>2, <3>3
    <3>6. ASSUME NEW b \in answers', NEW c \in answers', b.uri = c.uri, b.life = c.life
          PROVE  b.answer = c.answer
      <4>1. CASE b.life = life
        BY <3>4, <3>6, <4>1
      <4>2. CASE b.life # life
        BY <2>1, <3>2, <3>3, <3>6, <4>2
      <4> QED
        BY <4>1, <4>2
    <3>7. \A b \in answers' : b.life = life => Cached(b)'
      BY <2>3, <3>4 DEF Cached, AnswerFrom, NoAnswer
    <3> QED
      BY <2>1, <2>3, <3>5, <3>6, <3>7 DEF AnswersCached, OneAnswerPerProperty
  <2> QED
    BY <2>2, <2>3 DEF Reply, Terminates
<1>8. Informed'
  BY <1>5 DEF IInv, Informed
<1>9. StoreOK' /\ SetOnceStored' /\ ReadsRequested'
  BY <1>3, <1>5 DEF IInv, StoreOK, SetOnceStored, ReadsRequested
<1> QED
  BY <1>6, <1>7, <1>8, <1>9 DEF IInv

\* What a Read has returned is guarded by the row.
LEMMA PreservedOK ==
    ASSUME NEW S, NEW real, NEW stored, Covered(real, stored, S), NEW doc,
           doc = PreserveRefMetadata(stored.Properties, real)
    PROVE  Document(doc) /\ GuardsTop(doc, S)
<1>1. /\ DOMAIN doc = DOMAIN real /\ doc = [p \in DOMAIN doc |-> doc[p]]
      /\ \A p \in DOMAIN real :
            doc[p] = IF /\ p \notin Nested /\ p \in DOMAIN stored.Properties
                        /\ stored.Properties[p].vis = "Opaque"
                     THEN Value(real[p].val, "Opaque", stored.Properties[p].strat) ELSE real[p]
  BY DEF PreserveRefMetadata
<1>2. ASSUME NEW p \in DOMAIN real
      PROVE  /\ IsProperty(doc[p])
             /\ p \notin Nested /\ Spells(doc[p], S) => doc[p].vis = "Opaque"
  <2>1. IsProperty(real[p])
    BY DEF Covered, Document
  <2>2. CASE p \notin Nested /\ p \in DOMAIN stored.Properties /\ stored.Properties[p].vis = "Opaque"
    <3>1. PICK v, s : v = real[p].val /\ s = stored.Properties[p].strat
      OBVIOUS
    <3>2. PICK x : x = Value(v, "Opaque", s)
      OBVIOUS
    <3>3. IsProperty(x) /\ x.val = v /\ x.vis = "Opaque"
      BY <3>2 DEF Value, Property, IsProperty
    <3> QED
      BY <1>1, <2>2, <3>1, <3>2, <3>3
  <2>3. CASE ~(p \notin Nested /\ p \in DOMAIN stored.Properties /\ stored.Properties[p].vis = "Opaque")
    <3>1. doc[p] = real[p]
      BY <1>1, <2>3
    <3>2. p \notin Nested => ~Spells(real[p], S)
      BY <2>3 DEF Covered
    <3> QED
      BY <2>1, <3>1, <3>2
  <2> QED
    BY <2>2, <2>3
<1> QED
  BY <1>1, <1>2 DEF Document, GuardsTop

\* Answering not found keeps the invariant.
LEMMA NoAnswerKeeps ==
    ASSUME IInv, mailbox # << >>, Request # Shutdown,
           UNCHANGED <<sendErrors, wanted, updater, row, world, changes>>,
           faults' \in 0 .. MaxFaults, Reply(NoAnswer, cache)
    PROVE  IInv'
<1>1. PICK a : a = NoAnswer
  OBVIOUS
<1>2. a.found = FALSE /\ AnswerOK(a, Hidden)
  BY <1>1 DEF NoAnswer, AnswerOK
<1>3. PICK next : next = cache
  OBVIOUS
<1>4. /\ next = [r \in DOMAIN next |-> next[r]] /\ DOMAIN next \subseteq DOMAIN row
      /\ \A r \in DOMAIN next : Document(next[r]) /\ GuardsTop(next[r], Hidden)
      /\ DOMAIN cache \subseteq DOMAIN next /\ \A r \in DOMAIN cache : next[r] = cache[r]
  BY <1>3 DEF IInv, Types
<1>5. Reply(a, next)
  BY <1>1, <1>3
<1> QED
  BY <1>2, <1>4, <1>5, ReplyKeeps

\* The cache is asked for top-level properties only, or nothing is hidden.
LEMMA RequestTopLevel ==
    ASSUME IInv, mailbox # << >>, Request # Shutdown
    PROVE  Request.uri[2] \notin Nested \/ Hidden = {}
<1>1. Request \in Messages
  <2>1. PICK q, M : q = mailbox /\ M = Messages
    OBVIOUS
  <2>2. q \in Seq(M) /\ q # << >>
    BY <2>1 DEF IInv, Types
  <2>3. Head(q) \in M
    BY <2>2
  <2> QED
    BY <2>1, <2>3 DEF Request
<1>2. PICK u \in Updates : Request.uri \in ExtractResolvableURIs(wanted[u])
  BY <1>1 DEF Messages, URIs
<1> QED
  BY <1>2 DEF Hidden, TopLevel

\* An answer from a document that is in the cache after it.
LEMMA AnswerKeeps ==
    ASSUME IInv, mailbox # << >>, Request # Shutdown,
           UNCHANGED <<sendErrors, wanted, updater, row, world, changes>>,
           faults' \in 0 .. MaxFaults,
           NEW doc, Document(doc), GuardsTop(doc, Hidden),
           NEW next, Reply(AnswerFrom(doc, Request.uri), next),
           next = [r \in DOMAIN next |-> next[r]], DOMAIN next = DOMAIN cache \cup {Resource},
           Resource \in DOMAIN row, next[Resource] = doc,
           \A r \in DOMAIN cache : next[r] = cache[r]
    PROVE  IInv'
<1>1. PICK uri, a : uri = Request.uri /\ a = AnswerFrom(doc, uri)
  OBVIOUS
<1>2. AnswerOK(a, Hidden) /\ a.found \in BOOLEAN
  <2>1. uri[2] \notin Nested \/ Hidden = {}
    BY <1>1, RequestTopLevel
  <2> QED
    BY <1>1, <2>1, HiddenOK, AnswerFromOK
<1>3. /\ DOMAIN next \subseteq DOMAIN row /\ DOMAIN cache \subseteq DOMAIN next
      /\ \A r \in DOMAIN next : Document(next[r]) /\ GuardsTop(next[r], Hidden)
  BY DEF IInv, Types
<1>4. Reply(a, next) /\ (a.found => /\ Resource \in DOMAIN next
                                    /\ a.answer = AnswerFrom(next[Resource], Request.uri).answer)
  BY <1>1
<1> QED
  BY <1>2, <1>3, <1>4, ReplyKeeps

\* What has been read goes into the cache.
LEMMA CachesKeeps ==
    ASSUME IInv, phase = "reading",
           UNCHANGED <<sendErrors, wanted, updater, row, world, changes>>,
           faults' \in 0 .. MaxFaults,
           NEW doc, Document(doc), GuardsTop(doc, Hidden), Caches(doc)
    PROVE  IInv'
<1>1. /\ mailbox # << >> /\ Request # Shutdown
      /\ Resource \in DOMAIN row /\ Resource \notin DOMAIN cache
  BY DEF IInv, ReadsRequested
<1>2. PICK next : next = [r \in DOMAIN cache \cup {Resource} |->
                             IF r = Resource THEN doc ELSE cache[r]]
  OBVIOUS
<1>3. Reply(AnswerFrom(doc, Request.uri), next)
  BY <1>2 DEF Caches
<1>4. /\ next = [r \in DOMAIN next |-> next[r]] /\ DOMAIN next = DOMAIN cache \cup {Resource}
      /\ next[Resource] = doc /\ \A r \in DOMAIN cache : next[r] = cache[r]
  BY <1>1, <1>2
<1> QED
  BY <1>1, <1>3, <1>4, AnswerKeeps

\* The cache turns to something else and changes nothing but its mailbox.
LEMMA QuietKeeps ==
    ASSUME IInv, phase' \in {"idle", "reading", "ended"},
           phase' # "reading" \/ ReadsRequested', mailbox' = mailbox \/ mailbox' = << >>,
           UNCHANGED <<sendErrors, wanted, updater, inbox, cache, life, row, world, faults, changes,
                       answers>>
    PROVE  IInv'
<1>1. Updates' = Updates /\ Hidden' = Hidden /\ Messages' = Messages
  <2>1. wanted' = wanted
    OBVIOUS
  <2>2. Hidden' = Hidden
    BY <2>1, HiddenOK
  <2> QED
    BY <2>1, <2>2 DEF Updates, Messages, URIs
<1>2. mailbox' \in Seq(Messages)
  <2>1. PICK M : M = Messages
    OBVIOUS
  <2>2. mailbox \in Seq(M) /\ << >> \in Seq(M)
    BY <2>1 DEF IInv, Types
  <2> QED
    BY <2>1, <2>2, Zenon
<1>3. Types'
  BY <1>1, <1>2 DEF IInv, Types
<1>4. StoreOK' /\ AnswersCached' /\ SetOnceStored' /\ Informed'
  BY <1>1 DEF IInv, StoreOK, AnswersCached, Cached, OneAnswerPerProperty, SetOnceStored, Informed
<1>5. ReadsRequested'
  BY DEF ReadsRequested
<1> QED
  BY <1>3, <1>4, <1>5 DEF IInv

\* Every step of the cache keeps the invariant (resolveValue, ResolveValue).
LEMMA CacheStep ==
    ASSUME IInv, CacheNext
    PROVE  IInv'
<1>1. /\ faults \in 0 .. MaxFaults /\ MaxFaults \in Nat
      /\ \A r \in DOMAIN cache : Document(cache[r]) /\ GuardsTop(cache[r], Hidden)
  BY ResolveAssumption DEF ResolveAssumption, IInv, Types
<1>2. CASE AnswersAtOnce
  <2>1. /\ mailbox # << >> /\ Request # Shutdown
        /\ UNCHANGED <<sendErrors, wanted, updater, row, world, changes>>
        /\ faults' \in 0 .. MaxFaults
    BY <1>1, <1>2 DEF AnswersAtOnce
  <2>2. CASE Reply(NoAnswer, cache)
    BY <2>1, <2>2, NoAnswerKeeps
  <2>3. CASE Resource \in DOMAIN cache /\ Reply(AnswerFrom(cache[Resource], Request.uri), cache)
    <3>1. PICK doc, next : doc = cache[Resource] /\ next = cache
      OBVIOUS
    <3>2. Document(doc) /\ GuardsTop(doc, Hidden)
      BY <1>1, <2>3, <3>1
    <3>3. /\ next = [r \in DOMAIN next |-> next[r]] /\ DOMAIN next = DOMAIN cache \cup {Resource}
          /\ Resource \in DOMAIN row /\ next[Resource] = doc
          /\ \A r \in DOMAIN cache : next[r] = cache[r]
      BY <2>3, <3>1 DEF IInv, Types
    <3>4. Reply(AnswerFrom(doc, Request.uri), next)
      BY <2>3, <3>1
    <3> QED
      BY <2>1, <3>2, <3>3, <3>4, AnswerKeeps
  <2> QED
    BY <1>2, <2>2, <2>3 DEF AnswersAtOnce
<1>3. CASE StartsRead
  <2>1. /\ phase' = "reading"
        /\ UNCHANGED <<sendErrors, wanted, updater, inbox, mailbox, cache, life, row, world,
                       faults, changes, answers>>
    BY <1>3 DEF StartsRead
  <2>2. ReadsRequested'
    BY <1>3, <2>1 DEF StartsRead, ReadsRequested, Request, Resource, Shutdown
  <2> QED
    BY <2>1, <2>2, QuietKeeps
<1>4. CASE ReadSucceeds
  <2>1. PICK real, stored : real = world[Resource] /\ stored = row[Resource]
    OBVIOUS
  <2>2. Covered(real, stored, Hidden)
    BY <1>4, <2>1 DEF ReadSucceeds, IInv, ReadsRequested, StoreOK
  <2>3. PICK doc : doc = PreserveRefMetadata(stored.Properties, real)
    OBVIOUS
  <2>4. Document(doc) /\ GuardsTop(doc, Hidden)
    BY <2>2, <2>3, PreservedOK
  <2>5. Caches(doc)
    BY <1>4, <2>1, <2>3 DEF ReadSucceeds
  <2> QED
    BY <1>1, <1>4, <2>4, <2>5, CachesKeeps DEF ReadSucceeds
<1>5. CASE ReadFails
  <2>1. faults' \in 0 .. MaxFaults
    BY <1>1, <1>5 DEF ReadFails
  <2>2. PICK doc : doc = Empty
    OBVIOUS
  <2>3. Document(doc) /\ GuardsTop(doc, Hidden)
    BY <2>2 DEF Empty, Document, GuardsTop
  <2>4. Caches(doc)
    BY <1>5, <2>2 DEF ReadFails
  <2> QED
    BY <1>5, <2>1, <2>3, <2>4, CachesKeeps DEF ReadFails
<1>6. CASE CallFails
  <2>1. faults' \in 0 .. MaxFaults
    BY <1>1, <1>6 DEF CallFails
  <2>2. mailbox # << >> /\ Request # Shutdown
    BY <1>6 DEF CallFails, IInv, ReadsRequested
  <2> QED
    BY <1>6, <2>1, <2>2, NoAnswerKeeps DEF CallFails
<1>7. CASE ShutsDown
  <2>1. /\ phase' = "ended" /\ mailbox' = << >>
        /\ UNCHANGED <<sendErrors, wanted, updater, inbox, cache, life, row, world, faults, changes,
                       answers>>
    BY <1>7 DEF ShutsDown
  <2> QED
    BY <2>1, QuietKeeps
<1>8. CASE Restart
  <2>1. /\ phase' = "idle"
        /\ UNCHANGED <<sendErrors, wanted, updater, inbox, mailbox, cache, life, row, world,
                       faults, changes, answers>>
    BY <1>8 DEF Restart
  <2> QED
    BY <2>1, QuietKeeps
<1> QED
  BY <1>2, <1>3, <1>4, <1>5, <1>6, <1>7, <1>8 DEF CacheNext

\* A change at the provider spells no secret.
LEMMA ChangeStep ==
    ASSUME IInv, OutsideChange
    PROVE  IInv'
<1>1. PICK new : new = Plain(<<"str", "changed">>)
  OBVIOUS
<1>2. IsProperty(new) /\ ~Spells(new, Hidden)
  BY <1>1, HiddenOK, DocumentsAssumption DEF DocumentsAssumption, Spells, Plain, Property, IsProperty
<1>3. PICK r \in DOMAIN world : \E q \in DOMAIN world[r] \cap Fields :
          world' = [world EXCEPT ![r][q] = new]
  BY <1>1 DEF OutsideChange
<1>4. PICK q \in DOMAIN world[r] : world' = [world EXCEPT ![r][q] = new]
  BY <1>3
<1>5. PICK real, doc : real = world[r] /\ doc = [real EXCEPT ![q] = new]
  OBVIOUS
<1>6. world' = [world EXCEPT ![r] = doc]
  BY <1>4, <1>5
<1>7. /\ changes' \in 0 .. MaxChanges
      /\ UNCHANGED <<sendErrors, wanted, updater, inbox, mailbox, phase, cache, life, row, faults,
                     answers>>
      /\ Hidden' = Hidden
  BY ResolveAssumption, HiddenOK DEF ResolveAssumption, OutsideChange, IInv, Types, cacheVars
<1>8. Covered(real, row[r], Hidden)
  BY <1>5 DEF IInv, StoreOK
<1>9. /\ DOMAIN doc = DOMAIN real /\ doc = [p \in DOMAIN real |-> doc[p]]
      /\ \A p \in DOMAIN real : doc[p] = IF p = q THEN new ELSE real[p]
  BY <1>5
<1>10. Covered(doc, row[r], Hidden)
  BY <1>2, <1>8, <1>9 DEF Covered, Document
<1>11. StoreOK'
  <2>1. /\ world = [s \in DOMAIN world |-> world[s]] /\ DOMAIN row = DOMAIN world
        /\ \A s \in DOMAIN world : Covered(world[s], row[s], Hidden) /\ Hashed(row[s], Hidden)
    BY DEF IInv, StoreOK
  <2>2. /\ DOMAIN world' = DOMAIN world /\ world' = [s \in DOMAIN world' |-> world'[s]]
        /\ \A s \in DOMAIN world : world'[s] = IF s = r THEN doc ELSE world[s]
    BY <1>6, <2>1
  <2>3. \A s \in DOMAIN world : Covered(world'[s], row[s], Hidden)
    BY <1>10, <2>1, <2>2
  <2> QED
    BY <1>7, <2>1, <2>2, <2>3 DEF StoreOK
<1>12. Types' /\ ReadsRequested' /\ AnswersCached' /\ SetOnceStored' /\ Informed'
  <2>1. wanted' = wanted /\ Updates' = Updates /\ Messages' = Messages
    BY <1>7 DEF Updates, Messages, URIs
  <2>2. Types'
    BY <1>7, <2>1 DEF IInv, Types
  <2>3. ReadsRequested' /\ SetOnceStored' /\ Informed'
    BY <1>7, <2>1 DEF IInv, ReadsRequested, Request, Resource, SetOnceStored, Informed
  <2>4. AnswersCached'
    BY <1>7 DEF IInv, AnswersCached, Cached, OneAnswerPerProperty
  <2> QED
    BY <2>2, <2>3, <2>4
<1> QED
  BY <1>11, <1>12 DEF IInv

-----------------------------------------------------------------------------
(* The beginning, and the specification *)

\* What is there already.
LEMMA ExistingOK ==
    ASSUME NEW r \in DOMAIN Existing, NEW res, res = Existing[r],
           NEW ro, ro = res.ReadOnlyProperties,
           NEW w, w = ConvertToPluginFormat(res.Properties),
           NEW real, real = [p \in DOMAIN w \cup DOMAIN ro |->
                                IF p \in DOMAIN w THEN w[p] ELSE ro[p]],
           NEW stored, stored = ApplyToResource(res)
    PROVE  Covered(real, stored, Secrets) /\ Hashed(stored, Secrets)
<1>1. PICK doc : doc = res.Properties
  OBVIOUS
<1>2. /\ res = [Properties |-> doc, ReadOnlyProperties |-> ro]
      /\ Document(doc) /\ Guards(doc, Secrets)
      /\ Document(ro) /\ \A p \in DOMAIN ro : ~Spells(ro[p], Secrets)
  BY <1>1, DocumentsAssumption DEF DocumentsAssumption, Guarded, Guards
<1>3. HashesOf(stored, doc)
  <2>1. HashesOf(ApplyToResource([Properties |-> doc, ReadOnlyProperties |-> ro]), doc)
    BY <1>2, StoredOK, Zenon
  <2> QED
    BY <1>2, <2>1
<1>4. Hashed(stored, Secrets)
  BY <1>2, <1>3, HashedOK
<1>5. ValuesOf(w, doc)
  BY <1>1, <1>2, WireOK, Zenon
<1>6. /\ DOMAIN real = DOMAIN w \cup DOMAIN ro /\ real = [p \in DOMAIN real |-> real[p]]
      /\ \A p \in DOMAIN real : real[p] = IF p \in DOMAIN w THEN w[p] ELSE ro[p]
  OBVIOUS
<1>7. Document(real)
  BY <1>2, <1>5, <1>6 DEF ValuesOf, Document
<1>8. ASSUME NEW p \in DOMAIN real, Spells(real[p], Secrets)
      PROVE  p \in DOMAIN stored.Properties /\ stored.Properties[p].vis = "Opaque"
  <2>1. p \in DOMAIN w
    BY <1>2, <1>6, <1>8
  <2>2. p \in DOMAIN doc /\ real[p].val = doc[p].val
    BY <1>5, <1>6, <2>1 DEF ValuesOf
  <2>3. Spells(doc[p], Secrets)
    BY <1>8, <2>2 DEF Spells
  <2> QED
    BY <1>2, <1>3, <2>2, <2>3 DEF HashesOf, Guards
<1>9. Covered(real, stored, Secrets)
  BY <1>7, <1>8 DEF Covered
<1> QED
  BY <1>4, <1>9

\* A document as it is wanted.
LEMMA WantedOK ==
    ASSUME NEW S, NEW doc, Document(doc), Guards(doc, S), NEW upd,
           upd = [state |-> "waiting", props |-> doc, asked |-> None,
                  remaining |-> ExtractResolvableURIs(doc)]
    PROVE  Fits(upd, doc) /\ Resolves(upd.props, doc, S) /\ Told(upd, doc)
<1>1. PICK uris, none : uris = ExtractResolvableURIs(doc) /\ none = None
  OBVIOUS
<1>2. upd = [state |-> "waiting", props |-> doc, asked |-> none, remaining |-> uris]
  BY <1>1
<1>3. upd.state = "waiting" /\ upd.props = doc /\ upd.asked = none /\ upd.remaining = uris
  BY <1>2
<1>4. Fits(upd, doc)
  BY <1>1, <1>2, <1>3 DEF Fits
<1>5. Resolves(upd.props, doc, S)
  BY <1>3 DEF Resolves
<1>6. Told(upd, doc)
  BY <1>1, <1>3 DEF Told, ExtractResolvableURIs
<1> QED
  BY <1>4, <1>5, <1>6

\* The invariant holds when the executor has spawned its updaters.
LEMMA InitIInv == Init => IInv
<1> SUFFICES ASSUME Init PROVE IInv
  OBVIOUS
<1>1. ASSUME NEW u \in Updates
      PROVE  /\ Fits(updater[u], wanted[u]) /\ Resolves(updater[u].props, wanted[u], Hidden)
             /\ Told(updater[u], wanted[u])
  <2>1. PICK doc : doc = wanted[u]
    OBVIOUS
  <2>2. Document(doc) /\ Guards(doc, Hidden)
    <3>1. Document(doc) /\ Guarded(doc)
      BY <2>1, DocumentsAssumption DEF DocumentsAssumption, Init, Updates
    <3>2. Hidden \subseteq Secrets
      BY HiddenOK
    <3>3. \A p \in DOMAIN doc : Spells(doc[p], Hidden) => Spells(doc[p], Secrets)
      BY <3>2 DEF Spells
    <3> QED
      BY <3>1, <3>3 DEF Guarded, Guards
  <2>3. PICK upd : upd = updater[u]
    OBVIOUS
  <2>4. upd = [state |-> "waiting", props |-> doc, asked |-> None,
               remaining |-> ExtractResolvableURIs(doc)]
    BY <2>1, <2>3 DEF Init
  <2> QED
    BY <2>1, <2>2, <2>3, <2>4, WantedOK
<1>2. DOMAIN cache = {} /\ cache = [r \in DOMAIN cache |-> cache[r]]
  BY DEF Init, Empty
<1>3. Types
  <2>1. /\ updater = [u \in Updates |-> updater[u]] /\ inbox = [u \in Updates |-> inbox[u]]
        /\ \A u \in Updates : inbox[u] = None
    BY DEF Init
  <2>2. << >> \in Seq(Messages)
    OBVIOUS
  <2> QED
    BY <1>1, <1>2, <2>1, <2>2, ResolveAssumption DEF ResolveAssumption, Init, Types, AnswerOK
<1>4. ASSUME NEW r \in DOMAIN Existing
      PROVE  Covered(world[r], row[r], Hidden) /\ Hashed(row[r], Hidden)
  <2>1. PICK res, ro : res = Existing[r] /\ ro = res.ReadOnlyProperties
    OBVIOUS
  <2>2. PICK w : w = ConvertToPluginFormat(res.Properties)
    OBVIOUS
  <2>3. PICK real, stored :
          /\ real = [p \in DOMAIN w \cup DOMAIN ro |-> IF p \in DOMAIN w THEN w[p] ELSE ro[p]]
          /\ stored = ApplyToResource(res)
    OBVIOUS
  <2>4. world[r] = real /\ row[r] = stored
    BY <2>1, <2>2, <2>3 DEF Init
  <2>5. Covered(real, stored, Secrets) /\ Hashed(stored, Secrets)
    BY <2>1, <2>2, <2>3, ExistingOK
  <2> QED
    BY <2>4, <2>5, HiddenOK DEF Covered, Hashed, Spells
<1>5. /\ DOMAIN world = DOMAIN Existing /\ DOMAIN row = DOMAIN Existing
      /\ world = [r \in DOMAIN world |-> world[r]]
  BY DEF Init
<1>6. StoreOK
  BY <1>4, <1>5 DEF StoreOK
<1>7. ReadsRequested /\ AnswersCached
  BY DEF Init, ReadsRequested, AnswersCached, OneAnswerPerProperty
<1>8. SetOnceStored
  BY <1>5, ResolveAssumption DEF ResolveAssumption, Init, SetOnceStored, Updates
<1>9. Informed
  BY <1>1 DEF Informed
<1> QED
  BY <1>3, <1>6, <1>7, <1>8, <1>9 DEF IInv

\* Every step of updaters, cache and plugins keeps the invariant.
LEMMA StepIInv == IInv /\ [Next]_vars => IInv'
<1> SUFFICES ASSUME IInv, [Next]_vars PROVE IInv'
  OBVIOUS
<1>1. CASE \E u \in Updates : UpdaterNext(u)
  BY <1>1, StartStep, AnswerStep, FailStep, CreateStep DEF UpdaterNext
<1>2. CASE CacheNext
  BY <1>2, CacheStep
<1>3. CASE OutsideChange
  BY <1>3, ChangeStep
<1>4. CASE UNCHANGED vars
  <2>1. /\ UNCHANGED <<sendErrors, wanted, updater, inbox, mailbox, phase, cache, life, row, world>>
        /\ UNCHANGED <<faults, changes, answers>>
    BY <1>4 DEF vars, cacheVars
  <2>2. wanted' = wanted
    BY <2>1
  <2>3. Hidden' = Hidden /\ Updates' = Updates /\ Messages' = Messages
    BY <2>2, HiddenOK DEF Updates, Messages, URIs
  <2>4. Types' /\ ReadsRequested'
    BY <2>1, <2>3 DEF IInv, Types, ReadsRequested, Request, Resource
  <2>5. StoreOK' /\ AnswersCached' /\ SetOnceStored' /\ Informed'
    BY <2>1, <2>3 DEF IInv, StoreOK, AnswersCached, Cached, OneAnswerPerProperty, SetOnceStored,
                      Informed
  <2> QED
    BY <2>4, <2>5 DEF IInv
<1> QED
  BY <1>1, <1>2, <1>3, <1>4 DEF Next

\* The inductive invariant of the updaters and the cache: secrets are opaque on
\* every way, and the cache, the rows and the updaters agree on what was told.
THEOREM Invariance == Spec => []IInv
BY InitIInv, StepIInv, PTL DEF Spec

\* Every row holds the hash of a secret only, however the resources refer to
\* top-level properties of each other and whatever fails, times out or restarts
\* on the way; of a command that refers to a property within another nothing is
\* claimed (preserveRefMetadata, setRefValue, mergeRefsPreservingUserRefs,
\* PersistValueTransformer).
THEOREM SecretsStayHashed == Spec => []OpaqueIsInherited
<1>1. IInv => OpaqueIsInherited
  BY DEF IInv, StoreOK, Hashed, Hidden, Spells, OpaqueIsInherited
<1> QED
  BY <1>1, Invariance, PTL

\* The value objects of the formas have a value.
ValuesGiven ==
    \A f \in Formas : \A r \in DOMAIN f : \A p \in DOMAIN f[r] :
        f[r][p].kind = "value" => f[r][p].val # None

\* What the provider is asked to create refers to each property once and has a
\* value for each.
LEMMA CreatingIsSpelled ==
    ASSUME IInv, ValuesGiven, NEW u \in Updates, updater[u].state = "creating",
           RefersOnce(wanted[u])
    PROVE  Spelled(updater[u].props) /\ RefersOnce(updater[u].props)
<1>1. PICK doc, props : doc = wanted[u] /\ props = updater[u].props
  OBVIOUS
<1>2. Resolves(props, doc, Hidden)
  BY <1>1 DEF IInv, Types
<1>3. \A p \in RefPaths(doc) : props[p].val # None
  BY <1>1 DEF IInv, Informed, Told
<1>4. \A p \in DOMAIN doc : doc[p].kind = "value" => doc[p].val # None
  BY <1>1 DEF ValuesGiven, IInv, Types, Updates
<1>5. ASSUME NEW p \in DOMAIN props, props[p].kind # "plain" PROVE props[p].val # None
  <2>1. IsProperty(props[p])
    BY <1>2 DEF Resolves, Document
  <2>2. props[p].kind \in {"value", "ref"}
    BY <1>5, <2>1 DEF IsProperty
  <2> QED
    BY <1>2, <1>3, <1>4, <2>2 DEF Resolves, RefPaths
<1>6. RefersOnce(props)
  BY <1>1, <1>2, SameRefs DEF RefersOnce
<1> QED
  BY <1>1, <1>5, <1>6 DEF Spelled

\* Whatever the documents hold: two updates of a command that ask for the same
\* property get the same answer from the cache as long as it lives, although the
\* resource changes in between; after the error of a Send it is another cache,
\* of which the same is true; and a SetOnce reference that came with a value is stored
\* with it (resolveValue, setRefValue).
THEOREM AnswersAgree == Spec => [](TypeOK /\ OneAnswerPerProperty /\ SetOnceIsKept)
<1>1. IInv => TypeOK
  BY DEF IInv, Types, StoreOK, AnswersCached, TypeOK, Fits, Resolves
<1>2. IInv => OneAnswerPerProperty
  BY DEF IInv, AnswersCached
<1>3. IInv => SetOnceIsKept
  BY DEF IInv, SetOnceStored, Keeps, SetOnceIsKept
<1> QED
  BY <1>1, <1>2, <1>3, Invariance, PTL

\* References are resolved consistently, when value objects have a value: the
\* provider is given a value for every reference, two updates that a cache
\* answers in one life get the same answer for the same property, and a value
\* that was set once is stored (resolveValue, ResolvePropertyReferences,
\* setRefValue).
THEOREM ReferencesResolve == ValuesGiven => (Spec => []ResolvedConsistently)
<1> SUFFICES ASSUME ValuesGiven PROVE Spec => []ResolvedConsistently
  OBVIOUS
<1>1. ASSUME IInv PROVE ReferencesAreResolved
  <2> SUFFICES ASSUME NEW u \in Updates, updater[u].state = "creating", RefersOnce(wanted[u])
               PROVE  \A p \in DOMAIN Wire(u) : Wire(u)[p].kind = "plain"
    BY DEF ReferencesAreResolved
  <2>1. PICK props, w : props = updater[u].props /\ w = ConvertToPluginFormat(props)
    OBVIOUS
  <2>2. Document(props) /\ Spelled(props) /\ RefersOnce(props)
    BY <1>1, <2>1, CreatingIsSpelled DEF IInv, Types, Resolves
  <2>3. \A p \in DOMAIN ConvertToPluginFormat(props) :
            ConvertToPluginFormat(props)[p].kind = "plain"
    BY <2>2, WireOK
  <2> QED
    BY <2>1, <2>3 DEF Wire
<1>2. TypeOK /\ ReferencesAreResolved /\ OneAnswerPerProperty /\ SetOnceIsKept
        => ResolvedConsistently
  BY DEF ResolvedConsistently
<1> QED
  BY <1>1, <1>2, AnswersAgree, Invariance, PTL
==============================================================================
