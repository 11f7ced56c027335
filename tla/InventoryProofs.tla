--------------------------- MODULE InventoryProofs ---------------------------
(***************************************************************************)
(* The inventory, for every set of natives and formas and any number of    *)
(* changes and crashes: the datastores answer alike, a resource keeps its  *)
(* KSUID, and what is managed stays.                                       *)
(*                                                                         *)
(* Tasks are on their way while rows change beneath them, and what they    *)
(* write may be long out of date. What makes this harmless is that what is *)
(* managed and what is not never share a KSUID (Identified), so that the   *)
(* deletion with which a store begins never meets a managed resource. That *)
(* holds of overlapping commands too; that a triplet keeps one KSUID needs *)
(* commands on one stack to follow one another.                            *)
(***************************************************************************)
EXTENDS Inventory, TLAPS, NaturalsInduction, WellFoundedInduction

-----------------------------------------------------------------------------
(* The inductive invariant *)

IsResource(r) ==
    r = [uri |-> r.uri, id |-> r.id, type |-> r.type, stack |-> r.stack, label |-> r.label,
         target |-> r.target, managed |-> r.managed, rw |-> r.rw, ro |-> r.ro]
IsTask(t) ==
    t = [by |-> t.by, op |-> t.op, done |-> t.done, r |-> t.r, config |-> t.config]

\* What rows and the resources of tasks have in common.
Holds(x) ==
    /\ x.uri \in 1..issued
    /\ [id |-> x.id, type |-> x.type] \in Natives
    /\ x.managed \in BOOLEAN /\ (x.managed <=> x.stack # UnmanagedStack)

RowOK(s) ==
    /\ Holds(s)
    /\ s.version \in Nat
    /\ s.op \in {"update", "delete"}
    /\ s.data = IF s.op = "delete" THEN Empty
                ELSE [uri |-> s.uri, id |-> s.id, type |-> s.type, stack |-> s.stack,
                      label |-> s.label, target |-> s.target, managed |-> s.managed,
                      rw |-> s.data.rw, ro |-> s.data.ro]

CloudOK ==
    /\ cloud = [n \in Natives |-> [state |-> cloud[n].state, rw |-> cloud[n].rw,
                                   ro |-> cloud[n].ro, config |-> cloud[n].config]]
    /\ \A n \in Natives : cloud[n].state \in {"never", "present", "gone"}

TaskOK(t) ==
    /\ IsTask(t) /\ IsResource(t.r) /\ Holds(t.r)
    /\ t.by \in {"command", "sync", "discovery"}
    /\ t.op \in {"create", "update", "delete", "read"}
    /\ t.by = "command" => t.r.managed
    /\ t.by = "discovery" => ~t.r.managed

Types ==
    /\ issued \in 0..MaxURIs
    /\ CloudOK
    /\ \A s \in rows : RowOK(s)
    /\ \A t \in tasks : TaskOK(t)

\* The two tables hold the same rows, if versions are compared by their bytes.
SameTables == setting.bytes => pg = rows

\* Versions are times: there is a last one, and a resource has one row for each.
Versions ==
    /\ \E n \in Nat : \A s \in rows : s.version <= n
    /\ \A r, s \in rows : r.uri = s.uri /\ r.version = s.version => r = s

SameTriplet(x, y) == x.stack = y.stack /\ x.label = y.label /\ x.type = y.type
Holders == rows \cup {t.r : t \in tasks}

\* A KSUID is that of a managed resource or of one that is not, and that of one
\* triplet if it is managed, in the table and in what is on its way there; a
\* triplet has one KSUID if commands on one stack follow one another.
Agree(x, y) ==
    /\ x.uri = y.uri => x.managed = y.managed
    /\ x.managed /\ y.managed /\ x.uri = y.uri => SameTriplet(x, y)
    /\ setting.apart /\ x.managed /\ y.managed /\ SameTriplet(x, y) => x.uri = y.uri
Identified == \A x, y \in Holders : Agree(x, y)

\* Syncs read what has rows.
SyncsKnown ==
    \A t \in tasks : t.by = "sync" /\ t.r.managed => \E s \in rows : s.uri = t.r.uri

IInv == Types /\ SameTables /\ Versions /\ Identified /\ SyncsKnown

-----------------------------------------------------------------------------
(* The operators of the datastores *)

\* A set of numbers with a bound has a greatest one.
LEMMA Greatest ==
    ASSUME NEW V \in SUBSET Nat, V # {}, NEW n \in Nat, \A k \in V : k <= n
    PROVE  \E m \in V : \A k \in V : k <= m
<1> DEFINE W == {n - k : k \in V}
<1>1. W \subseteq Nat /\ W # {}
  <2>1. \A k \in V : n - k \in Nat
    OBVIOUS
  <2>2. PICK k \in V : TRUE
    OBVIOUS
  <2> QED
    BY <2>1, <2>2
<1>2. PICK x \in W : \A y \in W : ~(<<y, x>> \in OpToRel(<, Nat))
  BY <1>1, NatLessThanWellFounded, WFMin
<1>3. PICK m \in V : x = n - m
  OBVIOUS
<1>4. ASSUME NEW k \in V PROVE k <= m
  <2>1. n - k \in W /\ n - k \in Nat /\ x \in Nat
    BY <1>1
  <2>2. ~(n - k < x)
    BY <1>2, <2>1 DEF OpToRel
  <2> QED
    BY <2>1, <2>2, <1>3
<1> QED
  BY <1>4

\* The first row is one of the rows, and no row is newer.
LEMMA FirstRow ==
    ASSUME NEW S, \A s \in S : s.version \in Nat, NEW n \in Nat, \A s \in S : s.version <= n
    PROVE  /\ S = {} => First(S) = Nil
           /\ S # {} => /\ First(S).found = TRUE
                        /\ First(S).row \in S
                        /\ \A s \in S : s.version <= First(S).row.version
<1>1. ASSUME S # {}
      PROVE  \E r \in S : \A s \in S : s.version <= r.version
  <2> DEFINE V == {s.version : s \in S}
  <2>1. V \in SUBSET Nat /\ V # {} /\ \A k \in V : k <= n
    BY <1>1
  <2>2. PICK m \in V : \A k \in V : k <= m
    <3> HIDE DEF V
    <3> QED BY <2>1, Greatest
  <2> QED
    BY <2>2
<1>2. CASE S # {}
  <2> DEFINE c == CHOOSE r \in S : \A s \in S : s.version <= r.version
  <2>1. c \in S /\ \A s \in S : s.version <= c.version
    BY <1>1, <1>2
  <2>2. First(S) = Found(c)
    BY <1>2 DEF First
  <2> QED
    BY <1>2, <2>1, <2>2 DEF Found
<1> QED
  BY <1>2 DEF First

\* Both datastores are built from the operators of the tables.
LEMMA SameOperators ==
    /\ SQL!Nil = Nil /\ PG!Nil = Nil /\ SQL!NoURI = NoURI /\ PG!NoURI = NoURI
    /\ SQL!UnmanagedStack = UnmanagedStack /\ PG!UnmanagedStack = UnmanagedStack
    /\ \A x : SQL!Found(x) = Found(x) /\ PG!Found(x) = Found(x)
    /\ \A S : SQL!First(S) = First(S) /\ PG!First(S) = First(S)
    /\ \A S : SQL!Newest(S) = Newest(S) /\ PG!Newest(S) = Newest(S)
    /\ \A S : SQL!Longest(S) = Longest(S) /\ PG!Longest(S) = Longest(S)
    /\ \A S, x : SQL!Upsert(S, x) = Upsert(S, x) /\ PG!Upsert(S, x) = Upsert(S, x)
    /\ \A r, v, o : SQL!Row(r, v, o) = Row(r, v, o) /\ PG!Row(r, v, o) = Row(r, v, o)
    /\ \A r, s : SQL!ReadWriteEqual(r, s) = ReadWriteEqual(r, s)
                 /\ PG!ReadWriteEqual(r, s) = ReadWriteEqual(r, s)
    /\ \A r, s : SQL!ReadOnlyEqual(r, s) = ReadOnlyEqual(r, s)
                 /\ PG!ReadOnlyEqual(r, s) = ReadOnlyEqual(r, s)
    /\ \A S : SQL!Cardinality(S) = Cardinality(S) /\ PG!Cardinality(S) = Cardinality(S)
<1>1. /\ SQL!Nil = Nil /\ PG!Nil = Nil /\ SQL!NoURI = NoURI /\ PG!NoURI = NoURI
      /\ SQL!UnmanagedStack = UnmanagedStack /\ PG!UnmanagedStack = UnmanagedStack
      /\ SQL!Empty = Empty /\ PG!Empty = Empty
  BY Zenon DEF SQL!Nil, Nil, PG!Nil, SQL!NoURI, NoURI, PG!NoURI, SQL!UnmanagedStack,
     UnmanagedStack, PG!UnmanagedStack, SQL!Empty, Empty, PG!Empty
<1>2. \A x : SQL!Found(x) = Found(x) /\ PG!Found(x) = Found(x)
  BY Zenon DEF SQL!Found, Found, PG!Found
<1>3. \A S : SQL!First(S) = First(S) /\ PG!First(S) = First(S)
  <2> TAKE S
  <2>1. SQL!First(S) = First(S)
    BY <1>1, <1>2 DEF SQL!First, First
  <2>2. PG!First(S) = First(S)
    BY <1>1, <1>2 DEF PG!First, First
  <2> QED
    BY <2>1, <2>2
<1>4. \A S : SQL!Newest(S) = Newest(S) /\ PG!Newest(S) = Newest(S)
  BY Zenon DEF SQL!Newest, Newest, PG!Newest
<1>5. \A S, x : SQL!Upsert(S, x) = Upsert(S, x) /\ PG!Upsert(S, x) = Upsert(S, x)
  BY Zenon DEF SQL!Upsert, Upsert, PG!Upsert
<1>6. \A r, v, o : SQL!Row(r, v, o) = Row(r, v, o) /\ PG!Row(r, v, o) = Row(r, v, o)
  <2>1. SQL!Empty = Empty /\ PG!Empty = Empty
    BY <1>1
  <2>2. \A r, v, o : SQL!Row(r, v, o) = Row(r, v, o)
    BY <2>1, Zenon DEF SQL!Row, Row
  <2>3. \A r, v, o : PG!Row(r, v, o) = Row(r, v, o)
    BY <2>1, Zenon DEF PG!Row, Row
  <2> QED
    BY <2>2, <2>3
<1>7. \A r, s : SQL!ReadWriteEqual(r, s) = ReadWriteEqual(r, s)
                 /\ PG!ReadWriteEqual(r, s) = ReadWriteEqual(r, s)
  BY Zenon DEF SQL!ReadWriteEqual, ReadWriteEqual, PG!ReadWriteEqual
<1>8. \A r, s : SQL!ReadOnlyEqual(r, s) = ReadOnlyEqual(r, s)
                 /\ PG!ReadOnlyEqual(r, s) = ReadOnlyEqual(r, s)
  BY Zenon DEF SQL!ReadOnlyEqual, ReadOnlyEqual, PG!ReadOnlyEqual
<1>9. \A S : SQL!Cardinality(S) = Cardinality(S) /\ PG!Cardinality(S) = Cardinality(S)
  BY Zenon DEF SQL!Cardinality, Cardinality, PG!Cardinality
<1>10. \A S : SQL!Longest(S) = Longest(S) /\ PG!Longest(S) = Longest(S)
  <2> TAKE S
  <2>1. SQL!Longest(S) = Longest(S)
    BY <1>1, <1>2 DEF SQL!Longest, Longest
  <2>2. PG!Longest(S) = Longest(S)
    BY <1>1, <1>2 DEF PG!Longest, Longest
  <2> QED
    BY <2>1, <2>2
<1> QED
  BY <1>1, <1>2, <1>3, <1>4, <1>5, <1>6, <1>7, <1>8, <1>9, <1>10

\* What a store or a deletion makes of the table, in either datastore.
FoundFor(r) == First({s \in rows : s.id = r.id /\ s.type = r.type})
Left(r, op) ==
    IF FoundFor(r).found /\ ~FoundFor(r).row.managed /\ op # "delete"
    THEN {s \in rows : s.uri # FoundFor(r).row.uri} ELSE rows
LatestLeft(r, op) == First({s \in Left(r, op) : s.uri = r.uri})
VersionFor(r, fresh) ==
    IF /\ ReadWriteEqual(r, FoundFor(r).row.data)
       /\ ~ReadOnlyEqual(r, FoundFor(r).row.data) THEN FoundFor(r).row.version ELSE fresh
NothingNew(r, op) ==
    \/ op = "delete" /\ ~LatestLeft(r, op).found
    \/ op = "delete" /\ LatestLeft(r, op).found /\ LatestLeft(r, op).row.op = "delete"
    \/ /\ op # "delete" /\ ReadWriteEqual(r, FoundFor(r).row.data)
       /\ ReadOnlyEqual(r, FoundFor(r).row.data)
After(r, op, fresh) ==
    IF ~FoundFor(r).found THEN rows \cup {Row(r, fresh, op)}
    ELSE IF NothingNew(r, op) THEN Left(r, op)
    ELSE Upsert(Left(r, op), Row(r, VersionFor(r, fresh), op))

\* Both backends clear the unmanaged row of what becomes managed and store a
\* resource to the same table (deleteUnmanaged, storeResource).
LEMMA StoresAlike ==
    ASSUME NEW r, NEW op, NEW fresh
    PROVE  /\ SQL!DeleteUnmanaged(rows, r, op) = Left(r, op)
           /\ PG!DeleteUnmanaged(rows, r, op) = Left(r, op)
           /\ SQL!storeResource(rows, r, op, fresh).rows = After(r, op, fresh)
           /\ PG!storeResource(rows, r, op, fresh).rows = After(r, op, fresh)
<1>1. SQL!Existing(rows, r) = FoundFor(r) /\ PG!Existing(rows, r) = FoundFor(r)
  BY SameOperators, Zenon DEF SQL!Existing, PG!Existing, FoundFor
<1>2. SQL!DeleteUnmanaged(rows, r, op) = Left(r, op) /\ PG!DeleteUnmanaged(rows, r, op) = Left(r, op)
  BY <1>1, Zenon DEF SQL!DeleteUnmanaged, PG!DeleteUnmanaged, Left
<1>3. SQL!storeResource(rows, r, op, fresh).rows = After(r, op, fresh)
  BY <1>1, <1>2, SameOperators DEF SQL!storeResource, SQL!Result, After, LatestLeft, VersionFor, NothingNew
<1>4. PG!storeResource(rows, r, op, fresh).rows = After(r, op, fresh)
  BY <1>1, <1>2, SameOperators DEF PG!storeResource, PG!Result, After, LatestLeft, VersionFor, NothingNew
<1> QED
  BY <1>2, <1>3, <1>4

\* Of the same table they answer alike, query by query.
LEMMA AnswersAlike ==
    ASSUME SameTables
    PROVE  BackendsAgree
<1> SUFFICES ASSUME setting.bytes
             PROVE  BackendsAgree
  BY DEF BackendsAgree
<1> USE SameOperators DEF SameTables
<1>1. Newest(rows) = SQL!Newest(rows) /\ Newest(rows) = PG!Newest(rows) /\ pg = rows
  OBVIOUS
<1> DEFINE live == {s \in Newest(rows) : s.op # "delete"}
<1>2. PG!Live(pg) = live /\ \A S : PG!Data(S) = {x.data : x \in S}
  BY <1>1 DEF PG!Live, PG!Data
<1>3. SQL!LoadAllResources(rows) = PG!LoadAllResources(pg)
  BY <1>1, <1>2, Zenon DEF SQL!LoadAllResources, PG!LoadAllResources
<1>4. SQL!LoadAllStacks(rows) = PG!LoadAllStacks(pg)
  BY <1>3, Zenon DEF SQL!LoadAllStacks, PG!LoadAllStacks
<1>5. ASSUME NEW u
      PROVE  /\ SQL!LoadResource(rows, u) = PG!LoadResource(pg, u)
             /\ SQL!LoadResourceById(rows, u) = PG!LoadResourceById(pg, u)
  BY <1>1, Zenon DEF SQL!LoadResource, PG!LoadResource, SQL!LoadResourceById, PG!LoadResourceById,
     SQL!Loaded, PG!Loaded
<1>6. \A U : SQL!BatchGetTripletsByKSUIDs(rows, U) = PG!BatchGetTripletsByKSUIDs(pg, U)
  BY <1>1, Zenon DEF SQL!BatchGetTripletsByKSUIDs, PG!BatchGetTripletsByKSUIDs
<1>7. ASSUME NEW i
      PROVE  SQL!LoadResourceByNativeID(rows, i) = PG!LoadResourceByNativeID(pg, i)
  <2>1. {s \in live : s.id = i} = {s \in Newest(rows) : s.op # "delete" /\ s.id = i}
    OBVIOUS
  <2> QED
    BY <1>1, <1>2, <2>1, Zenon DEF SQL!LoadResourceByNativeID, PG!LoadResourceByNativeID
<1>8. ASSUME NEW n \in Natives, ~OtherCase(n)
      PROVE  SQL!LatestLabelForResource(rows, Name(n)) = PG!LatestLabelForResource(pg, Name(n))
  <2> DEFINE b == Name(n)
             S == {s \in rows : s.label = <<b, 0>> \/ (s.label[1].name = b.name /\ s.label[2] > 0)}
             T == {s \in rows : s.label = <<b, 0>> \/ (s.label[1] = b /\ s.label[2] > 0)}
  <2>1. S = T
    <3>1. \A s \in rows : s.label[1].name = b.name <=> s.label[1] = b
      BY <1>8 DEF OtherCase
    <3> HIDE DEF b
    <3> QED BY <3>1
  <2>2. SQL!LatestLabelForResource(rows, b) = Longest({s.label : s \in S})
    BY Zenon DEF SQL!LatestLabelForResource
  <2>3. PG!LatestLabelForResource(rows, b) = Longest({s.label : s \in T})
    BY Zenon DEF PG!LatestLabelForResource
  <2> HIDE DEF S, T
  <2> QED
    BY <1>1, <2>1, <2>2, <2>3
<1>9. ASSUME NEW t
      PROVE  /\ SQL!GetKSUIDByTriplet(rows, t) = PG!GetKSUIDByTriplet(pg, t)
             /\ SQL!BatchGetKSUIDsByTriplets(rows, t) = PG!BatchGetKSUIDsByTriplets(pg, t)
  <2>1. \A s : SQL!HasTriplet(s, t) <=> PG!HasTriplet(s, t)
    BY DEF SQL!HasTriplet, PG!HasTriplet
  <2>2. /\ {s \in rows : SQL!HasTriplet(s, t)} = {s \in pg : PG!HasTriplet(s, t)}
        /\ {s \in rows : SQL!HasTriplet(s, t) /\ s.op # "delete"}
             = {s \in pg : PG!HasTriplet(s, t) /\ s.op # "delete"}
    BY <1>1, <2>1
  <2> QED
    BY <2>2, Zenon DEF SQL!GetKSUIDByTriplet, PG!GetKSUIDByTriplet, SQL!BatchGetKSUIDsByTriplets,
       PG!BatchGetKSUIDsByTriplets, PG!KSUID
<1>10. ASSUME NEW k PROVE SQL!LoadStack(rows, k) = PG!LoadStack(pg, k)
  <2>1. {s \in live : s.stack = k} = {s \in Newest(rows) : s.op # "delete" /\ s.stack = k}
    OBVIOUS
  <2> QED
    BY <1>1, <1>2, <2>1, Zenon DEF SQL!LoadStack, PG!LoadStack
<1>11. ASSUME NEW q \in Queries PROVE SQL!QueryResources(rows, q) = PG!QueryResources(pg, q)
  <2>1. \A v : \A term \in {q.stack, q.label, q.type, q.managed} :
          SQL!extendSQLiteQueryString(term, v) <=> PG!extendPostgresQueryString(term, v)
    <3>1. \A term \in {q.stack, q.label, q.type, q.managed} :
            term.constraint \in {"none", "required", "excluded"}
      BY DEF Queries, Terms, Any
    <3>2. ASSUME NEW v, NEW term, term.constraint \in {"none", "required", "excluded"}
          PROVE  SQL!extendSQLiteQueryString(term, v) <=> PG!extendPostgresQueryString(term, v)
      BY <3>2 DEF SQL!extendSQLiteQueryString, PG!extendPostgresQueryString
    <3> QED
      BY <3>1, <3>2
  <2>2. {s \in Newest(rows) :
            /\ s.op # "delete"
            /\ SQL!extendSQLiteQueryString(q.stack, s.stack)
            /\ SQL!extendSQLiteQueryString(q.label, s.label)
            /\ SQL!extendSQLiteQueryString(q.type, s.type)
            /\ SQL!extendSQLiteQueryString(q.managed, s.managed)}
        = {s \in live :
            /\ PG!extendPostgresQueryString(q.stack, s.stack)
            /\ PG!extendPostgresQueryString(q.label, s.label)
            /\ PG!extendPostgresQueryString(q.type, s.type)
            /\ PG!extendPostgresQueryString(q.managed, s.managed)}
    BY <2>1
  <2> QED
    BY <1>1, <1>2, <2>2, Zenon DEF SQL!QueryResources, PG!QueryResources
<1>12. SQL!Stats(rows, targets) = PG!Stats(pg, targets)
  <2> DEFINE managed == {s \in live : s.stack # UnmanagedStack}
  <2>1. live \ managed = {s \in live : s.stack = UnmanagedStack}
    OBVIOUS
  <2>2. SQL!Stats(rows, targets) =
          [stacks |-> Cardinality({s.stack : s \in managed}), managed |-> Cardinality(managed),
           unmanaged |-> Cardinality(live \ managed), targets |-> Cardinality(targets),
           types |-> [t \in {s.type : s \in live} |-> Cardinality({s \in live : s.type = t})]]
    BY <1>1, Zenon DEF SQL!Stats
  <2>3. PG!Stats(pg, targets) =
          [stacks |-> Cardinality({s.stack : s \in managed}), managed |-> Cardinality(managed),
           unmanaged |-> Cardinality({s \in live : s.stack = UnmanagedStack}),
           targets |-> Cardinality(targets),
           types |-> [t \in {s.type : s \in live} |-> Cardinality({s \in live : s.type = t})]]
    BY <1>2, Zenon DEF PG!Stats
  <2> QED
    BY <2>1, <2>2, <2>3, Zenon
<1> QED
  BY <1>3, <1>4, <1>5, <1>6, <1>7, <1>8, <1>9, <1>10, <1>11, <1>12, Zenon DEF BackendsAgree

-----------------------------------------------------------------------------
(* Writing to the table *)

\* A store or a deletion, as far as it went: what it removes is unmanaged, and
\* it puts one row in the place of one with the same KSUID and version.
RowStep(r) ==
    \E L \in SUBSET rows :
        /\ \A s \in rows \ L : ~s.managed
        /\ \/ rows' = L
           \/ \E v \in Nat, op \in {"update", "delete"} :
                 rows' = {s \in L : s.uri # r.uri \/ s.version # v} \cup {Row(r, v, op)}

\* The same, of After.
Step(r, op, after) ==
    \E L \in SUBSET rows :
        /\ \A s \in rows \ L : ~s.managed
        /\ \/ after = L
           \/ \E v \in Nat :
                 after = {s \in L : s.uri # r.uri \/ s.version # v} \cup {Row(r, v, op)}

\* The row storeResource finds for a resource is a row of the table.
LEMMA FoundRow ==
    ASSUME Types, Versions, NEW r
    PROVE  FoundFor(r).found => FoundFor(r).row \in rows
<1> DEFINE S == {s \in rows : s.id = r.id /\ s.type = r.type}
<1>1. /\ \A s \in S : s.version \in Nat
      /\ \E n \in Nat : \A s \in S : s.version <= n
  BY DEF Types, RowOK, Versions
<1>2. S # {} => First(S).row \in S
  <2> HIDE DEF S
  <2> QED BY <1>1, FirstRow
<1>3. S = {} => ~First(S).found
  BY DEF First, Nil
<1> QED
  BY <1>2, <1>3 DEF FoundFor

\* What a store begins by deleting is unmanaged.
LEMMA LeftKeeps ==
    ASSUME Types, Versions, Identified, NEW r, NEW op
    PROVE  Left(r, op) \subseteq rows /\ \A s \in rows \ Left(r, op) : ~s.managed
<1>1. CASE FoundFor(r).found /\ ~FoundFor(r).row.managed /\ op # "delete"
  <2>1. FoundFor(r).row \in rows
    BY <1>1, FoundRow
  <2>2. \A s \in rows : s.uri = FoundFor(r).row.uri => s.managed = FoundFor(r).row.managed
    BY <2>1 DEF Identified, Holders, Agree
  <2> QED
    BY <1>1, <2>2 DEF Left
<1> QED
  BY <1>1 DEF Left

\* What storeResource leaves differs from what it found in three ways only: it
\* clears unmanaged rows, overwrites the newest row, or adds a newer version.
LEMMA StoreStep ==
    ASSUME Types, Versions, Identified, NEW r, NEW op, NEW fresh \in Nat,
           \A s \in rows : s.version < fresh
    PROVE  Step(r, op, After(r, op, fresh))
<1> DEFINE L == Left(r, op)
<1>1. L \in SUBSET rows /\ \A s \in rows \ L : ~s.managed
  BY LeftKeeps
<1>2. CASE FoundFor(r).found /\ NothingNew(r, op)
  BY <1>1, <1>2 DEF After, Step
<1>3. CASE FoundFor(r).found /\ ~NothingNew(r, op)
  <2>1. VersionFor(r, fresh) \in Nat
    BY <1>3, FoundRow DEF VersionFor, Types, RowOK
  <2>2. After(r, op, fresh) = Upsert(L, Row(r, VersionFor(r, fresh), op))
    BY <1>3 DEF After
  <2>3. /\ Row(r, VersionFor(r, fresh), op).uri = r.uri
        /\ Row(r, VersionFor(r, fresh), op).version = VersionFor(r, fresh)
    BY DEF Row
  <2>4. PICK v \in Nat : v = VersionFor(r, fresh)
    BY <2>1
  <2>5. After(r, op, fresh) = {s \in L : s.uri # r.uri \/ s.version # v} \cup {Row(r, v, op)}
    BY <2>2, <2>3, <2>4 DEF Upsert
  <2> QED
    BY <1>1, <2>5 DEF Step
<1>4. CASE ~FoundFor(r).found
  <2>1. rows = {s \in rows : s.uri # r.uri \/ s.version # fresh}
    BY DEF Types, RowOK
  <2>2. After(r, op, fresh) = {s \in rows : s.uri # r.uri \/ s.version # fresh}
                                \cup {Row(r, fresh, op)}
    BY <1>4, <2>1 DEF After
  <2> QED
    BY <2>2 DEF Step
<1> QED
  BY <1>2, <1>3, <1>4

\* What Persist and CrashInStore do to the tables.
LEMMA PersistStep ==
    ASSUME IInv, NEW t, Persist(t)
    PROVE  /\ t \in tasks /\ t.done /\ tasks' = tasks \ {t} /\ setting' = setting
           /\ setting.bytes => pg' = rows'
           /\ RowStep(t.r)
           /\ t.op # "delete" =>
                 \/ rows' = rows
                 \/ Step(t.r, "update", rows')
<1> DEFINE fresh == NewVersion(rows)
<1> USE DEF IInv
<1>1. setting.bytes => pg = rows /\ Collated(fresh) = fresh
  BY DEF SameTables, Collated
<1>2. fresh \in Nat /\ \A s \in rows : s.version < fresh
  <2>1. /\ \A s \in rows : s.version \in Nat
        /\ \E n \in Nat : \A s \in rows : s.version <= n
    BY DEF Types, RowOK, Versions
  <2>2. CASE rows = {}
    BY <2>2 DEF NewVersion
  <2>3. CASE rows # {}
    <3>1. /\ First(rows).row \in rows
          /\ \A s \in rows : s.version <= First(rows).row.version
      BY <2>1, <2>3, FirstRow
    <3>2. fresh = First(rows).row.version + 1
      BY <2>3 DEF NewVersion
    <3> HIDE DEF fresh
    <3> QED
      BY <2>1, <3>1, <3>2
  <2> QED
    BY <2>2, <2>3
<1>3. /\ t \in tasks /\ t.done /\ tasks' = tasks \ {t} /\ setting' = setting
      /\ \/ rows' = rows /\ pg' = pg
         \/ /\ t.op = "delete"
            /\ rows' = SQL!DeleteResource(rows, t.r, fresh).rows
            /\ pg' = PG!DeleteResource(pg, t.r, Collated(fresh)).rows
         \/ /\ t.op # "delete"
            /\ rows' = SQL!StoreResource(rows, t.r, fresh).rows
            /\ pg' = PG!StoreResource(pg, t.r, Collated(fresh)).rows
  <2>1. \A c : Stores(t, c) => t.op # "delete"
    BY DEF Stores
  <2> QED
    BY <2>1 DEF Persist
<1> HIDE DEF fresh
<1>4. ASSUME NEW op \in {"update", "delete"}, rows' = After(t.r, op, fresh)
      PROVE  RowStep(t.r) /\ Step(t.r, op, rows')
  <2>1. Step(t.r, op, After(t.r, op, fresh))
    BY <1>2, StoreStep
  <2>2. Step(t.r, op, rows')
    BY <1>4, <2>1
  <2>3. PICK L \in SUBSET rows :
          /\ \A s \in rows \ L : ~s.managed
          /\ \/ rows' = L
             \/ \E v \in Nat :
                   rows' = {s \in L : s.uri # t.r.uri \/ s.version # v} \cup {Row(t.r, v, op)}
    BY <2>2 DEF Step
  <2> QED
    BY <2>2, <2>3 DEF RowStep
<1>5. CASE rows' = rows /\ pg' = pg
  BY <1>1, <1>3, <1>5 DEF RowStep
<1>6. CASE /\ t.op = "delete"
           /\ rows' = SQL!DeleteResource(rows, t.r, fresh).rows
           /\ pg' = PG!DeleteResource(pg, t.r, Collated(fresh)).rows
  BY <1>1, <1>3, <1>4, <1>6, StoresAlike DEF SQL!DeleteResource, PG!DeleteResource
<1>7. CASE /\ t.op # "delete"
           /\ rows' = SQL!StoreResource(rows, t.r, fresh).rows
           /\ pg' = PG!StoreResource(pg, t.r, Collated(fresh)).rows
  BY <1>1, <1>3, <1>4, <1>7, StoresAlike DEF SQL!StoreResource, PG!StoreResource
<1> QED
  BY <1>3, <1>5, <1>6, <1>7

\* A crash inside storeResource loses nothing but unmanaged rows.
LEMMA CrashStep ==
    ASSUME IInv, NEW t, CrashInStore(t)
    PROVE  /\ t \in tasks /\ tasks' \subseteq tasks /\ setting' = setting
           /\ setting.bytes => pg' = rows'
           /\ rows' \in SUBSET rows /\ \A s \in rows \ rows' : ~s.managed
<1>1. rows' = Left(t.r, "update") /\ (setting.bytes => pg' = rows')
  BY StoresAlike DEF CrashInStore, IInv, SameTables
<1>2. t \in tasks /\ tasks' \subseteq tasks /\ setting' = setting
  BY DEF CrashInStore
<1> QED
  BY <1>1, <1>2, LeftKeeps DEF IInv

\* The fields of a row.
LEMMA RowFields ==
    ASSUME NEW r, NEW v, NEW op
    PROVE  /\ Row(r, v, op).uri = r.uri /\ Row(r, v, op).version = v /\ Row(r, v, op).op = op
           /\ Row(r, v, op).id = r.id /\ Row(r, v, op).type = r.type
           /\ Row(r, v, op).stack = r.stack /\ Row(r, v, op).label = r.label
           /\ Row(r, v, op).target = r.target /\ Row(r, v, op).managed = r.managed
           /\ Row(r, v, op).data = IF op = "delete" THEN Empty ELSE r
BY DEF Row

\* A row that storeResource writes for a sound resource is sound.
LEMMA NewRowOK ==
    ASSUME NEW r, IsResource(r), Holds(r), NEW v \in Nat, NEW op \in {"update", "delete"}
    PROVE  RowOK(Row(r, v, op))
<1>1. Holds(Row(r, v, op))
  BY RowFields DEF Holds
<1>2. op # "delete" => r = [uri |-> r.uri, id |-> r.id, type |-> r.type, stack |-> r.stack,
         label |-> r.label, target |-> r.target, managed |-> r.managed, rw |-> r.rw, ro |-> r.ro]
  BY DEF IsResource
<1> DEFINE n == Row(r, v, op)
<1>3. /\ n.uri = r.uri /\ n.version = v /\ n.op = op /\ n.id = r.id /\ n.type = r.type
      /\ n.stack = r.stack /\ n.label = r.label /\ n.target = r.target /\ n.managed = r.managed
      /\ n.data = IF op = "delete" THEN Empty ELSE r
  BY RowFields
<1> HIDE DEF n
<1>4. n.data = IF n.op = "delete" THEN Empty
                ELSE [uri |-> n.uri, id |-> n.id, type |-> n.type, stack |-> n.stack,
                      label |-> n.label, target |-> n.target, managed |-> n.managed,
                      rw |-> n.data.rw, ro |-> n.data.ro]
  BY <1>2, <1>3
<1> QED
  BY <1>1, <1>3, <1>4 DEF RowOK, n

\* A step of the table keeps the invariant.
LEMMA RowStepKeeps ==
    ASSUME IInv, NEW t \in tasks, RowStep(t.r), setting.bytes => pg' = rows',
           tasks' \subseteq tasks, UNCHANGED <<cloud, issued, setting>>
    PROVE  IInv'
<1> DEFINE r == t.r
<1>1. IsResource(r) /\ Holds(r)
  BY DEF IInv, Types, TaskOK
<1>2. PICK L \in SUBSET rows :
        /\ \A s \in rows \ L : ~s.managed
        /\ \/ rows' = L
           \/ \E v \in Nat, op \in {"update", "delete"} :
                 rows' = {s \in L : s.uri # r.uri \/ s.version # v} \cup {Row(r, v, op)}
  BY DEF RowStep
<1>3. \A s \in rows' : \/ s \in rows
                       \/ \E v \in Nat, op \in {"update", "delete"} : s = Row(r, v, op)
  BY <1>2
<1>4. Types'
  <2>1. \A s \in rows' : RowOK(s)
    <3> HIDE DEF r
    <3> QED BY <1>1, <1>3, NewRowOK DEF IInv, Types
  <2>2. \A s \in rows' : RowOK(s)'
    BY <2>1 DEF RowOK, Holds
  <2>3. \A x \in tasks : TaskOK(x)'
    BY DEF IInv, Types, TaskOK, Holds
  <2> QED
    BY <2>2, <2>3 DEF IInv, Types, CloudOK
<1>5. Versions'
  <2>1. PICK n \in Nat : \A s \in rows : s.version <= n
    BY DEF IInv, Versions
  <2>2. \A s \in rows : s.version \in Nat
    BY DEF IInv, Types, RowOK
  <2>3. CASE rows' = L
    BY <2>3 DEF IInv, Versions
  <2>4. ASSUME NEW v \in Nat, NEW op \in {"update", "delete"},
               rows' = {s \in L : s.uri # r.uri \/ s.version # v} \cup {Row(r, v, op)}
        PROVE  Versions'
    <3>1. Row(r, v, op).uri = r.uri /\ Row(r, v, op).version = v
      BY RowFields
    <3>2. n + v \in Nat /\ \A s \in rows' : s.version <= n + v
      BY <2>1, <2>2, <2>4, <3>1
    <3>3. \A x, y \in rows' : x.uri = y.uri /\ x.version = y.version => x = y
      BY <2>4, <3>1 DEF IInv, Versions
    <3> QED
      BY <3>2, <3>3 DEF Versions
  <2> QED
    BY <1>2, <2>3, <2>4
<1>6. ASSUME NEW x \in Holders'
      PROVE  \E y \in Holders : /\ y.uri = x.uri /\ y.managed = x.managed
                                /\ SameTriplet(x, y)
  <2>1. CASE x \in Holders
    BY <2>1 DEF SameTriplet
  <2>2. CASE x \in rows'
    <3>1. r \in Holders
      BY DEF Holders
    <3>2. \A v, op : /\ Row(r, v, op).uri = r.uri /\ Row(r, v, op).managed = r.managed
                     /\ SameTriplet(Row(r, v, op), r)
      BY RowFields DEF SameTriplet
    <3> HIDE DEF r
    <3> QED
      BY <1>3, <2>1, <2>2, <3>1, <3>2 DEF Holders
  <2> QED
    BY <1>6, <2>1, <2>2 DEF Holders
<1>7. Identified'
  BY <1>6 DEF IInv, Identified, Agree, SameTriplet
<1>8. SyncsKnown'
  <2> SUFFICES ASSUME NEW x \in tasks, x.by = "sync", x.r.managed
               PROVE  \E s \in rows' : s.uri = x.r.uri
    BY DEF SyncsKnown
  <2>1. PICK s \in rows : s.uri = x.r.uri
    BY DEF IInv, SyncsKnown
  <2>2. s.managed
    BY <2>1 DEF IInv, Identified, Agree, Holders
  <2>3. s \in L
    BY <1>2, <2>2
  <2>4. \A v, op : Row(r, v, op).uri = r.uri
    BY RowFields
  <2> HIDE DEF r
  <2> QED
    BY <1>2, <2>1, <2>3, <2>4
<1> QED
  BY <1>4, <1>5, <1>7, <1>8 DEF IInv, SameTables

-----------------------------------------------------------------------------
(* The work before the table *)

\* KSUIDs are numbers.
LEMMA IssuedNat ==
    ASSUME IInv
    PROVE  issued \in Nat /\ MaxURIs \in Nat /\ issued <= MaxURIs
<1>1. MaxURIs \in Nat
  BY InventoryAssumption DEF InventoryAssumption
<1> QED
  BY <1>1 DEF IInv, Types

\* A step that leaves the table alone, and whose new tasks fit in, keeps the
\* invariant.
LEMMA TasksKeep ==
    ASSUME IInv, UNCHANGED <<rows, pg, setting>>, CloudOK', issued' \in issued..MaxURIs,
           \A t \in tasks' \ tasks :
              /\ TaskOK(t)'
              /\ \A x \in Holders \cup {y.r : y \in tasks'} : Agree(x, t.r) /\ Agree(t.r, x)
              /\ t.by = "sync" /\ t.r.managed => \E s \in rows : s.uri = t.r.uri
    PROVE  IInv'
<1>1. issued \in Nat /\ issued' \in Nat /\ issued <= issued' /\ MaxURIs \in Nat
      /\ issued' \in 0..MaxURIs
  BY IssuedNat
<1>2. \A x : Holds(x) => Holds(x)'
  BY <1>1 DEF Holds
<1>3. Types'
  BY <1>1, <1>2 DEF IInv, Types, RowOK, TaskOK
<1>4. Versions'
  BY DEF IInv, Versions
<1>5. Identified'
  <2> SUFFICES ASSUME NEW x \in Holders', NEW y \in Holders' PROVE Agree(x, y)
    BY DEF Identified, Agree, SameTriplet
  <2>1. \A z \in Holders' : \/ z \in Holders
                            \/ \E t \in tasks' \ tasks : z = t.r
    BY DEF Holders
  <2> QED
    BY <2>1 DEF IInv, Identified, Holders
<1>6. SyncsKnown'
  BY DEF IInv, SyncsKnown
<1> QED
  BY <1>3, <1>4, <1>5, <1>6 DEF IInv, SameTables

\* What has the KSUID and the triplet of something that fits in, fits in.
LEMMA LikeFits ==
    ASSUME IInv, NEW r, NEW z \in Holders, r.uri = z.uri, r.managed = z.managed,
           r.managed => SameTriplet(r, z)
    PROVE  \A x \in Holders \cup {r} : Agree(x, r) /\ Agree(r, x)
<1>1. \A x \in Holders : Agree(x, z) /\ Agree(z, x)
  BY DEF IInv, Identified
<1> QED
  BY <1>1 DEF Agree, SameTriplet

\* So does what has a new KSUID and, if it is managed, a triplet nothing has.
LEMMA NewFits ==
    ASSUME IInv, NEW r, r.uri = issued + 1, r.managed \in BOOLEAN,
           setting.apart /\ r.managed => \A x \in Holders : x.managed => ~SameTriplet(x, r)
    PROVE  \A x \in Holders \cup {r} : Agree(x, r) /\ Agree(r, x)
<1>1. \A x \in Holders : x.uri \in Nat /\ x.uri # r.uri
  <2>1. \A x \in Holders : x.uri \in 1..issued
    BY DEF IInv, Types, RowOK, TaskOK, Holds, Holders
  <2> QED
    BY <2>1, IssuedNat
<1> QED
  BY <1>1 DEF Agree, SameTriplet

\* What LoadAllResources returns is the data of a newest, undeleted row.
LEMMA InventoryHolds ==
    ASSUME IInv, NEW r \in Inventory
    PROVE  /\ IsResource(r) /\ Holds(r)
           /\ \E s \in rows : /\ s.uri = r.uri /\ s.managed = r.managed /\ SameTriplet(r, s)
                              /\ s \in Newest(rows) /\ s.op # "delete" /\ s.data = r
<1>1. PICK s \in Newest(rows) : s.op # "delete" /\ r = s.data
  BY SameOperators DEF Inventory, SQL!LoadAllResources
<1>2. s \in rows /\ RowOK(s)
  BY DEF Newest, IInv, Types
<1>3. r = [uri |-> s.uri, id |-> s.id, type |-> s.type, stack |-> s.stack,
           label |-> s.label, target |-> s.target, managed |-> s.managed,
           rw |-> s.data.rw, ro |-> s.data.ro]
  BY <1>1, <1>2 DEF RowOK
<1> DEFINE a == s.data.rw
           b == s.data.ro
<1> HIDE DEF a, b
<1>4. r = [uri |-> s.uri, id |-> s.id, type |-> s.type, stack |-> s.stack,
           label |-> s.label, target |-> s.target, managed |-> s.managed, rw |-> a, ro |-> b]
  BY <1>3 DEF a, b
<1>5. /\ r.uri = s.uri /\ r.id = s.id /\ r.type = s.type /\ r.stack = s.stack
      /\ r.label = s.label /\ r.target = s.target /\ r.managed = s.managed
      /\ r.rw = a /\ r.ro = b
  BY <1>4
<1>6. IsResource(r)
  BY <1>4, <1>5 DEF IsResource
<1>7. Holds(r)
  BY <1>2, <1>5 DEF RowOK, Holds
<1> QED
  BY <1>1, <1>2, <1>5, <1>6, <1>7 DEF SameTriplet

\* The KSUID a forma's resource is given fits what there is.
LEMMA KSUIDFits ==
    ASSUME IInv, NEW f \in Formas, Idle(f), NEW r, r.managed = TRUE, SameTriplet(r, f),
           r.uri = KSUIDFor(f)
    PROVE  /\ r.uri \in 1..(issued + 1)
           /\ \A x \in Holders \cup {r} : Agree(x, r) /\ Agree(r, x)
<1> DEFINE S == {s \in rows : SameTriplet(s, f)}
           known == SQL!BatchGetKSUIDsByTriplets(rows, f)
<1>1. known = IF First(S).found THEN First(S).row.uri ELSE NoURI
  <2>1. S = {s \in rows : SQL!HasTriplet(s, f)}
    BY DEF SQL!HasTriplet, SameTriplet
  <2> QED
    BY <2>1, SameOperators, Zenon DEF SQL!BatchGetKSUIDsByTriplets
<1>2. r.uri = IF known = NoURI THEN issued + 1 ELSE known
  BY DEF KSUIDFor
<1>3. issued \in Nat
  BY IssuedNat
<1> HIDE DEF known
<1>4. CASE S # {}
  <2>1. First(S).found = TRUE /\ First(S).row \in S
    <3>1. /\ \A s \in S : s.version \in Nat
          /\ \E n \in Nat : \A s \in S : s.version <= n
      BY DEF IInv, Types, RowOK, Versions
    <3> HIDE DEF S
    <3> QED BY <1>4, <3>1, FirstRow
  <2> DEFINE s == First(S).row
  <2>2. s \in rows /\ SameTriplet(s, f) /\ RowOK(s)
    BY <2>1 DEF IInv, Types
  <2> HIDE DEF s
  <2>3. s.uri \in 1..issued
    BY <2>2 DEF RowOK, Holds
  <2>4. r.uri = s.uri
    BY <1>1, <1>2, <2>1, <2>3, <1>3 DEF NoURI, s
  <2>5. s.managed = TRUE
    BY <2>2, InventoryAssumption DEF InventoryAssumption, RowOK, Holds, SameTriplet
  <2>6. SameTriplet(r, s) /\ s \in Holders
    BY <2>2 DEF SameTriplet, Holders
  <2>7. \A x \in Holders \cup {r} : Agree(x, r) /\ Agree(r, x)
    BY <2>4, <2>5, <2>6, LikeFits
  <2> QED
    BY <1>3, <2>3, <2>4, <2>7
<1>5. CASE S = {}
  <2>1. r.uri = issued + 1
    BY <1>1, <1>2, <1>5 DEF First, Nil
  <2>2. ASSUME setting.apart, NEW x \in Holders, x.managed, SameTriplet(x, r)
        PROVE  FALSE
    <3>1. SameTriplet(x, f)
      BY <2>2 DEF SameTriplet
    <3>2. x \notin rows
      BY <1>5, <3>1
    <3>3. PICK t \in tasks : x = t.r
      BY <2>2, <3>2 DEF Holders
    <3>4. TaskOK(t)
      BY DEF IInv, Types
    <3>5. t.by # "command"
      BY <2>2, <3>1, <3>3 DEF Idle, SameTriplet
    <3>6. t.by = "sync"
      BY <2>2, <3>3, <3>4, <3>5 DEF TaskOK
    <3>7. PICK s \in rows : s.uri = t.r.uri
      BY <2>2, <3>3, <3>6 DEF IInv, SyncsKnown
    <3>8. Agree(s, x) /\ Agree(x, s)
      BY <2>2 DEF IInv, Identified, Holders
    <3>9. SameTriplet(s, f)
      BY <2>2, <3>1, <3>3, <3>7, <3>8 DEF Agree, SameTriplet
    <3> QED
      BY <1>5, <3>9
  <2>3. \A x \in Holders \cup {r} : Agree(x, r) /\ Agree(r, x)
    BY <2>1, <2>2, NewFits
  <2> QED
    BY <1>3, <2>1, <2>3
<1> QED
  BY <1>4, <1>5

\* A step that leaves the table alone and hands over one task.
LEMMA OneTaskKeeps ==
    ASSUME IInv, UNCHANGED <<rows, pg, setting>>, CloudOK', issued' \in issued..MaxURIs,
           NEW u, tasks' \subseteq tasks \cup {u}, TaskOK(u)',
           \A x \in Holders \cup {u.r} : Agree(x, u.r) /\ Agree(u.r, x),
           u.by = "sync" /\ u.r.managed => \E s \in rows : s.uri = u.r.uri
    PROVE  IInv'
<1>1. {y.r : y \in tasks'} \subseteq Holders \cup {u.r}
  BY DEF Holders
<1>2. \A t \in tasks' \ tasks : t = u
  OBVIOUS
<1> QED
  BY <1>1, <1>2, TasksKeep

\* A step that hands over nothing.
LEMMA NoTaskKeeps ==
    ASSUME IInv, UNCHANGED <<rows, pg, issued, setting>>, CloudOK', tasks' \subseteq tasks
    PROVE  IInv'
<1>1. issued' \in issued..MaxURIs
  BY IssuedNat
<1> QED
  BY <1>1, TasksKeep

\* What Resource builds.
LEMMA NewResource ==
    ASSUME NEW uri, NEW n \in Natives, NEW stack, NEW label, NEW managed \in BOOLEAN,
           NEW r, r = Resource(uri, n, stack, label, managed)
    PROVE  /\ IsResource(r) /\ Native(r) = n
           /\ r.uri = uri /\ r.stack = stack /\ r.label = label /\ r.type = n.type
           /\ r.managed = managed
<1>1. n = [id |-> n.id, type |-> n.type]
  BY InventoryAssumption DEF InventoryAssumption
<1> DEFINE rw == cloud[n].rw
           ro == cloud[n].ro
<1>2. r = [uri |-> uri, id |-> n.id, type |-> n.type, stack |-> stack, label |-> label,
           target |-> "t", managed |-> managed, rw |-> rw, ro |-> ro]
  BY DEF Resource
<1> HIDE DEF rw, ro
<1> QED
  BY <1>1, <1>2 DEF IsResource, Native

\* What Task builds.
LEMMA NewTask ==
    ASSUME NEW by, NEW op, NEW done, NEW r, NEW config, NEW u,
           u = Task(by, op, done, r, config)
    PROVE  /\ IsTask(u) /\ u.by = by /\ u.op = op /\ u.done = done
           /\ u.r = r /\ u.config = config
BY DEF Task, IsTask

\* A new KSUID is the last one issued.
LEMMA Issued ==
    ASSUME IInv, NEW uri \in 1..(issued + 1), uri <= MaxURIs, Issue(uri)
    PROVE  issued' \in issued..MaxURIs /\ uri \in 1..issued'
BY IssuedNat DEF Issue

\* A task of a command that has the KSUID of its triplet.
CommandTask(u, r) ==
    /\ IsTask(u) /\ u.r = r /\ u.by = "command"
    /\ u.op \in {"create", "update", "delete", "read"}

\* A new update of a command, with a KSUID that is its resource's or a new one,
\* keeps the invariant.
LEMMA CommandKeeps ==
    ASSUME IInv, UNCHANGED <<rows, pg, setting>>, CloudOK', NEW f \in Formas, Idle(f),
           KSUIDFor(f) <= MaxURIs, Issue(KSUIDFor(f)),
           NEW r, IsResource(r), Native(r) \in Natives, r.managed = TRUE,
           r.stack = f.stack, r.label = f.label, r.type = f.type, r.uri = KSUIDFor(f),
           NEW u, CommandTask(u, r), tasks' = tasks \cup {u}
    PROVE  IInv'
<1>1. /\ r.uri \in 1..(issued + 1)
      /\ \A x \in Holders \cup {r} : Agree(x, r) /\ Agree(r, x)
  BY KSUIDFits DEF SameTriplet
<1>2. issued' \in issued..MaxURIs /\ r.uri \in 1..issued'
  BY <1>1, Issued
<1>3. f.stack # UnmanagedStack
  BY InventoryAssumption DEF InventoryAssumption
<1>4. Holds(r)'
  BY <1>2, <1>3 DEF Holds, Native
<1>5. TaskOK(u)'
  BY <1>4 DEF TaskOK, CommandTask
<1> QED
  BY <1>1, <1>2, <1>5, OneTaskKeeps DEF CommandTask

\* Generating a create from a forma keeps the invariant.
LEMMA GenerateCreateStep ==
    ASSUME IInv, NEW f \in Formas, NEW n \in Natives, GenerateCreate(f, n)
    PROVE  IInv'
<1>1. PICK r : r = Resource(KSUIDFor(f), n, f.stack, f.label, TRUE)
  OBVIOUS
<1>2. PICK u : u = Task("command", "create", FALSE, r, f.config)
  OBVIOUS
<1>3. /\ KSUIDFor(f) <= MaxURIs /\ Idle(f) /\ Issue(KSUIDFor(f)) /\ n.type = f.type
      /\ tasks' = tasks \cup {u} /\ UNCHANGED <<cloud, rows, pg, setting>>
  BY <1>1, <1>2 DEF GenerateCreate
<1>4. /\ IsResource(r) /\ Native(r) = n /\ r.managed = TRUE
      /\ r.uri = KSUIDFor(f) /\ r.stack = f.stack /\ r.label = f.label /\ r.type = f.type
  <2>1. \A m \in BOOLEAN : r = Resource(KSUIDFor(f), n, f.stack, f.label, m) =>
          /\ IsResource(r) /\ Native(r) = n
          /\ r.uri = KSUIDFor(f) /\ r.stack = f.stack /\ r.label = f.label /\ r.type = n.type
          /\ r.managed = m
    BY NewResource
  <2> QED
    BY <1>1, <1>3, <2>1
<1>5. CommandTask(u, r)
  BY <1>2 DEF Task, IsTask, CommandTask
<1>6. CloudOK'
  BY <1>3 DEF CloudOK, IInv, Types
<1> QED
  BY <1>3, <1>4, <1>5, <1>6, CommandKeeps

\* One native resource changes and the cloud stays well typed.
LEMMA CloudChanges ==
    ASSUME CloudOK, NEW n \in Natives, NEW state \in {"never", "present", "gone"}, NEW c,
           cloud' = [cloud EXCEPT ![n] = c], NEW rw, NEW ro, NEW config,
           c = [state |-> state, rw |-> rw, ro |-> ro, config |-> config]
    PROVE  CloudOK'
<1>1. /\ DOMAIN cloud = Natives
      /\ \A m \in Natives :
            /\ cloud[m] = [state |-> cloud[m].state, rw |-> cloud[m].rw,
                          ro |-> cloud[m].ro, config |-> cloud[m].config]
            /\ cloud[m].state \in {"never", "present", "gone"}
  BY DEF CloudOK
<1>2. /\ cloud' = [m \in Natives |-> cloud'[m]]
      /\ \A m \in Natives : cloud'[m] = IF m = n THEN c ELSE cloud[m]
  BY <1>1
<1>3. \A m \in Natives :
            /\ cloud'[m] = [state |-> cloud'[m].state, rw |-> cloud'[m].rw,
                          ro |-> cloud'[m].ro, config |-> cloud'[m].config]
            /\ cloud'[m].state \in {"never", "present", "gone"}
  BY <1>1, <1>2
<1> QED
  BY <1>2, <1>3 DEF CloudOK

\* A task that goes on with another: about the same resource.
SameWork(u, t) ==
    /\ IsTask(u) /\ IsResource(u.r) /\ u.by = t.by
    /\ u.op \in {"create", "update", "delete", "read"}
    /\ u.r.uri = t.r.uri /\ Native(u.r) = Native(t.r)
    /\ u.r.stack = t.r.stack /\ u.r.managed = t.r.managed
    /\ t.r.managed => u.r.label = t.r.label

\* A task that goes on with what identifies its resource keeps the invariant.
LEMMA SameWorkKeeps ==
    ASSUME IInv, UNCHANGED <<rows, pg, issued, setting>>, CloudOK',
           NEW t \in tasks, NEW u, SameWork(u, t), tasks' \subseteq tasks \cup {u}
    PROVE  IInv'
<1>1. TaskOK(t) /\ t.r \in Holders
  BY DEF IInv, Types, Holders
<1>2. u.r.managed => SameTriplet(u.r, t.r)
  BY DEF SameWork, SameTriplet, Native
<1>3. \A x \in Holders \cup {u.r} : Agree(x, u.r) /\ Agree(u.r, x)
  BY <1>1, <1>2, LikeFits DEF SameWork
<1>4. TaskOK(u)'
  BY <1>1 DEF SameWork, TaskOK, Holds, Native
<1>5. issued' \in issued..MaxURIs
  BY IssuedNat
<1>6. u.by = "sync" /\ u.r.managed => \E s \in rows : s.uri = u.r.uri
  BY DEF SameWork, IInv, SyncsKnown
<1> QED
  BY <1>3, <1>4, <1>5, <1>6, OneTaskKeeps

\* A create carried out by its plugin keeps the invariant.
LEMMA PluginCreatesStep ==
    ASSUME IInv, NEW t \in tasks, PluginCreates(t)
    PROVE  IInv'
<1>1. TaskOK(t) /\ CloudOK
  BY DEF IInv, Types
<1>2. PICK u : u = [t EXCEPT !.done = TRUE]
  OBVIOUS
<1>3. IsTask(u) /\ u.by = t.by /\ u.op = t.op /\ u.r = t.r
  <2>1. t = [by |-> t.by, op |-> t.op, done |-> t.done, r |-> t.r, config |-> t.config]
    BY <1>1 DEF TaskOK, IsTask
  <2> QED
    BY <1>2, <2>1 DEF IsTask
<1>4. Native(t.r) \in Natives
  BY <1>1 DEF TaskOK, Holds, Native
<1>5. CloudOK'
  <2>1. PICK n \in Natives : n = Native(t.r)
    BY <1>4
  <2>2. cloud' = [cloud EXCEPT ![n] = [cloud[n] EXCEPT !.state = "present", !.config = t.config]]
    BY <2>1 DEF PluginCreates
  <2>3. cloud[n] = [state |-> cloud[n].state, rw |-> cloud[n].rw,
                    ro |-> cloud[n].ro, config |-> cloud[n].config]
    BY <1>1 DEF CloudOK
  <2>4. [cloud[n] EXCEPT !.state = "present", !.config = t.config] =
          [state |-> "present", rw |-> cloud[n].rw, ro |-> cloud[n].ro, config |-> t.config]
    <3> DEFINE c == cloud[n]
               config == t.config
    <3>1. PICK s, w, o, g : c = [state |-> s, rw |-> w, ro |-> o, config |-> g]
      BY <2>3
    <3> HIDE DEF c, config
    <3>2. [c EXCEPT !.state = "present", !.config = config] =
            [[c EXCEPT !.state = "present"] EXCEPT !.config = config]
      BY <3>1
    <3>3. [c EXCEPT !.state = "present"] = [state |-> "present", rw |-> w, ro |-> o, config |-> g]
      BY <3>1
    <3>4. [c EXCEPT !.state = "present", !.config = config] =
            [state |-> "present", rw |-> c.rw, ro |-> c.ro, config |-> config]
      <4>1. c.rw = w /\ c.ro = o
        BY <3>1
      <4>2. [[state |-> "present", rw |-> w, ro |-> o, config |-> g] EXCEPT !.config = config] =
              [state |-> "present", rw |-> w, ro |-> o, config |-> config]
        OBVIOUS
      <4> QED
        BY <3>2, <3>3, <4>1, <4>2
    <3> QED
      BY <3>4 DEF c, config
  <2> QED
    BY <1>1, <2>2, <2>4, CloudChanges
<1>6. UNCHANGED <<rows, pg, issued, setting>> /\ tasks' \subseteq tasks \cup {u}
  BY <1>2 DEF PluginCreates
<1>7. SameWork(u, t)
  BY <1>1, <1>3 DEF SameWork, TaskOK
<1> QED
  BY <1>5, <1>6, <1>7, SameWorkKeeps


\* Generating an update or the adoption of an unmanaged resource keeps the
\* invariant.
LEMMA UpdateStep ==
    ASSUME IInv, NEW f \in Formas, NEW r \in Inventory, Update(f, r)
    PROVE  IInv'
<1>1. IsResource(r) /\ Holds(r) /\ CloudOK
  BY InventoryHolds DEF IInv, Types
<1>2. PICK n \in Natives : n = Native(r)
  BY <1>1 DEF Holds, Native
<1>3. PICK uri : uri = IF r.managed THEN r.uri ELSE KSUIDFor(f)
  OBVIOUS
<1>4. PICK v : v = Resource(uri, n, f.stack, f.label, TRUE)
  OBVIOUS
<1>5. PICK w : w = [v EXCEPT !.rw = "q"]
  OBVIOUS
<1>6. PICK u : u = Task("command", "update", TRUE, w, f.config)
  OBVIOUS
<1>7. /\ r.type = f.type /\ uri <= MaxURIs /\ Idle(f) /\ Issue(uri)
      /\ r.managed => r.stack = f.stack /\ r.label = f.label
      /\ cloud' = [cloud EXCEPT ![n] = [cloud[n] EXCEPT !.rw = "q"]]
      /\ tasks' = tasks \cup {u} /\ UNCHANGED <<rows, pg, setting>>
  BY <1>2, <1>3, <1>4, <1>5, <1>6 DEF Update
<1>8. /\ IsResource(v) /\ Native(v) = n /\ v.managed = TRUE
      /\ v.uri = uri /\ v.stack = f.stack /\ v.label = f.label /\ v.type = n.type
  <2>1. \A m \in BOOLEAN : v = Resource(uri, n, f.stack, f.label, m) =>
          /\ IsResource(v) /\ Native(v) = n
          /\ v.uri = uri /\ v.stack = f.stack /\ v.label = f.label /\ v.type = n.type
          /\ v.managed = m
    BY NewResource
  <2> QED
    BY <1>4, <2>1
<1>9. /\ IsResource(w) /\ Native(w) = n /\ w.managed = TRUE
      /\ w.uri = uri /\ w.stack = f.stack /\ w.label = f.label /\ w.type = f.type
  BY <1>2, <1>5, <1>7, <1>8 DEF IsResource, Native
<1>10. CommandTask(u, w)
  BY <1>6 DEF Task, IsTask, CommandTask
<1>11. CloudOK'
  <2>1. cloud[n] = [state |-> cloud[n].state, rw |-> cloud[n].rw,
                    ro |-> cloud[n].ro, config |-> cloud[n].config]
    BY <1>1 DEF CloudOK
  <2>2. [cloud[n] EXCEPT !.rw = "q"] =
          [state |-> cloud[n].state, rw |-> "q", ro |-> cloud[n].ro, config |-> cloud[n].config]
    BY <2>1
  <2>3. cloud[n].state \in {"never", "present", "gone"}
    BY <1>1 DEF CloudOK
  <2> QED
    BY <1>1, <1>7, <2>2, <2>3, CloudChanges
<1>12. CASE ~r.managed
  BY <1>3, <1>7, <1>9, <1>10, <1>11, <1>12, CommandKeeps
<1>13. CASE r.managed
  <2>1. PICK s \in rows : s.uri = r.uri /\ s.managed = r.managed /\ SameTriplet(r, s)
    BY InventoryHolds
  <2>2. /\ w.uri = s.uri /\ s.managed = TRUE /\ SameTriplet(w, s) /\ s \in Holders
    BY <1>1, <1>3, <1>7, <1>9, <1>13, <2>1 DEF SameTriplet, Holders, Holds
  <2>3. \A x \in Holders \cup {w} : Agree(x, w) /\ Agree(w, x)
    BY <1>9, <2>2, LikeFits
  <2>4. r.uri \in 1..issued /\ uri = r.uri
    BY <1>1, <1>3, <1>13 DEF Holds
  <2>5. issued' \in issued..MaxURIs /\ uri \in 1..issued'
    BY <1>7, <2>4, IssuedNat DEF Issue
  <2>6. f.stack # UnmanagedStack
    BY InventoryAssumption DEF InventoryAssumption
  <2>7. TaskOK(u)'
    BY <1>9, <1>10, <2>5, <2>6 DEF CommandTask, TaskOK, Holds, Native
  <2> QED
    BY <1>7, <1>10, <1>11, <2>3, <2>5, <2>7, OneTaskKeeps DEF CommandTask
<1> QED
  BY <1>12, <1>13


\* Generating a delete keeps the invariant.
LEMMA DeleteStep ==
    ASSUME IInv, NEW r \in Inventory, Delete(r)
    PROVE  IInv'
<1>1. IsResource(r) /\ Holds(r) /\ CloudOK /\ r.managed
  BY InventoryHolds DEF IInv, Types, Delete
<1>2. PICK n \in Natives : n = Native(r)
  BY <1>1 DEF Holds, Native
<1>3. PICK u : u = Task("command", "delete", TRUE, r, cloud[n].config)
  OBVIOUS
<1>4. /\ cloud' = [cloud EXCEPT ![n] = [cloud[n] EXCEPT !.state = "gone"]]
      /\ tasks' = tasks \cup {u} /\ UNCHANGED <<rows, pg, issued, setting>>
  BY <1>2, <1>3 DEF Delete
<1>5. CommandTask(u, r)
  BY <1>3 DEF Task, IsTask, CommandTask
<1>6. CloudOK'
  <2>1. cloud[n] = [state |-> cloud[n].state, rw |-> cloud[n].rw,
                    ro |-> cloud[n].ro, config |-> cloud[n].config]
    BY <1>1 DEF CloudOK
  <2>2. [cloud[n] EXCEPT !.state = "gone"] =
          [state |-> "gone", rw |-> cloud[n].rw, ro |-> cloud[n].ro, config |-> cloud[n].config]
    BY <2>1
  <2> QED
    BY <1>1, <1>4, <2>2, CloudChanges
<1>7. PICK s \in rows : s.uri = r.uri /\ s.managed = r.managed /\ SameTriplet(r, s)
  BY InventoryHolds
<1>8. \A x \in Holders \cup {r} : Agree(x, r) /\ Agree(r, x)
  <2>1. s \in Holders
    BY DEF Holders
  <2> QED
    BY <1>7, <2>1, LikeFits
<1>9. TaskOK(u)'
  BY <1>1, <1>4, <1>5 DEF CommandTask, TaskOK, Holds
<1>10. issued' \in issued..MaxURIs
  BY <1>4, IssuedNat
<1> QED
  BY <1>4, <1>5, <1>6, <1>8, <1>9, <1>10, OneTaskKeeps DEF CommandTask

\* The synchronizer's reads, one for each resource of the inventory, keep the
\* invariant.
LEMMA SyncStep ==
    ASSUME IInv, Sync
    PROVE  IInv'
<1>1. UNCHANGED <<cloud, rows, pg, issued, setting>>
  BY DEF Sync
<1>2. ASSUME NEW t \in tasks' \ tasks
      PROVE  \E r \in Inventory : \E c : t = Task("sync", "read", FALSE, r, c)
  <2>1. t \in UNION {{Task("sync", "read", FALSE, r, x.config) :
                        x \in SQL!LoadTarget(targets, r.target)} : r \in Inventory}
    BY <1>2 DEF Sync
  <2>2. PICK r \in Inventory : t \in {Task("sync", "read", FALSE, r, x.config) :
                                        x \in SQL!LoadTarget(targets, r.target)}
    BY <2>1
  <2>3. PICK x : t = Task("sync", "read", FALSE, r, x.config)
    BY <2>2
  <2> QED
    BY <2>3
<1>3. ASSUME NEW t \in tasks' \ tasks
      PROVE  /\ IsTask(t) /\ t.r \in Inventory /\ t.by = "sync" /\ t.op = "read"
  BY <1>2 DEF Task, IsTask
<1>4. ASSUME NEW t \in tasks' \ tasks
      PROVE  /\ IsResource(t.r) /\ Holds(t.r)
             /\ \E s \in rows : /\ s.uri = t.r.uri /\ s.managed = t.r.managed
                                /\ SameTriplet(t.r, s)
  BY <1>3, InventoryHolds
<1>5. \A x \in Holders \cup {y.r : y \in tasks'} :
        \E z \in Holders : z.uri = x.uri /\ z.managed = x.managed /\ SameTriplet(x, z)
  BY <1>4 DEF Holders, SameTriplet
<1>6. \A x, y \in Holders \cup {z.r : z \in tasks'} : Agree(x, y)
  BY <1>5 DEF IInv, Identified, Agree, SameTriplet
<1>7. \A t \in tasks' \ tasks : TaskOK(t)'
  BY <1>1, <1>3, <1>4 DEF TaskOK, Holds
<1>8. CloudOK' /\ issued' \in issued..MaxURIs
  BY <1>1, IssuedNat DEF CloudOK, IInv, Types
<1>9. \A t \in tasks' \ tasks :
         /\ TaskOK(t)'
         /\ \A x \in Holders \cup {y.r : y \in tasks'} : Agree(x, t.r) /\ Agree(t.r, x)
         /\ t.by = "sync" /\ t.r.managed => \E s \in rows : s.uri = t.r.uri
  BY <1>4, <1>6, <1>7
<1> QED
  BY <1>1, <1>8, <1>9, TasksKeep

\* A resource that discovery lists gets a KSUID of its own; the invariant is kept.
LEMMA ListStep ==
    ASSUME IInv, NEW n \in Natives, NEW config, List(n, config)
    PROVE  IInv'
<1>1. PICK r : r = Resource(issued + 1, n, UnmanagedStack, <<Name(n), 0>>, FALSE)
  OBVIOUS
<1>2. PICK u : u = Task("discovery", "read", FALSE, r, config)
  OBVIOUS
<1>3. /\ issued < MaxURIs /\ issued' = issued + 1
      /\ tasks' = tasks \cup {u} /\ UNCHANGED <<cloud, rows, pg, setting>>
  BY <1>1, <1>2 DEF List
<1>4. /\ IsResource(r) /\ Native(r) = n /\ r.managed = FALSE
      /\ r.uri = issued + 1 /\ r.stack = UnmanagedStack
  <2>1. \A m \in BOOLEAN : r = Resource(issued + 1, n, UnmanagedStack, <<Name(n), 0>>, m) =>
          /\ IsResource(r) /\ Native(r) = n
          /\ r.uri = issued + 1 /\ r.stack = UnmanagedStack /\ r.managed = m
    BY NewResource
  <2> QED
    BY <1>1, <2>1
<1>5. IsTask(u) /\ u.r = r /\ u.by = "discovery" /\ u.op = "read"
  BY <1>2 DEF Task, IsTask
<1>6. \A x \in Holders \cup {r} : Agree(x, r) /\ Agree(r, x)
  BY <1>4, NewFits
<1>7. issued' \in issued..MaxURIs /\ r.uri \in 1..issued'
  BY <1>3, <1>4, IssuedNat
<1>8. TaskOK(u)'
  BY <1>4, <1>5, <1>7 DEF TaskOK, Holds, Native
<1>9. CloudOK'
  BY <1>3 DEF CloudOK, IInv, Types
<1> QED
  BY <1>3, <1>5, <1>6, <1>7, <1>8, <1>9, OneTaskKeeps


\* The fields of a task spelled out.
LEMMA TaskFields ==
    ASSUME NEW u, NEW y, NEW o, NEW d, NEW r, NEW c,
           u = [by |-> y, op |-> o, done |-> d, r |-> r, config |-> c]
    PROVE  /\ IsTask(u) /\ u.by = y /\ u.op = o /\ u.done = d /\ u.r = r /\ u.config = c
BY DEF IsTask

\* A task with what has been read.
WithRead(t, e, a, b, l) == [t EXCEPT !.done = e, !.r.rw = a, !.r.ro = b, !.r.label = l]

\* What a read fills in leaves the identity of a task's resource alone.
LEMMA ReadTask ==
    ASSUME NEW t, IsTask(t), IsResource(t.r), NEW a, NEW b, NEW l, NEW u, NEW e,
           u = WithRead(t, e, a, b, l)
    PROVE  /\ IsTask(u) /\ IsResource(u.r) /\ u.by = t.by /\ u.op = t.op
           /\ u.r.uri = t.r.uri /\ Native(u.r) = Native(t.r) /\ u.r.stack = t.r.stack
           /\ u.r.managed = t.r.managed /\ u.r.label = l
<1>1. PICK y, o, d, c, p :
        t = [by |-> y, op |-> o, done |-> d, r |-> p, config |-> c]
  BY DEF IsTask
<1>2. p = t.r
  BY <1>1
<1>3. PICK q : q = [p EXCEPT !.rw = a, !.ro = b, !.label = l]
  OBVIOUS
<1>4. u = [by |-> y, op |-> o, done |-> e, r |-> q, config |-> c]
  <2>1. u = [[t EXCEPT !.done = e] EXCEPT !.r = [t.r EXCEPT !.rw = a, !.ro = b, !.label = l]]
    BY DEF WithRead
  <2>2. [t EXCEPT !.done = e] = [by |-> y, op |-> o, done |-> e, r |-> p, config |-> c]
    BY <1>1
  <2>3. [[by |-> y, op |-> o, done |-> e, r |-> p, config |-> c] EXCEPT !.r = q]
          = [by |-> y, op |-> o, done |-> e, r |-> q, config |-> c]
    OBVIOUS
  <2>4. u = [[t EXCEPT !.done = e] EXCEPT !.r = q]
    BY <1>2, <1>3, <2>1, Zenon
  <2> QED
    BY <2>2, <2>3, <2>4
<1>5. /\ IsResource(q) /\ q.uri = p.uri /\ q.id = p.id /\ q.type = p.type /\ q.stack = p.stack
      /\ q.managed = p.managed /\ q.label = l
  <2>1. IsResource(p)
    BY <1>2
  <2> QED
    BY <1>3, <2>1 DEF IsResource
<1>6. u.r = q /\ u.by = y /\ u.op = o /\ IsTask(u)
  BY <1>4, TaskFields
<1>7. t.by = y /\ t.op = o
  BY <1>1, TaskFields
<1> QED
  BY <1>2, <1>5, <1>6, <1>7 DEF Native


\* A plugin's Read, with the label a discovered resource gets from it, keeps the
\* invariant.
LEMMA ReadStep ==
    ASSUME IInv, NEW t \in tasks, Read(t)
    PROVE  IInv'
<1>1. TaskOK(t) /\ CloudOK
  BY DEF IInv, Types
<1>2. PICK u : u = ReadThrough(t)
  OBVIOUS
<1>3. /\ UNCHANGED <<cloud, rows, pg, issued, setting>> /\ tasks' \subseteq tasks \cup {u}
      /\ t.op = "read"
  BY <1>2 DEF Read
<1>4. SameWork(u, t)
  <2>1. PICK yes : yes = TRUE
    OBVIOUS
  <2>2. PICK l : l = IF t.by = "discovery" THEN LabelForUnmanagedResource(Native(t.r))
                     ELSE t.r.label
    OBVIOUS
  <2>3. PICK a, b : a = cloud[Native(t.r)].rw /\ b = cloud[Native(t.r)].ro
    OBVIOUS
  <2>4. u = WithRead(t, yes, a, b, l) \/ u = [t EXCEPT !.done = yes, !.op = "delete"]
    BY <1>2, <2>1, <2>2, <2>3, Zenon DEF ReadThrough, WithRead
  <2>5. CASE u = WithRead(t, yes, a, b, l)
    <3>1. IsTask(t) /\ IsResource(t.r)
      BY <1>1 DEF TaskOK
    <3>2. /\ IsTask(u) /\ IsResource(u.r) /\ u.by = t.by /\ u.op = t.op
          /\ u.r.uri = t.r.uri /\ Native(u.r) = Native(t.r) /\ u.r.stack = t.r.stack
          /\ u.r.managed = t.r.managed /\ u.r.label = l
      BY <2>5, <3>1, ReadTask
    <3>3. t.r.managed => l = t.r.label
      BY <1>1, <2>2 DEF TaskOK
    <3> QED
      BY <1>3, <3>2, <3>3 DEF SameWork
  <2>6. CASE u = [t EXCEPT !.done = yes, !.op = "delete"]
    <3>1. PICK y, o, d, r, c : t = [by |-> y, op |-> o, done |-> d, r |-> r, config |-> c]
      BY <1>1 DEF TaskOK, IsTask
    <3>2. u = [by |-> y, op |-> "delete", done |-> yes, r |-> r, config |-> c]
      <4>1. u = [[t EXCEPT !.done = yes] EXCEPT !.op = "delete"]
        BY <2>6
      <4>2. [t EXCEPT !.done = yes] = [by |-> y, op |-> o, done |-> yes, r |-> r, config |-> c]
        BY <3>1
      <4>3. [[by |-> y, op |-> o, done |-> yes, r |-> r, config |-> c] EXCEPT !.op = "delete"]
              = [by |-> y, op |-> "delete", done |-> yes, r |-> r, config |-> c]
        OBVIOUS
      <4> QED
        BY <4>1, <4>2, <4>3
    <3>3. /\ u.by = y /\ u.op = "delete" /\ u.done = yes /\ u.r = r /\ u.config = c
          /\ t.by = y /\ t.r = r
      BY <3>1, <3>2
    <3>4. IsTask(u)
      BY <3>2, <3>3 DEF IsTask
    <3> QED
      BY <1>1, <3>3, <3>4 DEF SameWork, TaskOK
  <2> QED
    BY <2>5, <2>6, <2>4
<1>5. CloudOK'
  BY <1>1, <1>3 DEF CloudOK
<1> QED
  BY <1>3, <1>4, <1>5, SameWorkKeeps

\* Changes of the cloud outside formae keep the invariant.
LEMMA OutsideStep ==
    ASSUME IInv, NEW n \in Natives, OutsideCreates(n) \/ OutsideChanges(n)
    PROVE  IInv'
<1>1. CloudOK
  BY DEF IInv, Types
<1>2. cloud[n] = [state |-> cloud[n].state, rw |-> cloud[n].rw,
                  ro |-> cloud[n].ro, config |-> cloud[n].config]
      /\ cloud[n].state \in {"never", "present", "gone"}
  BY <1>1 DEF CloudOK
<1>3. UNCHANGED <<rows, pg, issued, setting>> /\ tasks' \subseteq tasks
  BY DEF OutsideCreates, OutsideChanges
<1>4. \/ \E s \in {"present", "gone"} : cloud' = [cloud EXCEPT ![n] = [cloud[n] EXCEPT !.state = s]]
      \/ cloud' = [cloud EXCEPT ![n] = [cloud[n] EXCEPT !.rw = "o"]]
      \/ cloud' = [cloud EXCEPT ![n] = [cloud[n] EXCEPT !.ro = "o"]]
  BY DEF OutsideCreates, OutsideChanges
<1>5. /\ \A s : [cloud[n] EXCEPT !.state = s] =
            [state |-> s, rw |-> cloud[n].rw, ro |-> cloud[n].ro, config |-> cloud[n].config]
      /\ [cloud[n] EXCEPT !.rw = "o"] =
            [state |-> cloud[n].state, rw |-> "o", ro |-> cloud[n].ro, config |-> cloud[n].config]
      /\ [cloud[n] EXCEPT !.ro = "o"] =
            [state |-> cloud[n].state, rw |-> cloud[n].rw, ro |-> "o", config |-> cloud[n].config]
  BY <1>2
<1>6. CloudOK'
  BY <1>1, <1>2, <1>4, <1>5, CloudChanges
<1> QED
  BY <1>3, <1>6, NoTaskKeeps

\* Steps that write the tables, StoreResourceUpdate and a crash in it, keep the
\* invariant.
LEMMA TableStep ==
    ASSUME IInv, NEW t \in tasks, Persist(t) \/ CrashInStore(t)
    PROVE  IInv'
<1>1. UNCHANGED <<cloud, issued, setting>>
  BY DEF Persist, CrashInStore
<1>2. CASE Persist(t)
  BY <1>1, <1>2, PersistStep, RowStepKeeps
<1>3. CASE CrashInStore(t)
  <2>1. RowStep(t.r)
    BY <1>3, CrashStep DEF RowStep
  <2> QED
    BY <1>1, <1>3, <2>1, CrashStep, RowStepKeeps
<1> QED
  BY <1>2, <1>3

\* The invariant holds of every table and cloud an instance starts from.
LEMMA InitIInv ==
    ASSUME Init
    PROVE  IInv
<1>1. /\ setting \in Starts
      /\ cloud = [n \in Natives |-> [state |-> IF n \in setting.gone THEN "gone" ELSE "never",
                                     rw |-> "p", ro |-> "p", config |-> "c"]]
      /\ issued = setting.issued
  BY DEF Init
<1>2. rows = {} /\ pg = {} /\ tasks = {}
  BY DEF Init
<1>3. issued \in 0..MaxURIs
  BY <1>1, InventoryAssumption DEF InventoryAssumption
<1>4. CloudOK
  BY <1>1 DEF CloudOK
<1> QED
  BY <1>2, <1>3, <1>4 DEF IInv, Types, SameTables, Versions, Identified, Holders, SyncsKnown

\* Every step of agent, plugins and cloud keeps the invariant.
LEMMA StepIInv ==
    ASSUME IInv, [Next]_vars
    PROVE  IInv'
<1>1. CASE UNCHANGED vars
  BY <1>1 DEF vars, IInv, Types, CloudOK, RowOK, TaskOK, Holds, SameTables, Versions, Identified,
              Holders, Agree, SyncsKnown
<1>2. CASE Crash
  <2>1. UNCHANGED <<rows, pg, issued, cloud, setting>> /\ tasks' \subseteq tasks
    BY <1>2 DEF Crash
  <2>2. CloudOK'
    BY <2>1 DEF IInv, Types, CloudOK
  <2> QED
    BY <2>1, <2>2, NoTaskKeeps
<1>3. ASSUME NEW t \in tasks, PluginCreates(t) \/ Read(t) \/ Persist(t) \/ CrashInStore(t)
      PROVE  IInv'
  BY <1>3, PluginCreatesStep, ReadStep, TableStep
<1>4. ASSUME NEW r \in Inventory, Delete(r) \/ \E f \in Formas : Update(f, r)
      PROVE  IInv'
  BY <1>4, DeleteStep, UpdateStep
<1>5. ASSUME NEW n \in Natives,
             \/ OutsideCreates(n) \/ OutsideChanges(n)
             \/ \E f \in Formas : GenerateCreate(f, n)
             \/ \E c \in Configs : List(n, c)
      PROVE  IInv'
  BY <1>5, OutsideStep, GenerateCreateStep, ListStep
<1>6. CASE Sync
  BY <1>6, SyncStep
<1> QED
  BY <1>1, <1>2, <1>3, <1>4, <1>5, <1>6 DEF Next, Work

-----------------------------------------------------------------------------
(* What a step leaves in the table *)

\* The rows of a KSUID have a newest one.
LEMMA HasNewest ==
    ASSUME NEW S, \A s \in S : s.version \in Nat, NEW n \in Nat, \A s \in S : s.version <= n,
           NEW uri, \E s \in S : s.uri = uri
    PROVE  \E m \in Newest(S) : /\ m.uri = uri
                                /\ \A s \in S : s.uri = uri => s.version <= m.version
<1> DEFINE U == {s \in S : s.uri = uri}
           m == First(U).row
<1>1. m \in U /\ \A s \in U : s.version <= m.version
  <2>1. U # {} /\ \A s \in U : s.version \in Nat /\ s.version <= n
    OBVIOUS
  <2> HIDE DEF U
  <2> QED BY <2>1, FirstRow
<1>2. \A s \in U : s.version \in Nat
  OBVIOUS
<1>3. m \in Newest(S)
  <2> SUFFICES ASSUME NEW s \in S, s.uri = m.uri, s.version > m.version PROVE FALSE
    BY <1>1 DEF Newest
  <2>1. s \in U
    BY <1>1
  <2> HIDE DEF U, m
  <2> QED BY <1>1, <1>2, <2>1
<1> HIDE DEF m
<1> QED
  BY <1>1, <1>3

\* A resource whose newest row, after a step of the table, is not a deletion
\* is in the inventory.
LEMMA StillThere ==
    ASSUME IInv, IInv', NEW r \in Inventory,
           NEW s \in rows', s.uri = r.uri,
           \A m \in rows' : m.uri = r.uri /\ m.op = "delete" => m.version < s.version
    PROVE  \E x \in Inventory' : x.uri = r.uri
<1>1. /\ \A x \in rows' : x.version \in Nat /\ RowOK(x)'
      /\ \E n \in Nat : \A x \in rows' : x.version <= n
  BY DEF IInv, Types, RowOK, Versions
<1>2. PICK m \in Newest(rows') : /\ m.uri = r.uri
                                 /\ \A x \in rows' : x.uri = r.uri => x.version <= m.version
  BY <1>1, HasNewest
<1>3. m \in rows' /\ RowOK(m)'
  BY <1>1 DEF Newest
<1>4. m.op # "delete"
  BY <1>1, <1>2, <1>3
<1>5. m.data \in Inventory'
  <2>1. m \in Newest(rows)' /\ Newest(rows)' = Newest(rows')
    BY <1>2 DEF Newest
  <2>2. SQL!Newest(rows)' = Newest(rows)'
    BY DEF SQL!Newest, Newest
  <2> QED
    BY <1>4, <2>1, <2>2 DEF Inventory, SQL!LoadAllResources
<1>6. m.data.uri = m.uri
  <2>1. PICK a, b :
          m.data = [uri |-> m.uri, id |-> m.id, type |-> m.type, stack |-> m.stack,
                    label |-> m.label, target |-> m.target, managed |-> m.managed,
                    rw |-> a, ro |-> b]
    BY <1>3, <1>4 DEF RowOK
  <2> QED
    BY <2>1
<1> QED
  BY <1>2, <1>5, <1>6

\* What is managed leaves the inventory by a deletion of its own.
LEMMA ManagedStaysStep ==
    ASSUME IInv, IInv', [Next]_vars
    PROVE  ManagedStays
<1> SUFFICES ASSUME NEW r \in Inventory, r.managed
             PROVE  \/ \E s \in Inventory' : s.uri = r.uri
                    \/ \E t \in tasks \ tasks' : t.op = "delete" /\ t.r.uri = r.uri
  BY DEF ManagedStays
<1>1. PICK s \in rows : /\ s.uri = r.uri /\ s.managed /\ s \in Newest(rows)
                        /\ s.op # "delete"
  BY InventoryHolds
<1>2. \A x \in rows : x.uri = r.uri =>
         /\ x.managed /\ x.version \in Nat /\ x.version <= s.version
         /\ x.op = "delete" => x.version < s.version
  <2> SUFFICES ASSUME NEW x \in rows, x.uri = r.uri
               PROVE  /\ x.managed /\ x.version \in Nat /\ x.version <= s.version
                      /\ x.op = "delete" => x.version < s.version
    OBVIOUS
  <2>1. x.version \in Nat /\ s.version \in Nat
    BY DEF IInv, Types, RowOK
  <2>2. ~(x.version > s.version)
    BY <1>1 DEF Newest
  <2>3. x.version = s.version => x = s
    BY <1>1 DEF IInv, Versions
  <2>4. x.managed
    BY <1>1 DEF IInv, Identified, Holders, Agree
  <2> QED
    BY <1>1, <2>1, <2>2, <2>3, <2>4
<1>3. CASE UNCHANGED rows
  BY <1>1, <1>2, <1>3, StillThere
<1>4. ASSUME NEW t \in tasks, CrashInStore(t)
      PROVE  \E x \in Inventory' : x.uri = r.uri
  <2>1. rows' \in SUBSET rows /\ \A x \in rows \ rows' : ~x.managed
    BY <1>4, CrashStep
  <2> QED
    BY <1>1, <1>2, <2>1, StillThere
<1>5. ASSUME NEW t \in tasks, Persist(t)
      PROVE  \/ \E x \in Inventory' : x.uri = r.uri
             \/ \E y \in tasks \ tasks' : y.op = "delete" /\ y.r.uri = r.uri
  <2>1. /\ t \in tasks \ tasks' /\ RowStep(t.r)
        /\ t.op # "delete" => rows' = rows \/ Step(t.r, "update", rows')
    BY <1>5, PersistStep
  <2>2. CASE t.op = "delete" /\ t.r.uri = r.uri
    BY <2>1, <2>2
  <2>3. CASE t.r.uri # r.uri
    <3>1. PICK L \in SUBSET rows :
            /\ \A x \in rows \ L : ~x.managed
            /\ \/ rows' = L
               \/ \E v \in Nat, op \in {"update", "delete"} :
                     rows' = {x \in L : x.uri # t.r.uri \/ x.version # v} \cup {Row(t.r, v, op)}
      BY <2>1 DEF RowStep
    <3>2. s \in L
      BY <1>1, <3>1
    <3>3. \A v, op : Row(t.r, v, op).uri = t.r.uri
      BY RowFields
    <3>4. s \in rows' /\ \A x \in rows' : x.uri = r.uri => x \in rows
      BY <1>1, <2>3, <3>1, <3>2, <3>3
    <3> QED
      BY <1>1, <1>2, <3>4, StillThere
  <2>4. CASE t.op # "delete" /\ t.r.uri = r.uri
    <3>1. CASE rows' = rows
      BY <1>3, <3>1
    <3>2. CASE Step(t.r, "update", rows')
      <4>1. PICK L \in SUBSET rows :
              /\ \A x \in rows \ L : ~x.managed
              /\ \/ rows' = L
                 \/ \E v \in Nat :
                       rows' = {x \in L : x.uri # t.r.uri \/ x.version # v}
                                 \cup {Row(t.r, v, "update")}
        BY <3>2 DEF Step
      <4>2. s \in L
        BY <1>1, <4>1
      <4>3. CASE rows' = L
        BY <1>1, <1>2, <4>2, <4>3, StillThere
      <4>4. ASSUME NEW v \in Nat,
                   rows' = {x \in L : x.uri # t.r.uri \/ x.version # v}
                             \cup {Row(t.r, v, "update")}
            PROVE  \E x \in Inventory' : x.uri = r.uri
        <5>1. /\ Row(t.r, v, "update").uri = t.r.uri /\ Row(t.r, v, "update").version = v
              /\ Row(t.r, v, "update").op = "update"
          BY RowFields
        <5>2. \A x \in rows' : x.uri = r.uri /\ x.op = "delete" => x \in rows
          BY <4>4, <5>1
        <5>3. CASE s \in rows'
          BY <1>1, <1>2, <5>2, <5>3, StillThere
        <5>4. CASE s \notin rows'
          <6>1. s.version = v
            BY <4>2, <4>4, <5>4
          <6> QED
            BY <1>2, <2>4, <4>4, <5>1, <5>2, <6>1, StillThere
        <5> QED
          BY <5>3, <5>4
      <4> QED
        BY <4>1, <4>3, <4>4
    <3> QED
      BY <2>1, <2>4, <3>1, <3>2
  <2> QED
    BY <2>2, <2>3, <2>4
<1>6. \/ UNCHANGED rows \/ \E t \in tasks : CrashInStore(t) \/ Persist(t)
  BY DEF Next, Work, vars, PluginCreates, Read, Sync, List, GenerateCreate, Update, Delete,
         OutsideCreates, OutsideChanges, Crash
<1> QED
  BY <1>3, <1>4, <1>5, <1>6

\* A version of a managed resource is only replaced by a write of its own.
LEMMA HistoryKeptStep ==
    ASSUME IInv, [Next]_vars
    PROVE  HistoryKept
<1> SUFFICES ASSUME NEW r \in rows, r.managed
             PROVE  \E s \in rows' : s.uri = r.uri /\ s.version = r.version
  BY DEF HistoryKept
<1>1. CASE UNCHANGED rows
  BY <1>1
<1>2. ASSUME NEW t \in tasks, CrashInStore(t)
      PROVE  \E s \in rows' : s.uri = r.uri /\ s.version = r.version
  BY <1>2, CrashStep
<1>3. ASSUME NEW t \in tasks, Persist(t)
      PROVE  \E s \in rows' : s.uri = r.uri /\ s.version = r.version
  <2>1. PICK L \in SUBSET rows :
          /\ \A s \in rows \ L : ~s.managed
          /\ \/ rows' = L
             \/ \E v \in Nat, op \in {"update", "delete"} :
                   rows' = {s \in L : s.uri # t.r.uri \/ s.version # v} \cup {Row(t.r, v, op)}
    BY <1>3, PersistStep DEF RowStep
  <2>2. \A v, op : Row(t.r, v, op).uri = t.r.uri /\ Row(t.r, v, op).version = v
    BY RowFields
  <2>3. r \in L
    BY <2>1
  <2> QED
    BY <2>1, <2>2, <2>3
<1>4. \/ UNCHANGED rows \/ \E t \in tasks : CrashInStore(t) \/ Persist(t)
  BY DEF Next, Work, vars, PluginCreates, Read, Sync, List, GenerateCreate, Update, Delete,
         OutsideCreates, OutsideChanges, Crash
<1> QED
  BY <1>1, <1>2, <1>3, <1>4

-----------------------------------------------------------------------------
(* The theorems *)

\* IInv is kept by every step of commands, syncs, discoveries, crashes and
\* changes outside of formae.
THEOREM Invariance == Spec => []IInv
BY InitIInv, StepIInv, PTL DEF Spec

\* The two datastores, which are written separately (sqlite.go, postgres.go),
\* answer every question alike after every sequence of stores, deletions and
\* crashes in between, where the collation of Postgres orders versions by their
\* bytes (postgres.go, version TEXT); the latest label also needs that no label
\* of the name differs in case only, which SQLite's LIKE ignores.
THEOREM TheBackendsAgree == Spec => []BackendsAgree
<1>1. IInv => BackendsAgree
  BY AnswersAlike DEF IInv
<1> QED
  BY <1>1, Invariance, PTL

\* One row per version, and one KSUID per triplet of a managed resource, through
\* deletions, adoptions and new creations (storeResource, KSUID lookups), as long
\* as commands on one stack follow one another.
THEOREM TheRowsAreSound == Spec => []RowsAreSound
<1>1. ASSUME IInv PROVE TypeOK
  <2>1. \A s \in rows : s.op = "update" => s.data.uri = s.uri
    <3> SUFFICES ASSUME NEW s \in rows, s.op = "update" PROVE s.data.uri = s.uri
      OBVIOUS
    <3>1. PICK a, b :
            s.data = [uri |-> s.uri, id |-> s.id, type |-> s.type, stack |-> s.stack,
                      label |-> s.label, target |-> s.target, managed |-> s.managed,
                      rw |-> a, ro |-> b]
      BY <1>1 DEF IInv, Types, RowOK
    <3> QED
      BY <3>1
  <2> QED
    BY <1>1, <2>1 DEF IInv, Types, RowOK, TaskOK, CloudOK, Holds, Versions, TypeOK
<1>2. ASSUME IInv PROVE KeepsIdentity
  BY <1>2 DEF IInv, Identified, Holders, Agree, SameTriplet, KeepsIdentity
<1> QED
  BY <1>1, <1>2, Invariance, PTL DEF RowsAreSound

\* A managed resource leaves the inventory only when its own deletion is
\* persisted, and its versions are only replaced by later writes of the same
\* version, however late or out of date what is stored is and whether commands
\* overlap or not (storeResource, DeleteResource, deletion of the unmanaged
\* before a store).
THEOREM TheManagedStay == Spec => [][ManagedStays /\ HistoryKept]_vars
<1>1. IInv /\ IInv' /\ [Next]_vars => [ManagedStays /\ HistoryKept]_vars
  BY ManagedStaysStep, HistoryKeptStep
<1> QED
  BY <1>1, Invariance, PTL DEF Spec

================================================================================
