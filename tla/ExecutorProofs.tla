--------------------------- MODULE ExecutorProofs ---------------------------
(***************************************************************************)
(* Theorems about ChangesetExecutor, for every set of changesets, every    *)
(* rate limit and every environment.                                       *)
(*                                                                         *)
(* The argument is in two layers.  PipelineOK says when the bookkeeping of *)
(* a pipeline is consistent; lemmas about the operators of Changeset show  *)
(* that starting and finishing updates keep it so.  IInv adds what ties    *)
(* the updaters and the messages in flight to the pipeline.                *)
(***************************************************************************)
EXTENDS ChangesetExecutor, FiniteSetTheorems, WellFoundedInduction, TLAPS

-----------------------------------------------------------------------------
(***************************************************************************)
(* The pipeline.                                                           *)
(***************************************************************************)

\* The upstream list of a group holds exactly what it still waits for; what
\* left the pipeline is terminal and the reverse; what was started had all it
\* depends on succeeded; failures have reached everything downstream.
PipelineOK(o, p) ==
    /\ p \in Pipelines(o)
    /\ \A u \in p.groups : p.upstream[u] = Upstream(o, u) \cap p.groups
    /\ \A u \in o : u \in p.groups <=> p.state[u] \notin Terminal
    /\ \A u \in o : p.state[u] = "NotStarted" => u \notin p.tracked
    /\ \A u \in o : p.state[u] \in {"InProgress", "Success", "Rejected"} => u \in p.tracked
    /\ \A u \in p.tracked : \A d \in Upstream(o, u) : p.state[d] = "Success"
    /\ \A u, d \in o : p.state[u] \in {"Failed", "Rejected"} /\ u \in Upstream(o, d) =>
           p.state[d] = "Failed" /\ d \notin p.tracked

\* Links stay inside the changeset.
LEMMA UpstreamType ==
    ASSUME NEW o, NEW u PROVE Upstream(o, u) \subseteq o
BY DEF Upstream, DeleteDependencies, CreateUpdateDependencies, DeleteBeforeCreate

\* A new pipeline is consistent.
LEMMA NewPipelineOK ==
    ASSUME NEW o PROVE PipelineOK(o, NewPipeline(o))
BY UpstreamType DEF PipelineOK, NewPipeline, Pipelines, States, Terminal

\* Starting executable updates keeps a pipeline consistent (GetExecutableUpdates).
LEMMA MarkStartedOK ==
    ASSUME NEW o, NEW p, PipelineOK(o, p), NEW S \in SUBSET Executable(p)
    PROVE  PipelineOK(o, MarkStarted(p, S))
<1> DEFINE q == MarkStarted(p, S)
<1>1. /\ q.groups = p.groups
      /\ q.upstream = p.upstream
      /\ q.state = [u \in o |-> IF u \in S THEN "InProgress" ELSE p.state[u]]
      /\ q.tracked = p.tracked \cup S
      /\ q \in Pipelines(o)
  BY DEF MarkStarted, PipelineOK, Pipelines, States, Executable
<1>2. \A u \in S : /\ u \in p.groups
                   /\ u \in o
                   /\ p.state[u] = "NotStarted"
                   /\ Upstream(o, u) \cap p.groups = {}
  BY DEF Executable, PipelineOK, Pipelines
<1>3. \A u \in S : \A d \in Upstream(o, u) : p.state[d] = "Success"
  <2> SUFFICES ASSUME NEW u \in S, NEW d \in Upstream(o, u)
               PROVE  p.state[d] = "Success"
    OBVIOUS
  <2>1. d \in o /\ d \notin p.groups
    BY <1>2, UpstreamType
  <2>2. p.state[d] \in Terminal
    BY <2>1 DEF PipelineOK
  <2>3. p.state[d] \notin {"Failed", "Rejected"}
    BY <1>2, <2>1 DEF PipelineOK
  <2> QED
    BY <2>2, <2>3 DEF Terminal
<1> HIDE DEF q
<1>4. \A u \in q.groups : q.upstream[u] = Upstream(o, u) \cap q.groups
  BY <1>1 DEF PipelineOK
<1>5. \A u \in o : u \in q.groups <=> q.state[u] \notin Terminal
  BY <1>1, <1>2 DEF PipelineOK, Terminal
<1>6. \A u \in o : q.state[u] = "NotStarted" => u \notin q.tracked
  BY <1>1, <1>2 DEF PipelineOK
<1>7. \A u \in o : q.state[u] \in {"InProgress", "Success", "Rejected"} => u \in q.tracked
  BY <1>1, <1>2 DEF PipelineOK
<1>8. \A u \in q.tracked : \A d \in Upstream(o, u) : q.state[d] = "Success"
  <2> SUFFICES ASSUME NEW u \in q.tracked, NEW d \in Upstream(o, u)
               PROVE  q.state[d] = "Success"
    OBVIOUS
  <2>1. p.state[d] = "Success"
    BY <1>1, <1>3 DEF PipelineOK
  <2>2. d \in o /\ d \notin S
    BY <2>1, <1>2, UpstreamType
  <2> QED
    BY <1>1, <2>1, <2>2
<1>9. \A u, d \in o : q.state[u] \in {"Failed", "Rejected"} /\ u \in Upstream(o, d) =>
          q.state[d] = "Failed" /\ d \notin q.tracked
  BY <1>1, <1>2 DEF PipelineOK
<1> QED
  BY <1>1, <1>4, <1>5, <1>6, <1>7, <1>8, <1>9 DEF PipelineOK, q

\* The cascade of a failure: its members have not started, and it contains
\* everything not started that depends on u or on a member.
LEMMA CascadeProperties ==
    ASSUME NEW o, NEW p, NEW u, p.groups \subseteq o
    PROVE  /\ Cascade(o, p, u) \subseteq {d \in p.groups : p.state[d] = "NotStarted"}
           /\ CascadeClosed(o, p, u, Cascade(o, p, u))
<1>1. CascadeClosed(o, p, u, {d \in p.groups : p.state[d] = "NotStarted"})
  BY DEF CascadeClosed
<1>2. Cascade(o, p, u) \subseteq {d \in p.groups : p.state[d] = "NotStarted"}
  BY <1>1 DEF Cascade
<1>3. ASSUME NEW g \in Cascade(o, p, u) \cup {u}, NEW d \in Downstream(o, g),
             d \in p.groups, p.state[d] = "NotStarted",
             NEW S \in SUBSET o, CascadeClosed(o, p, u, S)
      PROVE  d \in S
  <2>1. g \in S \cup {u}
    BY <1>3 DEF Cascade
  <2> QED
    BY <1>3, <2>1 DEF CascadeClosed
<1> QED
  BY <1>2, <1>3 DEF Cascade, CascadeClosed

\* From p to q a running update u concludes with s and takes C with it: C is
\* empty on a success and closed under dependents on a failure.
Concludes(o, p, u, s, C, q) ==
    /\ u \in p.groups /\ p.state[u] = "InProgress"
    /\ s \in Terminal
    /\ C \subseteq {d \in p.groups : p.state[d] = "NotStarted"}
    /\ s = "Success" => C = {}
    /\ s # "Success" => CascadeClosed(o, p, u, C)
    /\ q \in Pipelines(o)
    /\ q.groups = p.groups \ (C \cup {u})
    /\ q.upstream = [d \in o |-> p.upstream[d] \ (C \cup {u})]
    /\ q.state = [v \in o |-> IF v \in C THEN "Failed"
                              ELSE IF v = u THEN s ELSE p.state[v]]
    /\ q.tracked = p.tracked

\* Concluding an update keeps a pipeline consistent.
LEMMA ConcludeOK ==
    ASSUME NEW o, NEW p, NEW u, NEW s, NEW C, NEW q,
           PipelineOK(o, p), Concludes(o, p, u, s, C, q)
    PROVE  PipelineOK(o, q)
<1> USE DEF Concludes
<1>1. p.groups \subseteq o /\ u \in o /\ u \notin C /\ C \subseteq o /\ u \in p.tracked
  BY DEF PipelineOK, Pipelines
<1>2. \A v \in p.tracked : v \in o /\ v \notin C
  BY DEF PipelineOK, Pipelines
<1>3. \A v \in q.groups : q.upstream[v] = Upstream(o, v) \cap q.groups
  BY <1>1 DEF PipelineOK
<1>4. \A v \in o : v \in q.groups <=> q.state[v] \notin Terminal
  BY <1>1 DEF PipelineOK, Terminal
<1>5. \A v \in o : q.state[v] = "NotStarted" => v \notin q.tracked
  BY <1>1 DEF PipelineOK, Terminal
<1>6. \A v \in o : q.state[v] \in {"InProgress", "Success", "Rejected"} => v \in q.tracked
  BY <1>1 DEF PipelineOK, Terminal
<1>7. \A v \in q.tracked : \A d \in Upstream(o, v) : q.state[d] = "Success"
  <2> SUFFICES ASSUME NEW v \in p.tracked, NEW d \in Upstream(o, v)
               PROVE  q.state[d] = "Success"
    BY DEF Concludes
  <2>1. d \in o /\ p.state[d] = "Success"
    BY UpstreamType DEF PipelineOK
  <2> QED
    BY <2>1
<1>8. ASSUME NEW v \in o, NEW d \in o, q.state[v] \in {"Failed", "Rejected"},
             v \in Upstream(o, d)
      PROVE  q.state[d] = "Failed" /\ d \notin q.tracked
  <2>1. CASE v \in C \cup {u}
    <3>1. s # "Success"
      BY <1>1, <1>8, <2>1
    <3>2. p.state[v] # "Success"
      BY <2>1
    <3>3. d \notin p.tracked
      BY <1>8, <3>2 DEF PipelineOK
    <3>4. CASE d \in p.groups
      <4>1. p.state[d] = "NotStarted"
        BY <3>3, <3>4 DEF PipelineOK, Pipelines, States, Terminal
      <4>2. d \in C
        BY <1>8, <2>1, <3>1, <3>4, <4>1 DEF CascadeClosed, Downstream
      <4> QED
        BY <3>3, <4>2
    <3>5. CASE d \notin p.groups
      <4>1. p.state[d] = "Failed"
        BY <3>3, <3>5 DEF PipelineOK, Terminal
      <4> QED
        BY <1>1, <3>3, <3>5, <4>1
    <3> QED
      BY <3>4, <3>5
  <2>2. CASE v \notin C \cup {u}
    <3>1. p.state[v] \in {"Failed", "Rejected"}
      BY <1>8, <2>2
    <3>2. p.state[d] = "Failed" /\ d \notin p.tracked
      BY <1>8, <3>1 DEF PipelineOK
    <3> QED
      BY <3>2
  <2> QED
    BY <2>1, <2>2
<1> QED
  BY <1>3, <1>4, <1>5, <1>6, <1>7, <1>8 DEF PipelineOK

\* The pipeline after the report s of u.
Reported(o, p, u, s) == UpdatePipeline(o, SetState(p, {u}, s), u)

\* The states of the updates then.
StatesAfter(o, p, u, s) ==
    [v \in o |-> IF /\ s \notin {"InProgress", "Success"}
                   /\ v \in Cascade(o, SetState(p, {u}, s), u)
                THEN "Failed"
                ELSE IF v = u THEN s ELSE p.state[v]]

\* Handling the report of a running update keeps a pipeline consistent, and
\* leaves the other running updates alone (UpdatePipeline).
LEMMA UpdatePipelineOK ==
    ASSUME NEW o, NEW p, PipelineOK(o, p),
           NEW u \in p.groups, p.state[u] = "InProgress",
           NEW s \in States \ {"NotStarted"}
    PROVE  /\ PipelineOK(o, Reported(o, p, u, s))
           /\ \A v \in p.groups : p.state[v] = "InProgress" /\ v # u =>
                  /\ v \in Reported(o, p, u, s).groups
                  /\ Reported(o, p, u, s).state[v] = "InProgress"
           /\ Reported(o, p, u, s).tracked = p.tracked
           /\ Reported(o, p, u, s).state = StatesAfter(o, p, u, s)
<1> DEFINE r == SetState(p, {u}, s)
           q == UpdatePipeline(o, r, u)
           C == IF s = "Success" THEN {} ELSE Cascade(o, r, u)
<1>1. /\ r.groups = p.groups
      /\ r.upstream = p.upstream
      /\ r.state = [v \in o |-> IF v = u THEN s ELSE p.state[v]]
      /\ r.tracked = p.tracked
      /\ r \in Pipelines(o)
      /\ u \in o
  BY DEF SetState, PipelineOK, Pipelines
<1>2. CASE s = "InProgress"
  <2>1. q = r
    BY <1>1, <1>2 DEF UpdatePipeline
  <2>2. r.state = p.state
    BY <1>1, <1>2 DEF PipelineOK, Pipelines
  <2>3. PipelineOK(o, r)
    BY <1>1, <2>2 DEF PipelineOK
  <2> HIDE DEF r, q
  <2>4. PipelineOK(o, q) /\ q.groups = p.groups /\ q.state = p.state /\ q.tracked = p.tracked
    BY <1>1, <2>1, <2>2, <2>3
  <2>5. q.state = StatesAfter(o, p, u, s)
    BY <1>1, <1>2, <2>1 DEF StatesAfter
  <2> QED
    BY <2>4, <2>5 DEF r, q, Reported
<1>3. CASE s # "InProgress"
  <2>1. s \in Terminal
    BY <1>3 DEF States, Terminal
  <2>2. s # "Success" => /\ C \subseteq {d \in r.groups : r.state[d] = "NotStarted"}
                         /\ CascadeClosed(o, r, u, C)
    <3>1. r.groups \subseteq o
      BY <1>1 DEF Pipelines
    <3>2. s # "Success" => C = Cascade(o, r, u)
      OBVIOUS
    <3> HIDE DEF r, C
    <3> QED
      BY <3>1, <3>2, CascadeProperties
  <2>3. C \in SUBSET {d \in p.groups : p.state[d] = "NotStarted"}
    <3>1. s # "NotStarted" /\ p.groups \subseteq o
      BY <2>1 DEF Terminal, PipelineOK, Pipelines
    <3>2. s = "Success" => C = {}
      OBVIOUS
    <3> HIDE DEF r, C
    <3> QED
      BY <1>1, <2>2, <3>1, <3>2
  <2>4. s # "Success" => CascadeClosed(o, p, u, C)
    BY <1>1, <2>2 DEF CascadeClosed, Downstream, PipelineOK, Pipelines
  <2>5. /\ q \in Pipelines(o)
        /\ q.groups = p.groups \ (C \cup {u})
        /\ q.upstream = [d \in o |-> p.upstream[d] \ (C \cup {u})]
        /\ q.state = [v \in o |-> IF v \in C THEN "Failed"
                                  ELSE IF v = u THEN s ELSE p.state[v]]
        /\ q.tracked = p.tracked
    <3>1. CASE s = "Success"
      <4>1. q = RemoveGroups(r, {u})
        BY <1>1, <3>1 DEF UpdatePipeline
      <4>2. C = {}
        BY <3>1
      <4> HIDE DEF r, q, C
      <4> QED
        BY <1>1, <4>1, <4>2 DEF RemoveGroups, Pipelines
    <3>2. CASE s # "Success"
      <4>1. q = RemoveGroups(SetState(r, C, "Failed"), C \cup {u})
        BY <1>1, <2>1, <3>2 DEF UpdatePipeline, Terminal
      <4> HIDE DEF C, q
      <4>2. /\ SetState(r, C, "Failed").groups = p.groups
            /\ SetState(r, C, "Failed").upstream = p.upstream
            /\ SetState(r, C, "Failed").tracked = p.tracked
            /\ SetState(r, C, "Failed").state =
                 [v \in o |-> IF v \in C THEN "Failed"
                              ELSE IF v = u THEN s ELSE p.state[v]]
            /\ SetState(r, C, "Failed") \in Pipelines(o)
        BY <1>1 DEF SetState, Pipelines, States
      <4> HIDE DEF r
      <4> QED
        BY <4>1, <4>2 DEF RemoveGroups, Pipelines
    <3> QED
      BY <3>1, <3>2
  <2> HIDE DEF r, q, C
  <2>6. PipelineOK(o, q)
    <3>1. s = "Success" => C = {}
      BY DEF C
    <3>2. Concludes(o, p, u, s, C, q)
      BY <2>1, <2>3, <2>4, <2>5, <3>1 DEF Concludes
    <3> QED
      BY <3>2, ConcludeOK
  <2>7. \A v \in p.groups : p.state[v] = "InProgress" /\ v # u =>
            v \in q.groups /\ q.state[v] = "InProgress"
    BY <2>3, <2>5 DEF PipelineOK, Pipelines
  <2>8. q.state = StatesAfter(o, p, u, s)
    <3>1. \A v \in o : v \in C <=> s \notin {"InProgress", "Success"} /\ v \in Cascade(o, r, u)
      BY <1>3 DEF C
    <3> QED
      BY <2>5, <3>1 DEF StatesAfter, r
  <2> QED
    BY <2>5, <2>6, <2>7, <2>8 DEF q, r, Reported
<1> QED
  BY <1>2, <1>3

-----------------------------------------------------------------------------
(***************************************************************************)
(* The executor.                                                           *)
(***************************************************************************)

\* Updaters run for tracked updates only, a running updater and a message in
\* flight belong to an update in progress, and an updater sends one message.
Tied(o, p, upd, box) ==
    /\ \A u \in o : upd[u] # "none" => u \in p.tracked
    /\ \A u \in o : upd[u] = "running" => p.state[u] = "InProgress"
    /\ \A m \in box : /\ m.uri = m.from.uri
                      /\ upd[m.from] = "finished"
                      /\ p.state[m.from] = "InProgress"
    /\ \A m, n \in box : m.from = n.from => m = n

IInv ==
    /\ TypeOK
    /\ ops \in {SplitReplace(c) : c \in Changesets}
    /\ PipelineOK(ops, pipeline)
    /\ Tied(ops, pipeline, updater, inbox)

\* The message of an updater is applied to the update it belongs to.
LEMMA CandidatesUnique ==
    ASSUME IInv, NEW m \in inbox
    PROVE  Candidates(m) = {m.from}
<1> DEFINE f == m.from
<1>1. f \in ops /\ m.uri = f.uri /\ pipeline.state[f] = "InProgress" /\ f \in pipeline.groups
  BY DEF IInv, TypeOK, Tied, PipelineOK, Terminal
<1>2. f \in Candidates(m)
  BY <1>1 DEF Candidates
<1>3. ASSUME NEW u \in Candidates(m), u # f PROVE FALSE
  <2>1. u \in ops /\ u.uri = f.uri /\ pipeline.state[u] = "InProgress"
    BY <1>1, <1>3 DEF Candidates, IInv, TypeOK, Pipelines
  <2>2. u.key = f.key /\ {u.op, f.op} = {"delete", "create"}
    BY <1>1, <1>3, <2>1, ChangesetsAssumption DEF IInv, WellFormed
  <2>3. u \in pipeline.tracked /\ f \in pipeline.tracked
    BY <1>1, <2>1 DEF IInv, PipelineOK
  <2>4. CASE u.op = "create" /\ f.op = "delete"
    <3>1. f \in Upstream(ops, u)
      BY <1>1, <2>2, <2>4 DEF Upstream, DeleteBeforeCreate
    <3> QED
      BY <1>1, <2>3, <3>1 DEF IInv, PipelineOK
  <2>5. CASE u.op = "delete" /\ f.op = "create"
    <3>1. u \in Upstream(ops, f)
      BY <2>1, <2>2, <2>5 DEF Upstream, DeleteBeforeCreate
    <3> QED
      BY <2>1, <2>3, <3>1 DEF IInv, PipelineOK
  <2> QED
    BY <2>2, <2>4, <2>5
<1> QED
  BY <1>2, <1>3

\* Requesting tokens leaves the buckets well-typed.
LEMMA TakeType ==
    ASSUME LimiterTypeOK, IsFiniteSet(ops), NEW p \in Pipelines(ops),
           NEW N \in SUBSET DOMAIN Requests(p), NEW S, Take(p, N, S)
    PROVE  LimiterTypeOK'
<1> DEFINE n == [ns \in N |-> Requests(p)[ns]]
<1>1. RequestTokens(n)
  BY DEF Take
<1>2. \A ns \in N : n[ns] \in Nat
  <2> SUFFICES ASSUME NEW ns \in N PROVE n[ns] \in Nat
    OBVIOUS
  <2>1. n[ns] = Cardinality(Available(p, ns))
    BY DEF Requests
  <2>2. Available(p, ns) \subseteq ops
    BY DEF Available, Executable, Pipelines
  <2>3. IsFiniteSet(Available(p, ns))
    BY <2>2, FS_Subset
  <2> QED
    BY <2>1, <2>3, FS_CardinalityType
<1>3. DOMAIN n = N
  OBVIOUS
<1> HIDE DEF n
<1>4. \A ns \in Namespaces : Replenished(ns) \in Nat
  BY CapacityAssumption DEF Replenished, LimiterTypeOK
<1>5. \A ns \in N \cap Namespaces : Replenished(ns) - Granted(ns, n[ns]) \in Nat
  BY <1>2, <1>4 DEF Granted
<1> QED
  BY <1>1, <1>3, <1>5 DEF RequestTokens, LimiterTypeOK

\* What resume does, whether it succeeds or fails: some executable updates
\* are marked, and updaters are started for all or some of them.
Resumes(p) ==
    \E S \in SUBSET Executable(p) : \E T \in SUBSET S :
        /\ pipeline' = MarkStarted(p, S)
        /\ updater' = [u \in ops |-> IF u \in T THEN "running" ELSE updater[u]]

\* ResumeWith and ResumeFails do no more than that.
LEMMA ResumeResumes ==
    ASSUME LimiterTypeOK, IsFiniteSet(ops), NEW p \in Pipelines(ops),
           NEW pending \in BOOLEAN, ResumeWith(p, pending) \/ ResumeFails(p)
    PROVE  Resumes(p) /\ LimiterTypeOK' /\ exec' \in ExecStates /\ timer' \in BOOLEAN
<1>1. CASE ResumeWith(p, pending)
  <2>1. PICK S \in SUBSET Executable(p) : Take(p, DOMAIN Requests(p), S) /\ Spawn(S)
    BY <1>1 DEF ResumeWith
  <2>2. LimiterTypeOK'
    BY <2>1, TakeType
  <2>3. Resumes(p)
    BY <2>1 DEF Resumes, Take, Spawn
  <2> QED
    BY <1>1, <2>2, <2>3 DEF ResumeWith, ExecStates, Short
<1>2. CASE ResumeFails(p)
  <2>1. PICK N \in SUBSET DOMAIN Requests(p), S \in SUBSET Executable(p) :
            Take(p, N, S) /\ \E T \in SUBSET S : Spawn(T)
    BY <1>2 DEF ResumeFails
  <2>2. LimiterTypeOK'
    BY <2>1, TakeType
  <2>3. Resumes(p)
    BY <2>1 DEF Resumes, Take, Spawn
  <2> QED
    BY <1>2, <2>2, <2>3 DEF ResumeFails, ExecStates
<1> QED
  BY <1>1, <1>2

\* A resume keeps the pipeline consistent and the updaters tied to it.
LEMMA ResumesOK ==
    ASSUME NEW p, PipelineOK(ops, p), NEW box, Tied(ops, p, updater, box),
           updater \in [ops -> {"none", "running", "finished"}],
           \A m \in box : m.from \in ops,
           Resumes(p)
    PROVE  /\ PipelineOK(ops, pipeline')
           /\ Tied(ops, pipeline', updater', box)
           /\ updater' \in [ops -> {"none", "running", "finished"}]
<1>0. PICK S \in SUBSET Executable(p) : \E T \in SUBSET S :
          /\ pipeline' = MarkStarted(p, S)
          /\ updater' = [u \in ops |-> IF u \in T THEN "running" ELSE updater[u]]
  BY DEF Resumes
<1>1. PICK T \in SUBSET S :
          /\ pipeline' = MarkStarted(p, S)
          /\ updater' = [u \in ops |-> IF u \in T THEN "running" ELSE updater[u]]
  BY <1>0
<1>2. PipelineOK(ops, pipeline')
  BY <1>1, MarkStartedOK
<1>3. /\ pipeline'.state = [u \in ops |-> IF u \in S THEN "InProgress" ELSE p.state[u]]
      /\ pipeline'.tracked = p.tracked \cup S
  BY <1>1 DEF MarkStarted, PipelineOK, Pipelines
<1>4. \A u \in S : p.state[u] = "NotStarted" /\ u \in ops
  BY DEF Executable, PipelineOK, Pipelines
<1>5. Tied(ops, pipeline', updater', box)
  BY <1>1, <1>3, <1>4 DEF Tied
<1> QED
  BY <1>1, <1>2, <1>5

\* Persisting a state leaves the rows well-typed.
LEMMA RowsType ==
    ASSUME rows \in [ops -> States], NEW u, NEW s \in States
    PROVE  UpdateFromProgress(rows, u, s) \in [ops -> States]
BY DEF UpdateFromProgress

\* Initially the invariant holds: nothing has started, every row is NotStarted.
LEMMA InitIInv == Init => IInv
<1> SUFFICES ASSUME Init PROVE IInv
  OBVIOUS
<1>1. PipelineOK(ops, pipeline)
  BY NewPipelineOK DEF Init
<1>2. LimiterTypeOK
  BY CapacityAssumption DEF Init, InitLimiter, LimiterTypeOK
<1>3. TypeOK
  BY <1>1, <1>2 DEF Init, TypeOK, PipelineOK, ExecStates, NewRows, States
<1>4. Tied(ops, pipeline, updater, inbox)
  BY DEF Init, Tied
<1> QED
  BY <1>1, <1>3, <1>4 DEF Init, IInv

\* What every resume of the executor, with pipeline p and messages box, keeps.
LEMMA ResumeKeepsIInv ==
    ASSUME IInv, ops' = ops, NEW p, PipelineOK(ops, p),
           Tied(ops, p, updater, inbox'), inbox' \subseteq inbox,
           rows' \in [ops -> States],
           NEW pending \in BOOLEAN, ResumeWith(p, pending) \/ ResumeFails(p)
    PROVE  IInv'
<1>1. IsFiniteSet(ops) /\ LimiterTypeOK /\ p \in Pipelines(ops)
  BY ChangesetsAssumption DEF IInv, TypeOK, PipelineOK
<1>2. Resumes(p) /\ LimiterTypeOK' /\ exec' \in ExecStates /\ timer' \in BOOLEAN
  BY <1>1, ResumeResumes
<1>3. \A m \in inbox' : m.from \in ops
  BY DEF IInv, TypeOK
<1>4. /\ PipelineOK(ops, pipeline')
      /\ Tied(ops, pipeline', updater', inbox')
      /\ updater' \in [ops -> {"none", "running", "finished"}]
  BY <1>2, <1>3, ResumesOK DEF IInv, TypeOK
<1>5. TypeOK'
  BY <1>2, <1>4 DEF IInv, TypeOK, PipelineOK
<1> QED
  BY <1>4, <1>5 DEF IInv

\* start keeps the invariant, whether it resumes or gives up.
LEMMA StartKeepsIInv == IInv /\ Start => IInv'
<1> SUFFICES ASSUME IInv, Start PROVE IInv'
  OBVIOUS
<1>1. CASE ResumeWith(pipeline, FALSE) \/ ResumeFails(pipeline)
  <2>1. ops' = ops /\ inbox' = inbox /\ rows' = rows
    BY DEF Start
  <2>2. PipelineOK(ops, pipeline) /\ Tied(ops, pipeline, updater, inbox')
        /\ rows' \in [ops -> States]
    BY <2>1 DEF IInv, TypeOK
  <2> QED
    BY <1>1, <2>1, <2>2, ResumeKeepsIInv
<1>2. CASE exec' = "finished_with_error" /\ UNCHANGED <<pipeline, timer, updater, limiterVars>>
  BY <1>2 DEF Start, IInv, TypeOK, ExecStates, LimiterTypeOK, limiterVars
<1> QED
  BY <1>1, <1>2 DEF Start

\* resume on the rate-limit timeout keeps the invariant.
LEMMA ResumeKeepsIInvOnTimeout == IInv /\ Resume => IInv'
<1> SUFFICES ASSUME IInv, Resume PROVE IInv'
  OBVIOUS
<1>1. ops' = ops /\ inbox' = inbox /\ rows' = rows
  BY DEF Resume
<1>2. PipelineOK(ops, pipeline) /\ Tied(ops, pipeline, updater, inbox')
      /\ rows' \in [ops -> States]
  BY <1>1 DEF IInv, TypeOK
<1> QED
  BY <1>1, <1>2, ResumeKeepsIInv DEF Resume

\* resourceUpdateFinished keeps the invariant: the report is applied to the
\* update that was running, and what starts next may start.
LEMMA FinishedKeepsIInv ==
    ASSUME IInv, NEW m \in inbox, ResourceUpdateFinished(m)
    PROVE  IInv'
<1>1. ops' = ops /\ inbox' = inbox \ {m}
  BY DEF ResourceUpdateFinished
<1>2. CASE Candidates(m) = {}
  BY <1>2, CandidatesUnique
<1>3. CASE Candidates(m) # {}
  <2> DEFINE f == m.from
             p == Reported(ops, pipeline, f, m.state)
  <2>1. Candidates(m) = {f}
    BY CandidatesUnique
  <2>2. /\ f \in pipeline.groups /\ pipeline.state[f] = "InProgress"
        /\ m.state \in States \ {"NotStarted"}
    BY <2>1, ReportsAssumption DEF Candidates, IInv, TypeOK
  <2>3. /\ PipelineOK(ops, p)
        /\ \A v \in pipeline.groups : pipeline.state[v] = "InProgress" /\ v # f =>
               v \in p.groups /\ p.state[v] = "InProgress"
        /\ p.tracked = pipeline.tracked
    BY <2>2, UpdatePipelineOK DEF IInv
  <2>4. /\ rows' = rows \/ \E failed : rows' = MarkResourcesAsFailed(rows, failed)
        /\ \/ /\ pipeline' = p
              /\ exec' = "finished_successfully"
              /\ timer' = FALSE
              /\ UNCHANGED <<updater, limiterVars>>
           \/ ResumeWith(p, timer) \/ ResumeFails(p)
    BY <1>3, <2>1 DEF ResourceUpdateFinished, Reported
  <2> HIDE DEF p
  <2>5. rows' \in [ops -> States]
    BY <2>4 DEF MarkResourcesAsFailed, BulkUpdateResourceState, States, IInv, TypeOK
  <2>6. Tied(ops, p, updater, inbox')
    <3>1. \A v \in ops : pipeline.state[v] = "InProgress" => v \in pipeline.groups
      BY DEF IInv, PipelineOK, Terminal
    <3>2. \A v \in ops : updater[v] = "running" => v # f
      BY DEF IInv, Tied
    <3>3. \A n \in inbox' : n \in inbox /\ n.from \in ops /\ n.from # f
      BY <1>1 DEF IInv, Tied, TypeOK
    <3> QED
      BY <2>3, <3>1, <3>2, <3>3 DEF IInv, Tied
  <2>7. CASE pipeline' = p /\ exec' = "finished_successfully" /\ timer' = FALSE
             /\ UNCHANGED <<updater, limiterVars>>
    <3>1. LimiterTypeOK' /\ TypeOK'
      BY <1>1, <2>3, <2>5, <2>7
      DEF IInv, TypeOK, LimiterTypeOK, limiterVars, PipelineOK, ExecStates
    <3> QED
      BY <1>1, <2>3, <2>6, <2>7, <3>1 DEF IInv
  <2>8. CASE ResumeWith(p, timer) \/ ResumeFails(p)
    <3>1. timer \in BOOLEAN /\ inbox' \subseteq inbox
      BY <1>1 DEF IInv, TypeOK
    <3> QED
      BY <1>1, <2>3, <2>5, <2>6, <2>8, <3>1, ResumeKeepsIInv
  <2> QED
    BY <2>4, <2>7, <2>8
<1> QED
  BY <1>2, <1>3

\* An updater that records progress keeps the invariant.
LEMMA ProgressKeepsIInv ==
    ASSUME IInv, NEW u \in ops, UpdaterProgress(u)
    PROVE  IInv'
<1>1. rows' \in [ops -> States]
  BY RowsType DEF UpdaterProgress, IInv, TypeOK, States
<1> QED
  BY <1>1 DEF UpdaterProgress, IInv, TypeOK, LimiterTypeOK, limiterVars

\* An updater that reports keeps the invariant: it has not reported before.
LEMMA UpdaterKeepsIInv ==
    ASSUME IInv, NEW u \in ops, NEW s \in Reports, UpdaterFinishes(u, s)
    PROVE  IInv'
<1>1. rows' \in [ops -> States]
  <2>1. rows \in [ops -> States] /\ s \in States
    BY ReportsAssumption DEF IInv, TypeOK
  <2>2. \A t \in {"InProgress", "Success", "Failed"} :
          UpdateFromProgress(rows, u, t) \in [ops -> States]
    BY <2>1 DEF UpdateFromProgress, States
  <2>3. PICK written \in {rows} \cup
            {UpdateFromProgress(rows, u, t) : t \in {"InProgress", "Success", "Failed"}} :
          rows' \in {written, MarkResourceUpdateAsComplete(written, u.uri, s)}
    BY DEF UpdaterFinishes
  <2>4. written \in [ops -> States]
    BY <2>1, <2>2, <2>3
  <2> QED
    BY <2>1, <2>3, <2>4 DEF MarkResourceUpdateAsComplete
<1>2. TypeOK'
  <2>1. inbox' = inbox \cup {[uri |-> u.uri, state |-> s, from |-> u]}
        /\ updater' = [updater EXCEPT ![u] = "finished"]
        /\ UNCHANGED <<ops, pipeline, exec, timer, bucket, elapsed>>
    BY DEF UpdaterFinishes, limiterVars
  <2> QED
    BY <1>1, <2>1 DEF IInv, TypeOK, LimiterTypeOK
<1>3. \A m \in inbox : m.from # u
  BY DEF UpdaterFinishes, IInv, Tied
<1>4. Tied(ops', pipeline', updater', inbox')
  BY <1>3 DEF UpdaterFinishes, IInv, Tied, TypeOK
<1> QED
  BY <1>2, <1>4 DEF UpdaterFinishes, IInv

\* Time and other executors change the token buckets only.
LEMMA LimiterKeepsIInv == IInv /\ (Tick \/ OtherExecutor) => IInv'
<1> SUFFICES ASSUME IInv, Tick \/ OtherExecutor PROVE IInv'
  OBVIOUS
<1>1. LimiterTypeOK'
  <2>1. CASE Tick
    BY <2>1 DEF Tick, SecondPasses, IInv, TypeOK, LimiterTypeOK
  <2>2. CASE OtherExecutor
    <3>1. PICK ns \in Namespaces : Replenished(ns) > 0 /\ RequestTokens([x \in {ns} |-> 1])
      BY <2>2 DEF OtherExecutor
    <3>2. \A x \in Namespaces : Replenished(x) \in Nat
      BY CapacityAssumption DEF Replenished, IInv, TypeOK, LimiterTypeOK
    <3> QED
      BY <3>1, <3>2 DEF RequestTokens, Granted, IInv, TypeOK, LimiterTypeOK
  <2> QED
    BY <2>1, <2>2
<1> QED
  BY <1>1 DEF Tick, OtherExecutor, IInv, TypeOK

\* A resume starts no updater a second time: what is executable has not been
\* tracked, and only what is tracked has an updater.
LEMMA ResumesOnce ==
    ASSUME IInv, NEW p, PipelineOK(ops, p), p.tracked = pipeline.tracked,
           NEW pending \in BOOLEAN, ResumeWith(p, pending) \/ ResumeFails(p)
    PROVE  \A u \in ops : updater[u] = "finished" => updater'[u] = "finished"
<1>1. IsFiniteSet(ops) /\ LimiterTypeOK /\ p \in Pipelines(ops)
  BY ChangesetsAssumption DEF IInv, TypeOK, PipelineOK
<1>2. Resumes(p)
  BY <1>1, ResumeResumes
<1>3. \A u \in Executable(p) : u \in ops /\ u \notin pipeline.tracked
  BY <1>1 DEF Executable, PipelineOK, Pipelines
<1>4. \A u \in ops : updater[u] # "none" => u \in pipeline.tracked
  BY DEF IInv, Tied
<1> QED
  BY <1>2, <1>3, <1>4 DEF Resumes

\* IInv is an inductive invariant.
LEMMA Inductive == IInv /\ [Next]_vars => IInv'
<1> SUFFICES ASSUME IInv, [Next]_vars PROVE IInv'
  OBVIOUS
<1>1. CASE UNCHANGED vars
  BY <1>1 DEF vars, IInv, TypeOK, LimiterTypeOK
<1>2. CASE Next
  BY <1>2, StartKeepsIInv, ResumeKeepsIInvOnTimeout, FinishedKeepsIInv,
     ProgressKeepsIInv, UpdaterKeepsIInv, LimiterKeepsIInv DEF Next
<1> QED
  BY <1>1, <1>2

\* The invariant holds throughout every execution of a changeset.
LEMMA Invariance == Spec => []IInv
BY InitIInv, Inductive, PTL DEF Spec

-----------------------------------------------------------------------------
(***************************************************************************)
(* Theorems.                                                               *)
(***************************************************************************)

\* The state of the executor, of its pipeline and of its surroundings is
\* well-typed; in particular no token bucket is overdrawn.
THEOREM ExecutorTypeCorrect == Spec => []TypeOK
BY Invariance, PTL DEF IInv

\* Updates start in the order of their dependencies, whatever the changeset,
\* the rate limits, the errors and the order in which updaters report.
THEOREM ExecutorStartsInOrder == Spec => []StartsInOrder
<1>1. IInv => StartsInOrder
  BY DEF IInv, Tied, PipelineOK, StartsInOrder
<1> QED
  BY <1>1, Invariance, PTL

\* A failure reaches everything that depends on it, and nothing of that has
\* been or will be started.
THEOREM ExecutorFailuresCascade == Spec => []FailuresCascade
<1>1. IInv => FailuresCascade
  BY DEF IInv, Tied, PipelineOK, FailuresCascade, Downstream
<1> QED
  BY <1>1, Invariance, PTL

\* Reports are applied to the update they are about although they name only
\* its resource.
THEOREM ExecutorMessageFindsItsUpdate == Spec => []MessageFindsItsUpdate
<1>1. IInv => MessageFindsItsUpdate
  BY CandidatesUnique DEF MessageFindsItsUpdate
<1> QED
  BY <1>1, Invariance, PTL

\* Nothing is executed twice: an updater that has reported is never spawned
\* again, by start, by a report or by a timeout.
THEOREM ExecutorExecutesOnce == Spec => ExecutedOnce
<1> DEFINE Once == \A u \in ops : updater[u] = "finished" => updater'[u] = "finished"
<1>1. ASSUME IInv, Next PROVE Once
  <2>1. PipelineOK(ops, pipeline) /\ FALSE \in BOOLEAN /\ timer \in BOOLEAN
    BY <1>1 DEF IInv, TypeOK
  <2>2. CASE Start \/ Resume
    <3>1. CASE UNCHANGED updater
      BY <3>1
    <3>2. CASE ResumeWith(pipeline, FALSE) \/ ResumeFails(pipeline)
      BY <1>1, <2>1, <3>2, ResumesOnce
    <3> QED
      BY <2>2, <3>1, <3>2 DEF Start, Resume
  <2>3. ASSUME NEW m \in inbox, ResourceUpdateFinished(m) PROVE Once
    <3> DEFINE p == Reported(ops, pipeline, m.from, m.state)
    <3>1. CASE UNCHANGED updater
      BY <3>1
    <3>2. CASE ~ UNCHANGED updater
      <4>1. Candidates(m) = {m.from}
        BY <1>1, <2>3, <3>2, CandidatesUnique DEF ResourceUpdateFinished
      <4>2. /\ m.from \in pipeline.groups /\ pipeline.state[m.from] = "InProgress"
            /\ m.state \in States \ {"NotStarted"}
        BY <1>1, <4>1, ReportsAssumption DEF Candidates, IInv, TypeOK
      <4>3. PipelineOK(ops, p) /\ p.tracked = pipeline.tracked
        BY <1>1, <4>2, UpdatePipelineOK DEF IInv
      <4>4. ResumeWith(p, timer) \/ ResumeFails(p)
        BY <2>3, <3>2, <4>1 DEF ResourceUpdateFinished, Reported
      <4> HIDE DEF p
      <4> QED
        BY <1>1, <2>1, <4>3, <4>4, ResumesOnce
    <3> QED
      BY <3>1, <3>2
  <2>4. ASSUME NEW u \in ops, UpdaterProgress(u) PROVE Once
    BY <2>4 DEF UpdaterProgress
  <2>5. ASSUME NEW u \in ops, NEW s \in Reports, UpdaterFinishes(u, s) PROVE Once
    BY <1>1, <2>5 DEF UpdaterFinishes, IInv, TypeOK
  <2>6. CASE Tick \/ OtherExecutor
    BY <2>6 DEF Tick, OtherExecutor
  <2> QED
    BY <1>1, <2>2, <2>3, <2>4, <2>5, <2>6 DEF Next
<1>2. IInv /\ [Next]_vars => [Once]_vars
  BY <1>1
<1> QED
  BY <1>2, Invariance, PTL DEF Spec, ExecutedOnce

-----------------------------------------------------------------------------
(***************************************************************************)
(* The rows of the command.                                                *)
(***************************************************************************)

\* The create half of a move whose delete half has not ended: it may have been
\* failed with what it refers to, and its row is still the delete's to write.
Lent(u) ==
    /\ u.moved /\ u.op = "create"
    /\ \E d \in ops : d.uri = u.uri /\ d.op = "delete" /\ pipeline.state[d] \notin Terminal

\* If no call fails, what has ended in the pipeline has ended in the rows; a
\* report is in the row before it is on its way, and a report that is not final
\* leaves no success in the row.
RowsInStep ==
    ~env.callErrors =>
        /\ \A u \in ops : pipeline.state[u] \in Terminal => rows[u] \in Terminal \/ Lent(u)
        /\ \A m \in inbox : m.state \in {"Success", "Rejected"} =>
               /\ rows[m.from] \in Terminal
               /\ \A u \in ops : u.uri = m.from.uri /\ m.from.op = "delete" /\ u.moved /\ u.op = "create"
                                 => rows[u] \in Terminal
        /\ \A m \in inbox : m.state = "InProgress" => rows[m.from] # "Success"

\* An executor that finished has emptied its pipeline.
EmptyInTheEnd == exec = "finished_successfully" => pipeline.groups = {}

RowsOK == NoFalseSuccess /\ RowsInStep /\ EmptyInTheEnd

\* The row that markResourceUpdateAsComplete finds is that of the update, or
\* that of the delete half when the update is the create half, or in a move
\* that of the create half when the update is the delete half.
LEMMA FirstRowFacts ==
    ASSUME WellFormed(ops), NEW r \in [ops -> States], NEW u \in ops
    PROVE  /\ FirstRow(r, u.uri) \in ops
           /\ FirstRow(r, u.uri) # u =>
                  \/ u.op = "create" /\ FirstRow(r, u.uri) \in Upstream(ops, u)
                  \/ /\ u.op = "delete" /\ u \in Upstream(ops, FirstRow(r, u.uri))
                     /\ FirstRow(r, u.uri).uri = u.uri
                     /\ FirstRow(r, u.uri).moved /\ FirstRow(r, u.uri).op = "create"
           /\ u.moved /\ u.op = "create" => FirstRow(r, u.uri) = u
           /\ \A v \in ops : v.uri = u.uri /\ v.moved /\ v.op = "create" => FirstRow(r, u.uri) = v
<1> DEFINE Fits(v) == /\ v.uri = u.uri
                      /\ \/ v.op = Leading(v)
                         \/ \A w \in ops : w.uri = u.uri => w.op # Leading(w)
           f == CHOOSE v \in ops : Fits(v)
<1>1. \E v \in ops : Fits(v)
  <2>1. CASE \E w \in ops : w.uri = u.uri /\ w.op = Leading(w)
    BY <2>1
  <2>2. CASE ~\E w \in ops : w.uri = u.uri /\ w.op = Leading(w)
    BY <2>2
  <2> QED
    BY <2>1, <2>2
<1>2. f \in ops /\ Fits(f)
  BY <1>1
<1>3. FirstRow(r, u.uri) = f
  BY DEF FirstRow
<1> HIDE DEF f
<1>4. ASSUME f # u
      PROVE  \/ u.op = "create" /\ f \in Upstream(ops, u)
             \/ u.op = "delete" /\ u \in Upstream(ops, f) /\ f.moved /\ f.op = "create"
  <2>1. u.key = f.key /\ u.moved = f.moved /\ {u.op, f.op} = {"delete", "create"}
    <3>1. f \in ops /\ f.uri = u.uri
      BY <1>2
    <3> HIDE DEF Fits
    <3> QED
      BY <3>1, <1>4 DEF WellFormed
  <2>2. \/ u.op = "create" /\ f.op = "delete"
        \/ u.op = "delete" /\ f.op = "create" /\ f.moved
    BY <1>2, <2>1 DEF Leading
  <2> QED
    BY <1>2, <2>1, <2>2 DEF Upstream, DeleteBeforeCreate
<1>5. ASSUME NEW v \in ops, v.uri = u.uri, v.moved, v.op = "create" PROVE f = v
  <2>1. f # v => f.moved = v.moved /\ {v.op, f.op} = {"delete", "create"}
    <3>1. f \in ops /\ f.uri = v.uri
      BY <1>2, <1>5
    <3> HIDE DEF Fits
    <3>2. \A g \in ops : v # g => (v.uri = g.uri => v.moved = g.moved /\ {v.op, g.op} = {"delete", "create"})
      BY DEF WellFormed
    <3> QED
      BY <3>1, <3>2
  <2> QED
    BY <1>2, <1>5, <2>1 DEF Leading
<1> QED
  BY <1>2, <1>3, <1>4, <1>5

\* The delete half of a resource is upstream of the create half, and there is no
\* third.
LEMMA Halves ==
    ASSUME WellFormed(ops), NEW d \in ops, NEW v \in ops,
           d.uri = v.uri, d.op = "delete", v.op = "create"
    PROVE  d \in Upstream(ops, v) /\ \A w \in ops : w.uri = d.uri => w \in {d, v}
<1>1. d.key = v.key
  BY DEF WellFormed
<1>2. ASSUME NEW w \in ops, w.uri = d.uri, w # d, w # v PROVE FALSE
  <2>1. {w.op, "delete"} = {"delete", "create"} /\ {w.op, "create"} = {"delete", "create"}
    BY <1>2 DEF WellFormed
  <2> QED
    BY <2>1
<1> QED
  BY <1>1, <1>2 DEF Upstream, DeleteBeforeCreate

\* The end of an updater: its own row changes, and that of the delete half, which
\* has succeeded, when it is the create half, or in a move that of the create
\* half, which has not started, when it is the delete half.
LEMMA FinishedRows ==
    ASSUME IInv, NEW u \in ops, NEW s \in Reports, UpdaterFinishes(u, s), ~env.callErrors
    PROVE  \E f \in ops :
               /\ \A v \in ops : v # u /\ v # f => rows'[v] = rows[v]
               /\ rows'[f] = s
               /\ f # u => /\ \/ pipeline.state[f] = "Success" /\ s \in {"Success", "Failed"}
                              \/ /\ f.moved /\ f.op = "create" /\ f.uri = u.uri /\ u.op = "delete"
                                 /\ pipeline.state[f] # "InProgress" /\ updater[f] = "none"
                           /\ s # "Rejected"
                           /\ s = "Success" => rows'[u] = "Success"
                           /\ s = "InProgress" => rows'[u] # "Success"
               /\ u.moved /\ u.op = "create" => f = u
               /\ \A v \in ops : v.uri = u.uri /\ v.moved /\ v.op = "create" => f = v
<1>1. PICK written \in {rows} \cup
          {UpdateFromProgress(rows, u, t) : t \in {"InProgress", "Success", "Failed"}} :
        /\ s = "Success" => written[u] = "Success"
        /\ s = "InProgress" => written[u] # "Success"
        /\ rows' = MarkResourceUpdateAsComplete(written, u.uri, s)
  BY DEF UpdaterFinishes, Terminal
<1>2. /\ written \in [ops -> States]
      /\ \A v \in ops : v # u => written[v] = rows[v]
  <2>1. rows \in [ops -> States]
    BY DEF IInv, TypeOK
  <2>2. CASE written = rows
    BY <2>1, <2>2
  <2>3. ASSUME NEW t \in {"InProgress", "Success", "Failed"}, written = UpdateFromProgress(rows, u, t)
        PROVE  /\ written \in [ops -> States]
               /\ \A v \in ops : v # u => written[v] = rows[v]
    BY <2>1, <2>3 DEF UpdateFromProgress, States
  <2> QED
    BY <1>1, <2>2, <2>3
<1> DEFINE f == FirstRow(written, u.uri)
<1>3. /\ f \in ops
      /\ f # u => \/ u.op = "create" /\ f \in Upstream(ops, u)
                  \/ /\ u.op = "delete" /\ u \in Upstream(ops, f)
                     /\ f.uri = u.uri /\ f.moved /\ f.op = "create"
      /\ u.moved /\ u.op = "create" => f = u
      /\ \A v \in ops : v.uri = u.uri /\ v.moved /\ v.op = "create" => f = v
  <2>1. WellFormed(ops)
    BY ChangesetsAssumption DEF IInv
  <2> QED
    BY <1>2, <2>1, FirstRowFacts
<1>4. rows' = [written EXCEPT ![f] = s]
  BY <1>1 DEF MarkResourceUpdateAsComplete
<1> HIDE DEF f
<1>5. /\ \A v \in ops : v # u /\ v # f => rows'[v] = rows[v]
      /\ rows'[f] = s
      /\ f # u => rows'[u] = written[u]
  BY <1>2, <1>3, <1>4
<1>6. u \in pipeline.tracked /\ pipeline.state[u] = "InProgress"
  BY DEF UpdaterFinishes, IInv, Tied
<1>7. ASSUME f # u, u.op = "create", f \in Upstream(ops, u)
      PROVE  pipeline.state[f] = "Success" /\ s \in {"Success", "Failed"}
  <2>1. pipeline.state[f] = "Success"
    BY <1>6, <1>7 DEF IInv, PipelineOK
  <2>2. s # "Rejected" /\ s \in Terminal
    BY <1>7 DEF UpdaterFinishes
  <2> QED
    BY <2>1, <2>2 DEF Terminal
<1>8. ASSUME u \in Upstream(ops, f)
      PROVE  pipeline.state[f] # "InProgress" /\ updater[f] = "none"
  <2>1. f \notin pipeline.tracked
    BY <1>3, <1>6, <1>8 DEF IInv, PipelineOK
  <2> QED
    BY <1>3, <2>1 DEF IInv, PipelineOK, Tied
<1>9. f # u => s # "Rejected"
  BY <1>3 DEF UpdaterFinishes
<1> QED
  BY <1>1, <1>3, <1>5, <1>7, <1>8, <1>9

\* A resume starts what had not started: it ends nothing, and takes no end back.
LEMMA ResumeEndsNothing ==
    ASSUME IInv, NEW p, PipelineOK(ops, p),
           NEW pending \in BOOLEAN, ResumeWith(p, pending) \/ ResumeFails(p)
    PROVE  /\ \A u \in ops : pipeline'.state[u] \in Terminal => p.state[u] \in Terminal
           /\ \A u \in ops : p.state[u] = "Success" => pipeline'.state[u] = "Success"
           /\ \A u \in ops : p.state[u] \notin Terminal => pipeline'.state[u] \notin Terminal
           /\ \A u \in ops : updater'[u] \in {updater[u], "running"}
           /\ p.tracked = pipeline.tracked =>
                  \A u \in ops : updater[u] = "finished" <=> updater'[u] = "finished"
           /\ exec' # "finished_successfully"
<1>1. IsFiniteSet(ops) /\ LimiterTypeOK /\ p \in Pipelines(ops)
  BY ChangesetsAssumption DEF IInv, TypeOK, PipelineOK
<1>2. Resumes(p)
  BY <1>1, ResumeResumes
<1>3. PICK S \in SUBSET Executable(p) :
        /\ pipeline' = MarkStarted(p, S)
        /\ \E T \in SUBSET S : updater' = [u \in ops |-> IF u \in T THEN "running" ELSE updater[u]]
  BY <1>2 DEF Resumes
<1>4. /\ pipeline'.state = [u \in ops |-> IF u \in S THEN "InProgress" ELSE p.state[u]]
      /\ \A u \in S : p.state[u] = "NotStarted"
  BY <1>1, <1>3 DEF MarkStarted, Pipelines, Executable
<1>5. exec' # "finished_successfully"
  BY DEF ResumeWith, ResumeFails
<1>6. \A u \in ops : updater'[u] \in {updater[u], "running"}
  BY <1>3
<1>7. p.tracked = pipeline.tracked =>
        \A u \in ops : updater[u] = "finished" => updater'[u] = "finished"
  BY ResumesOnce
<1> QED
  BY <1>4, <1>5, <1>6, <1>7 DEF Terminal

\* A report that is handled: what it ends has ended in its row, or is failed in
\* all rows of its resource.
LEMMA HandledRows ==
    ASSUME IInv, RowsOK, NEW m \in inbox, ResourceUpdateFinished(m)
    PROVE  RowsOK'
<1> DEFINE f == m.from
           r == SetState(pipeline, {f}, m.state)
           p == Reported(ops, pipeline, f, m.state)
           failed == CascadingFailures(ops, r, f)
<1>1. Candidates(m) = {f} /\ inbox' = inbox \ {m} /\ ops' = ops /\ env' = env
  BY CandidatesUnique DEF ResourceUpdateFinished
<1>2. /\ f \in pipeline.groups /\ pipeline.state[f] = "InProgress" /\ f \in ops
      /\ m.state \in States \ {"NotStarted"}
  BY <1>1, ReportsAssumption DEF Candidates, IInv, TypeOK, Pipelines
<1>3. /\ PipelineOK(ops, p) /\ p.state = StatesAfter(ops, pipeline, f, m.state)
      /\ p.tracked = pipeline.tracked
  BY <1>2, UpdatePipelineOK DEF IInv
<1>4. /\ rows' = MarkResourcesAsFailed(rows, {v.uri : v \in failed}) \/ env.callErrors
      /\ \/ /\ IsComplete(p) /\ pipeline' = p /\ updater' = updater
         \/ ResumeWith(p, timer) \/ ResumeFails(p)
  BY <1>1 DEF ResourceUpdateFinished, Reported
<1>5. failed = IF m.state \in {"Failed", "Rejected"} THEN Cascade(ops, r, f) \cup {f} ELSE {}
  <2>1. r.state[f] = m.state
    BY <1>2 DEF SetState, IInv, TypeOK, Pipelines
  <2> QED
    BY <2>1 DEF CascadingFailures
<1>6. \A u \in ops : u \notin failed => p.state[u] = IF u = f THEN m.state ELSE pipeline.state[u]
  BY <1>2, <1>3, <1>5 DEF StatesAfter, States
<1>7. m.state \in {"Failed", "Rejected"} => f \in failed
  BY <1>5
<1> HIDE DEF p, failed
<1>8. /\ \A u \in ops : pipeline'.state[u] \in Terminal => p.state[u] \in Terminal
      /\ \A u \in ops : p.state[u] = "Success" => pipeline'.state[u] = "Success"
      /\ \A u \in ops : updater[u] = "finished" <=> updater'[u] = "finished"
  <2>1. timer \in BOOLEAN
    BY DEF IInv, TypeOK
  <2> QED
    BY <1>3, <1>4, <2>1, ResumeEndsNothing
<1>9. EmptyInTheEnd'
  <2>1. CASE IsComplete(p) /\ pipeline' = p
    <3>1. \A u \in p.groups : u \in ops /\ p.state[u] \notin Terminal
      BY <1>3 DEF PipelineOK, Pipelines
    <3>2. p.groups = {}
      BY <2>1, <3>1 DEF IsComplete, Terminal
    <3> QED
      BY <2>1, <3>2 DEF EmptyInTheEnd
  <2>2. CASE ResumeWith(p, timer) \/ ResumeFails(p)
    <3>1. exec' # "finished_successfully"
      BY <2>2 DEF ResumeWith, ResumeFails
    <3> QED
      BY <3>1 DEF EmptyInTheEnd
  <2> QED
    BY <1>4, <2>1, <2>2
<1>10. ASSUME ~env.callErrors
       PROVE  \A u \in ops : /\ rows'[u] \in {rows[u], "Failed"}
                             /\ \A v \in failed : v.uri = u.uri => rows'[u] = "Failed"
  <2>1. rows' = [u \in ops |-> IF u.uri \in {v.uri : v \in failed} THEN "Failed" ELSE rows[u]]
    BY <1>4, <1>10 DEF MarkResourcesAsFailed, BulkUpdateResourceState, IInv, TypeOK
  <2> QED
    BY <2>1
<1>11. NoFalseSuccess'
  <2> SUFFICES ASSUME ~env.callErrors, NEW u \in ops, rows'[u] = "Success",
                      ~\E n \in inbox' : n.from = u
               PROVE  pipeline'.state[u] = "Success" \/ BorrowsSuccess(u)'
    BY <1>1 DEF NoFalseSuccess
  <2>1. rows[u] = "Success" /\ u \notin failed
    BY <1>10
  <2>2. CASE u = f
    <3>1. m.state # "InProgress" /\ m.state \notin {"Failed", "Rejected"}
      BY <1>7, <2>1, <2>2 DEF RowsOK, RowsInStep
    <3>2. p.state[u] = "Success"
      BY <1>2, <1>6, <2>1, <2>2, <3>1 DEF States
    <3> QED
      BY <1>8, <3>2
  <2>3. CASE u # f
    <3>1. pipeline.state[u] = "Success" \/ BorrowsSuccess(u)
      BY <1>1, <2>1, <2>3 DEF RowsOK, NoFalseSuccess
    <3>2. CASE pipeline.state[u] = "Success"
      BY <1>6, <1>8, <2>1, <2>3, <3>2
    <3>3. CASE BorrowsSuccess(u)
      BY <1>1, <1>8, <3>3 DEF BorrowsSuccess
    <3> QED
      BY <3>1, <3>2, <3>3
  <2> QED
    BY <2>2, <2>3
<1>12. RowsInStep'
  <2> SUFFICES ASSUME ~env.callErrors PROVE RowsInStep'
    BY <1>1 DEF RowsInStep
  <2>1. ASSUME NEW u \in ops, pipeline'.state[u] \in Terminal
        PROVE  rows'[u] \in Terminal \/ Lent(u)'
    <3>1. CASE u \in failed
      BY <1>10, <3>1 DEF Terminal
    <3>2. CASE u \notin failed /\ u = f
      <4>1. m.state = "Success"
        BY <1>2, <1>6, <1>7, <1>8, <2>1, <3>2 DEF Terminal
      <4>2. rows[f] \in Terminal
        BY <4>1 DEF RowsOK, RowsInStep
      <4> QED
        BY <1>10, <3>2, <4>2 DEF Terminal
    <3>3. CASE u \notin failed /\ u # f
      <4>1. pipeline.state[u] \in Terminal
        BY <1>6, <1>8, <2>1, <3>3
      <4>2. CASE rows[u] \in Terminal
        BY <1>10, <4>2 DEF Terminal
      <4>3. ASSUME u.moved, u.op = "create", NEW d \in ops, d.uri = u.uri, d.op = "delete",
                   pipeline.state[d] \notin Terminal
            PROVE  rows'[u] \in Terminal \/ Lent(u)'
        <5>1. CASE pipeline'.state[d] \notin Terminal
          BY <1>1, <4>3, <5>1 DEF Lent
        <5>2. CASE d \in failed
          BY <1>10, <4>3, <5>2 DEF Terminal
        <5>3. CASE d \notin failed /\ pipeline'.state[d] \in Terminal
          <6>1. d = f /\ m.state = "Success"
            BY <1>2, <1>6, <1>7, <1>8, <4>3, <5>3 DEF Terminal
          <6>2. rows[u] \in Terminal
            BY <4>3, <6>1 DEF RowsOK, RowsInStep
          <6> QED
            BY <1>10, <6>2 DEF Terminal
        <5> QED
          BY <5>1, <5>2, <5>3
      <4> QED
        BY <4>1, <4>2, <4>3 DEF RowsOK, RowsInStep, Lent
    <3> QED
      BY <3>1, <3>2, <3>3
  <2>2. \A n \in inbox' : n \in inbox /\ n.from \in ops
    BY <1>1 DEF IInv, TypeOK
  <2>3. \A u \in ops : rows[u] \in Terminal => rows'[u] \in Terminal
    BY <1>10 DEF Terminal
  <2>4. \A n \in inbox' : n.state = "InProgress" => rows'[n.from] # "Success"
    BY <1>10, <2>2 DEF RowsOK, RowsInStep
  <2> QED
    BY <1>1, <2>1, <2>2, <2>3, <2>4 DEF RowsOK, RowsInStep
<1> QED
  BY <1>9, <1>11, <1>12 DEF RowsOK

\* An updater that records progress or its end.
LEMMA UpdaterRows ==
    ASSUME IInv, RowsOK, NEW u \in ops,
           UpdaterProgress(u) \/ \E s \in Reports : UpdaterFinishes(u, s)
    PROVE  RowsOK'
<1>1. UNCHANGED <<ops, env, pipeline, exec>> /\ updater[u] = "running"
  BY DEF UpdaterProgress, UpdaterFinishes
<1>2. EmptyInTheEnd'
  BY <1>1 DEF RowsOK, EmptyInTheEnd
<1>3. /\ pipeline.state[u] = "InProgress"
      /\ \A m \in inbox : m.from \in ops /\ m.from # u /\ pipeline.state[m.from] = "InProgress"
  BY <1>1 DEF IInv, Tied, TypeOK
<1>w. WellFormed(ops)
  BY ChangesetsAssumption DEF IInv
<1>4. CASE env.callErrors
  BY <1>1, <1>2, <1>4 DEF RowsOK, NoFalseSuccess, RowsInStep
<1>5. CASE UpdaterProgress(u) /\ ~env.callErrors
  <2>1. /\ inbox' = inbox /\ rows'[u] = "InProgress" /\ updater' = updater
        /\ \A v \in ops : v # u => rows'[v] = rows[v]
    BY <1>5 DEF UpdaterProgress, UpdateFromProgress, IInv, TypeOK
  <2>2. NoFalseSuccess'
    BY <1>1, <2>1 DEF RowsOK, NoFalseSuccess, BorrowsSuccess
  <2>3. \A m \in inbox : \A v \in ops :
            v.uri = m.from.uri /\ m.from.op = "delete" /\ v.moved /\ v.op = "create" => v # u
    BY <1>1, <1>3, <1>w, Halves DEF IInv, Tied, PipelineOK
  <2>4. RowsInStep'
    BY <1>1, <1>3, <1>5, <2>1, <2>3 DEF RowsOK, RowsInStep, Terminal, Lent
  <2> QED
    BY <1>2, <2>2, <2>4 DEF RowsOK
<1>6. ASSUME NEW s \in Reports, UpdaterFinishes(u, s), ~env.callErrors PROVE RowsOK'
  <2> DEFINE n == [uri |-> u.uri, state |-> s, from |-> u]
  <2>1. PICK f \in ops :
            /\ \A v \in ops : v # u /\ v # f => rows'[v] = rows[v]
            /\ rows'[f] = s
            /\ f # u => /\ \/ pipeline.state[f] = "Success" /\ s \in {"Success", "Failed"}
                           \/ /\ f.moved /\ f.op = "create" /\ f.uri = u.uri /\ u.op = "delete"
                              /\ pipeline.state[f] # "InProgress" /\ updater[f] = "none"
                        /\ s # "Rejected"
                        /\ s = "Success" => rows'[u] = "Success"
                        /\ s = "InProgress" => rows'[u] # "Success"
            /\ u.moved /\ u.op = "create" => f = u
            /\ \A v \in ops : v.uri = u.uri /\ v.moved /\ v.op = "create" => f = v
    BY <1>6, FinishedRows
  <2>2. /\ inbox' = inbox \cup {n} /\ n.from = u /\ n.state = s
        /\ \A v \in ops : updater'[v] = IF v = u THEN "finished" ELSE updater[v]
    BY <1>6 DEF UpdaterFinishes, IInv, TypeOK
  <2> HIDE DEF n
  <2>3. NoFalseSuccess'
    <3> SUFFICES ASSUME NEW v \in ops, rows'[v] = "Success", v # u
                 PROVE  pipeline'.state[v] = "Success" \/ (\E m \in inbox' : m.from = v)
                            \/ BorrowsSuccess(v)'
      BY <1>1, <2>2 DEF NoFalseSuccess
    <3>1. CASE v = f
      BY <1>1, <2>1, <2>2, <3>1 DEF BorrowsSuccess
    <3>2. CASE v # f
      <4>1. pipeline.state[v] = "Success" \/ (\E m \in inbox : m.from = v) \/ BorrowsSuccess(v)
        BY <1>6, <2>1, <3>2 DEF RowsOK, NoFalseSuccess
      <4>2. BorrowsSuccess(v) => BorrowsSuccess(v)'
        BY <1>1, <2>2 DEF BorrowsSuccess
      <4> QED
        BY <1>1, <2>2, <4>1, <4>2
    <3> QED
      BY <3>1, <3>2
  <2>4. \A v \in ops : pipeline'.state[v] \in Terminal => rows'[v] \in Terminal \/ Lent(v)'
    <3> SUFFICES ASSUME NEW v \in ops, pipeline.state[v] \in Terminal
                 PROVE  rows'[v] \in Terminal \/ Lent(v)'
      BY <1>1
    <3>1. v # u
      BY <1>3 DEF Terminal
    <3>2. CASE v = f
      BY <1>1, <1>3, <2>1, <3>1, <3>2 DEF Lent, Terminal
    <3>3. CASE v # f
      BY <1>1, <1>6, <2>1, <3>1, <3>3 DEF RowsOK, RowsInStep, Lent
    <3> QED
      BY <3>2, <3>3
  <2>5. /\ s \in {"Success", "Rejected"} =>
              /\ rows'[u] \in Terminal
              /\ \A v \in ops : v.uri = u.uri /\ u.op = "delete" /\ v.moved /\ v.op = "create"
                                => rows'[v] \in Terminal
        /\ s = "InProgress" => rows'[u] # "Success"
    BY <2>1 DEF Terminal
  <2>6. \A m \in inbox : rows'[m.from] = rows[m.from]
    BY <1>3, <2>1
  <2>7. ASSUME NEW m \in inbox, NEW v \in ops, v.uri = m.from.uri, m.from.op = "delete",
               v.moved, v.op = "create"
        PROVE  rows'[v] = rows[v]
    <3>1. m.from \in Upstream(ops, v) /\ \A w \in ops : w.uri = v.uri => w \in {m.from, v}
      BY <1>3, <1>w, <2>7, Halves
    <3>2. v \notin pipeline.tracked
      BY <1>3, <3>1 DEF IInv, PipelineOK
    <3>3. v # u /\ pipeline.state[v] # "Success"
      BY <1>1, <3>2 DEF IInv, Tied, PipelineOK
    <3>4. v # f
      BY <1>3, <2>1, <2>7, <3>1, <3>3
    <3> QED
      BY <2>1, <3>3, <3>4
  <2>8. RowsInStep'
    <3>1. ASSUME NEW m \in inbox'
          PROVE  /\ m.state \in {"Success", "Rejected"} =>
                       /\ rows'[m.from] \in Terminal
                       /\ \A v \in ops : v.uri = m.from.uri /\ m.from.op = "delete" /\ v.moved /\ v.op = "create"
                                         => rows'[v] \in Terminal
                 /\ m.state = "InProgress" => rows'[m.from] # "Success"
      <4>1. CASE m = n
        BY <2>2, <2>5, <4>1
      <4>2. CASE m \in inbox
        BY <1>6, <2>6, <2>7, <4>2 DEF RowsOK, RowsInStep
      <4> QED
        BY <2>2, <4>1, <4>2
    <3> QED
      BY <1>1, <2>4, <3>1 DEF RowsInStep
  <2> QED
    BY <1>2, <2>3, <2>8 DEF RowsOK
<1> QED
  BY <1>4, <1>5, <1>6

\* RowsOK is kept by every step.
LEMMA RowsStep == IInv /\ RowsOK /\ [Next]_vars => RowsOK'
<1> SUFFICES ASSUME IInv, RowsOK, [Next]_vars PROVE RowsOK'
  OBVIOUS
<1>1. ASSUME UNCHANGED <<ops, env, pipeline, updater, inbox, rows>>,
             exec' = exec \/ exec' # "finished_successfully"
      PROVE  RowsOK'
  BY <1>1 DEF RowsOK, NoFalseSuccess, BorrowsSuccess, RowsInStep, Lent, EmptyInTheEnd
<1>2. ASSUME UNCHANGED <<ops, env, inbox, rows>>,
             ResumeWith(pipeline, FALSE) \/ ResumeFails(pipeline)
      PROVE  RowsOK'
  <2>1. /\ \A u \in ops : pipeline'.state[u] \in Terminal => pipeline.state[u] \in Terminal
        /\ \A u \in ops : pipeline.state[u] = "Success" => pipeline'.state[u] = "Success"
        /\ \A u \in ops : pipeline.state[u] \notin Terminal => pipeline'.state[u] \notin Terminal
        /\ \A u \in ops : updater[u] = "finished" <=> updater'[u] = "finished"
        /\ exec' # "finished_successfully"
    BY <1>2, ResumeEndsNothing DEF IInv
  <2> QED
    BY <1>2, <2>1 DEF RowsOK, NoFalseSuccess, BorrowsSuccess, RowsInStep, Lent, EmptyInTheEnd
<1> QED
  BY <1>1, <1>2, HandledRows, UpdaterRows DEF Next, vars, Start, Resume, Tick, OtherExecutor

\* The rows tell the truth: they are well typed, no success is claimed that was
\* not, and when the executor has finished every update is terminal, no updater
\* runs, and without failing calls no row is left open.
THEOREM ExecutorRowsTellTheTruth == Spec => []RowsTellTheTruth
<1>1. Init => RowsOK
  BY DEF Init, RowsOK, NoFalseSuccess, RowsInStep, EmptyInTheEnd, NewRows, NewPipeline, Terminal
<1>2. ASSUME IInv, RowsOK PROVE RowsTellTheTruth
  <2>1. ASSUME exec = "finished_successfully" PROVE \A u \in ops : pipeline.state[u] \in Terminal
    BY <1>2, <2>1 DEF RowsOK, EmptyInTheEnd, IInv, PipelineOK
  <2>2. ASSUME exec = "finished_successfully" PROVE \A u \in ops : updater[u] # "running"
    BY <1>2, <2>1, <2>2 DEF IInv, Tied, Terminal
  <2>3. ASSUME exec = "finished_successfully", ~env.callErrors
        PROVE  OverallCommandState(rows) # "InProgress"
    <3>1. DOMAIN rows = ops /\ \A u \in ops : rows[u] \in Terminal
      BY <1>2, <2>1, <2>3 DEF RowsOK, RowsInStep, Lent, IInv, TypeOK
    <3> QED
      BY <3>1 DEF OverallCommandState
  <2> QED
    <3>1. TypeOK
      BY <1>2 DEF IInv
    <3> QED
      BY <1>2, <2>1, <2>2, <2>3, <3>1 DEF RowsOK, RowsTellTheTruth, NothingLeftBehind
<1> QED
  BY <1>1, <1>2, RowsStep, Invariance, PTL DEF Spec

-----------------------------------------------------------------------------
(***************************************************************************)
(* The order of dependencies: the executor implements DependencyOrder,     *)
(* HasCycles refuses what could not be executed in that order and nothing  *)
(* else, and an executor always has something to wait for.                 *)
(*                                                                         *)
(* The states of the pipeline are those of the abstract specification.     *)
(* What has to be shown is that an empty upstream list means that all      *)
(* dependencies have succeeded, and that the cascade of UpdatePipeline,    *)
(* which walks only through groups that are still in the pipeline and not  *)
(* started, fails all dependents there are.                                *)
(***************************************************************************)

\* The operators the abstract specification takes from Changeset are the
\* executor's own.
LEMMA SameChangeset ==
    /\ \A c : Order!SplitReplace(c) = SplitReplace(c)
    /\ \A o, u : Order!Upstream(o, u) = Upstream(o, u)
    /\ \A o, u : Order!Downstream(o, u) = Downstream(o, u)
<1>1. \A c : Order!SplitReplace(c) = SplitReplace(c)
  BY Zenon DEF Order!SplitReplace, SplitReplace
<1>2. \A o, u : Order!Upstream(o, u) = Upstream(o, u)
  BY Zenon DEF Order!Upstream, Order!DeleteDependencies, Order!CreateUpdateDependencies,
     Order!DeleteBeforeCreate, Order!IsCreateOrUpdate, Upstream, DeleteDependencies,
     CreateUpdateDependencies, DeleteBeforeCreate, IsCreateOrUpdate
<1>3. \A o, u : Order!Downstream(o, u) = Downstream(o, u)
  BY <1>2, Zenon DEF Order!Downstream, Downstream
<1> QED
  BY <1>1, <1>2, <1>3

\* The dependents of u are the least set closed under the downstream links.
LEMMA DependentsLeast ==
    ASSUME NEW u \in ops
    PROVE  Order!Dependents(u) =
             {d \in ops : \A S \in SUBSET ops :
                 (\A g \in S \cup {u} : Downstream(ops, g) \subseteq S) => d \in S}
<1>1. \A S \in SUBSET ops : \A g \in S \cup {u} :
        [h \in ops |-> Order!Downstream(ops, h)][g] = Downstream(ops, g)
  BY SameChangeset
<1> DEFINE down == [h \in ops |-> Order!Downstream(ops, h)]
<1>2. Order!Dependents(u) =
        {d \in ops : \A S \in SUBSET ops :
            (\A g \in S \cup {u} : down[g] \subseteq S) => d \in S}
  BY Zenon DEF Order!Dependents
<1>3. \A S \in SUBSET ops : \A g \in S \cup {u} : down[g] = Downstream(ops, g)
  BY <1>1
<1> HIDE DEF down
<1>4. \A S \in SUBSET ops : (\A g \in S \cup {u} : down[g] \subseteq S)
        <=> (\A g \in S \cup {u} : Downstream(ops, g) \subseteq S)
  BY <1>3, Zenon
<1> QED
  BY <1>2, <1>4

\* What GetExecutableUpdates selects may start: all it depends on succeeded.
LEMMA ExecutableMayStart ==
    ASSUME NEW p, PipelineOK(ops, p), NEW u \in Executable(p)
    PROVE  u \in ops /\ Order!MayStart(p.state, u)
<1>1. /\ u \in ops /\ u \in p.groups /\ p.state[u] = "NotStarted"
      /\ Upstream(ops, u) \cap p.groups = {}
  BY DEF Executable, PipelineOK, Pipelines
<1>2. ASSUME NEW d \in Upstream(ops, u) PROVE p.state[d] = "Success"
  <2>1. d \in ops /\ d \notin p.groups
    BY <1>1, UpstreamType
  <2>2. p.state[d] \in Terminal
    BY <2>1 DEF PipelineOK
  <2>3. p.state[d] \notin {"Failed", "Rejected"}
    BY <1>1, <2>1 DEF PipelineOK
  <2> QED
    BY <2>2, <2>3 DEF Terminal
<1> QED
  BY <1>1, <1>2, SameChangeset DEF Order!MayStart

\* A resume starts updates that may start, and changes no other state.
LEMMA ResumeStarts ==
    ASSUME NEW p, PipelineOK(ops, p), Resumes(p)
    PROVE  Order!StartFrom(p.state)
<1>1. PICK S \in SUBSET Executable(p) : pipeline' = MarkStarted(p, S)
  BY DEF Resumes
<1>2. S \in SUBSET {u \in ops : Order!MayStart(p.state, u)}
  BY ExecutableMayStart
<1>3. pipeline'.state = [u \in ops |-> IF u \in S THEN "InProgress" ELSE p.state[u]]
  BY <1>1 DEF MarkStarted, PipelineOK, Pipelines
<1> QED
  BY <1>2, <1>3 DEF Order!StartFrom, Order!Started

\* A report that is final has the effect of the abstract conclusion: the cascade
\* reaches no more than the dependents, and every dependent it does not reach
\* has failed before.
LEMMA ReportConcludes ==
    ASSUME IInv, NEW u \in pipeline.groups, pipeline.state[u] = "InProgress",
           NEW s \in Terminal
    PROVE  Reported(ops, pipeline, u, s).state = Order!Concluded(u, s)
<1> DEFINE r == SetState(pipeline, {u}, s)
           q == Reported(ops, pipeline, u, s)
<1>1. /\ PipelineOK(ops, pipeline) /\ s \in States \ {"NotStarted"}
      /\ s # "InProgress" /\ u \in ops /\ u \in pipeline.tracked
  BY DEF IInv, Terminal, States, PipelineOK, Pipelines
<1>2. /\ PipelineOK(ops, q)
      /\ q.tracked = pipeline.tracked
      /\ q.state = StatesAfter(ops, pipeline, u, s)
  BY <1>1, UpdatePipelineOK
<1>3. r.groups = pipeline.groups /\ r.state[u] = s
  BY <1>1 DEF SetState, PipelineOK, Pipelines
<1>4. u \notin Cascade(ops, r, u)
  <2>1. r.groups \subseteq ops
    BY <1>1, <1>3 DEF PipelineOK, Pipelines
  <2>2. s # "NotStarted"
    BY <1>1
  <2> HIDE DEF r
  <2> QED
    BY <1>3, <2>1, <2>2, CascadeProperties
<1>5. Cascade(ops, r, u) \subseteq Order!Dependents(u)
  <2> SUFFICES ASSUME NEW d \in Cascade(ops, r, u), NEW S \in SUBSET ops,
                      \A g \in S \cup {u} : Downstream(ops, g) \subseteq S
               PROVE  d \in S
    <3>1. Cascade(ops, r, u) \subseteq ops
      BY <1>1, <1>3 DEF Cascade, PipelineOK, Pipelines
    <3> HIDE DEF r
    <3> QED
      BY <1>1, <3>1, DependentsLeast
  <2>1. CascadeClosed(ops, r, u, S)
    BY DEF CascadeClosed
  <2> QED
    BY <2>1 DEF Cascade
<1> HIDE DEF r, q
<1>6. ASSUME s # "Success", NEW d \in Order!Dependents(u)
      PROVE  d = u \/ q.state[d] = "Failed"
  <2> DEFINE F == {e \in ops : q.state[e] = "Failed" /\ e \notin q.tracked}
  <2>1. q.state[u] = s /\ s \in {"Failed", "Rejected"}
    BY <1>1, <1>2, <1>4, <1>6 DEF Terminal, StatesAfter, r
  <2>2. \A g \in F \cup {u} : Downstream(ops, g) \subseteq F
    BY <1>1, <1>2, <2>1 DEF PipelineOK, Downstream
  <2>3. F \in SUBSET ops
    OBVIOUS
  <2> HIDE DEF F
  <2>4. d \in F
    BY <1>1, <1>6, <2>2, <2>3, DependentsLeast
  <2> QED
    BY <2>4 DEF F
<1>7. \A v \in ops :
        StatesAfter(ops, pipeline, u, s)[v] = Order!Concluded(u, s)[v]
  <2> SUFFICES ASSUME NEW v \in ops
               PROVE  StatesAfter(ops, pipeline, u, s)[v] = Order!Concluded(u, s)[v]
    OBVIOUS
  <2>1. q.state[v] = IF s # "Success" /\ v \in Cascade(ops, r, u) THEN "Failed"
                     ELSE IF v = u THEN s ELSE pipeline.state[v]
    BY <1>1, <1>2 DEF StatesAfter, r
  <2>2. Order!Concluded(u, s)[v] =
          IF v = u THEN s
          ELSE IF s # "Success" /\ v \in Order!Dependents(u) THEN "Failed" ELSE pipeline.state[v]
    BY DEF Order!Concluded
  <2> QED
    BY <1>2, <1>4, <1>5, <1>6, <2>1, <2>2
<1> QED
  BY <1>2, <1>7 DEF Order!Concluded, StatesAfter, q

\* Every handler of the executor is a step of DependencyOrder, or changes no
\* state of an update.
LEMMA StepImplements == IInv /\ [Next]_vars => [Order!Next]_(Order!vars)
<1> SUFFICES ASSUME IInv, Next PROVE Order!Next \/ UNCHANGED Order!vars
  BY DEF vars, Order!vars
<1>1. ops' = ops /\ PipelineOK(ops, pipeline) /\ timer \in BOOLEAN
      /\ IsFiniteSet(ops) /\ LimiterTypeOK
  BY ChangesetsAssumption
  DEF Next, Start, Resume, ResourceUpdateFinished, UpdaterProgress, UpdaterFinishes,
      Tick, OtherExecutor, IInv, TypeOK
<1>2. ASSUME NEW p, PipelineOK(ops, p), NEW pending \in BOOLEAN,
             ResumeWith(p, pending) \/ ResumeFails(p)
      PROVE  Order!StartFrom(p.state)
  <2>1. Resumes(p)
    BY <1>1, <1>2, ResumeResumes DEF PipelineOK
  <2> QED
    BY <1>2, <2>1, ResumeStarts
<1>3. CASE UNCHANGED pipeline
  BY <1>1, <1>3 DEF Order!vars
<1>4. CASE ResumeWith(pipeline, FALSE) \/ ResumeFails(pipeline)
  BY <1>1, <1>2, <1>4 DEF Order!Next, Order!Start
<1>5. ASSUME NEW m \in inbox, ResourceUpdateFinished(m), ~ UNCHANGED pipeline
      PROVE  Order!Next
  <2> DEFINE u == m.from
             q == Reported(ops, pipeline, u, m.state)
  <2>1. Candidates(m) = {u}
    BY <1>5, CandidatesUnique DEF ResourceUpdateFinished
  <2>2. /\ u \in pipeline.groups /\ pipeline.state[u] = "InProgress" /\ u \in ops
        /\ m.state \in States \ {"NotStarted"}
    BY <2>1, ReportsAssumption DEF Candidates, IInv, TypeOK, Pipelines
  <2>3. /\ PipelineOK(ops, q)
        /\ q.state = StatesAfter(ops, pipeline, u, m.state)
    BY <1>1, <2>2, UpdatePipelineOK
  <2>4. pipeline' = q \/ ResumeWith(q, timer) \/ ResumeFails(q)
    BY <1>5, <2>1 DEF ResourceUpdateFinished, Reported
  <2> HIDE DEF q
  <2>5. Order!StartFrom(q.state)
    <3>1. CASE pipeline' = q
      <4>1. q.state = Order!Started(q.state, {})
        BY <2>3 DEF Order!Started, StatesAfter
      <4> QED
        BY <3>1, <4>1 DEF Order!StartFrom
    <3>2. CASE ResumeWith(q, timer) \/ ResumeFails(q)
      BY <1>1, <1>2, <2>3, <3>2
    <3> QED
      BY <2>4, <3>1, <3>2
  <2>6. CASE m.state = "InProgress"
    <3>1. q.state = pipeline.state
      BY <1>1, <2>2, <2>3, <2>6 DEF StatesAfter, PipelineOK, Pipelines
    <3> QED
      BY <1>1, <2>5, <3>1 DEF Order!Next, Order!Start
  <2>7. CASE m.state # "InProgress"
    <3>1. m.state \in Terminal
      BY <2>2, <2>7 DEF States, Terminal
    <3>2. q.state = Order!Concluded(u, m.state)
      BY <2>2, <3>1, ReportConcludes DEF q
    <3>3. Order!Conclude(u, m.state)
      BY <1>1, <2>2, <2>5, <3>2 DEF Order!Conclude
    <3> QED
      BY <2>2, <3>1, <3>3 DEF Order!Next, Order!Terminal, Terminal
  <2> QED
    BY <2>6, <2>7
<1> QED
  BY <1>3, <1>4, <1>5
  DEF Next, Start, Resume, UpdaterProgress, UpdaterFinishes, Tick, OtherExecutor

\* The executor implements DependencyOrder: whatever the rate limits, errors and
\* order of reports, updates start in order and failures reach all dependents.
THEOREM ExecutorImplementsOrder == Spec => ImplementsOrder
<1>1. Init => Order!Init
  BY SameChangeset DEF Init, Order!Init, NewPipeline
<1> QED
  BY <1>1, StepImplements, Invariance, PTL DEF Spec, ImplementsOrder, Order!Spec

-----------------------------------------------------------------------------
(***************************************************************************)
(* Cycles.  dfs is a recursive function on sets of groups; what it finds   *)
(* is shown by looking at a smallest counterexample, sets of groups being  *)
(* finite.                                                                 *)
(***************************************************************************)

\* Links stay inside the changeset.
LEMMA DownstreamType ==
    ASSUME NEW o, NEW u PROVE Downstream(o, u) \subseteq o
BY DEF Downstream

\* A step of the walk of dfs that finds a circle, given the steps X that do.
Finds(o, X, g, visited) ==
    g \in visited \/ \E d \in Downstream(o, g) : <<d, visited \cup {g}>> \in X

\* The recursion of dfs defines a function.
LEMMA DfsStep ==
    ASSUME NEW o, NEW visited \in SUBSET o
    PROVE  dfs(o)[visited] =
             {g \in o : g \in visited \/ Downstream(o, g) \cap dfs(o)[visited \cup {g}] # {}}
<1> DEFINE Steps == o \X SUBSET o
           ClosedUnder(X) == \A h \in o, w \in SUBSET o : Finds(o, X, h, w) => <<h, w>> \in X
           Least == {s \in Steps : \A X \in SUBSET Steps : ClosedUnder(X) => s \in X}
<1>1. ClosedUnder(Least)
  <2> SUFFICES ASSUME NEW h \in o, NEW w \in SUBSET o, Finds(o, Least, h, w),
                      NEW X \in SUBSET Steps, ClosedUnder(X)
               PROVE  <<h, w>> \in X
    OBVIOUS
  <2>1. Least \subseteq X
    OBVIOUS
  <2>2. Finds(o, X, h, w)
    BY <2>1 DEF Finds
  <2> QED
    BY <2>2
<1>2. ASSUME NEW h \in o, NEW w \in SUBSET o, <<h, w>> \in Least
      PROVE  Finds(o, Least, h, w)
  <2> SUFFICES ASSUME ~Finds(o, Least, h, w) PROVE FALSE
    OBVIOUS
  <2> DEFINE X == Least \ {<<h, w>>}
  <2>1. ASSUME NEW g1 \in o, NEW w1 \in SUBSET o, Finds(o, X, g1, w1) PROVE <<g1, w1>> \in X
    <3>1. Finds(o, Least, g1, w1)
      BY <2>1 DEF Finds
    <3>2. <<g1, w1>> \in Least
      BY <1>1, <3>1
    <3>3. <<g1, w1>> # <<h, w>>
      BY <3>1
    <3> QED
      BY <3>2, <3>3
  <2>2. X \in SUBSET Steps /\ ClosedUnder(X)
    BY <2>1
  <2>3. <<h, w>> \in X
    BY <1>2, <2>2
  <2> QED
    BY <2>3
<1> HIDE DEF Least
<1> DEFINE Body(f, w) == {g \in o : g \in w \/ Downstream(o, g) \cap f[w \cup {g}] # {}}
           IsDfs(f) == f = [w \in SUBSET o |-> Body(f, w)]
           From(w) == {g \in o : <<g, w>> \in Least}
           f0 == [w \in SUBSET o |-> From(w)]
<1>3. \A w \in SUBSET o : From(w) = Body(f0, w)
  <2> SUFFICES ASSUME NEW w \in SUBSET o, NEW g \in o
               PROVE  g \in From(w) <=> g \in Body(f0, w)
    OBVIOUS
  <2>1. f0[w \cup {g}] = From(w \cup {g})
    OBVIOUS
  <2>2. <<g, w>> \in Least <=> Finds(o, Least, g, w)
    BY <1>1, <1>2
  <2>3. Downstream(o, g) \cap From(w \cup {g}) # {} <=>
          \E d \in Downstream(o, g) : <<d, w \cup {g}>> \in Least
    BY DownstreamType
  <2> QED
    BY <2>1, <2>2, <2>3 DEF Finds
<1>4. IsDfs(f0)
  BY <1>3
<1>5. IsDfs(dfs(o))
  <2> HIDE DEF f0
  <2> QED BY <1>4 DEF dfs
<1> QED
  BY <1>5

\* Of finite sets some are minimal.
LEMMA SmallestSet ==
    ASSUME NEW o, IsFiniteSet(o), NEW F \in SUBSET SUBSET o, F # {}
    PROVE  \E x \in F : \A y \in F : y \subseteq x => y = x
<1>1. IsWellFoundedOn(StrictSubsetOrdering(o), SUBSET o)
  BY FS_FiniteSubsetsOfFinite, FS_StrictSubsetOrderingWellFounded
<1>2. PICK x \in F : \A y \in F : <<y, x>> \notin StrictSubsetOrdering(o)
  BY <1>1, WFMin
<1>3. ASSUME NEW y \in F, y \subseteq x PROVE y = x
  <2>1. <<y, x>> \in (SUBSET o) \X (SUBSET o)
    OBVIOUS
  <2> QED
    BY <1>2, <1>3, <2>1 DEF StrictSubsetOrdering
<1> QED
  BY <1>3

\* Every group of S has a link up, or a link down, that stays in S.
Climbs(o, S) == \A g \in S : Upstream(o, g) \cap S # {}
Descends(o, S) == \A g \in S : Downstream(o, g) \cap S # {}

\* Whoever can climb for ever goes round in a circle, which can be descended too.
LEMMA CircleOfClimb ==
    ASSUME NEW o, IsFiniteSet(o), NEW S \in SUBSET o, S # {}, Climbs(o, S)
    PROVE  \E T \in SUBSET S : T # {} /\ Climbs(o, T) /\ Descends(o, T)
<1> DEFINE F == {T \in SUBSET S : T # {} /\ Climbs(o, T)}
<1>1. PICK T \in F : \A U \in F : U \subseteq T => U = T
  <2>1. F \in SUBSET SUBSET o /\ F # {}
    OBVIOUS
  <2> HIDE DEF F
  <2> QED
    BY <2>1, SmallestSet
<1>2. ASSUME NEW g \in T, Downstream(o, g) \cap T = {} PROVE FALSE
  <2>1. \A h \in T : h \in o /\ g \notin Upstream(o, h)
    BY <1>2 DEF Downstream
  <2>2. Climbs(o, T \ {g})
    BY <2>1 DEF Climbs
  <2>3. T \ {g} # {}
    BY <2>1 DEF Climbs
  <2>4. T \ {g} \in F
    BY <2>2, <2>3
  <2> QED
    BY <1>1, <2>4
<1> QED
  BY <1>2 DEF Descends

\* dfs finds a circle from every group from which one can descend for ever.
LEMMA DescentIsFound ==
    ASSUME NEW o, IsFiniteSet(o), NEW T \in SUBSET o, T # {}, Descends(o, T)
    PROVE  HasCycles(o)
<1> DEFINE F == {o \ v : v \in {w \in SUBSET o : ~(T \subseteq dfs(o)[w])}}
<1>1. ASSUME F # {} PROVE FALSE
  <2>1. PICK x \in F : \A y \in F : y \subseteq x => y = x
    <3>1. F \in SUBSET SUBSET o
      OBVIOUS
    <3> HIDE DEF F
    <3> QED
      BY <1>1, <3>1, SmallestSet
  <2>2. PICK v \in SUBSET o : x = o \ v /\ ~(T \subseteq dfs(o)[v])
    OBVIOUS
  <2>3. PICK g \in T : g \notin dfs(o)[v]
    BY <2>2
  <2>4. g \in o /\ g \notin v /\ Downstream(o, g) \cap dfs(o)[v \cup {g}] = {}
    BY <2>3, DfsStep
  <2>5. PICK d \in Downstream(o, g) : d \in T
    BY DEF Descends
  <2>6. v \cup {g} \in SUBSET o /\ ~(T \subseteq dfs(o)[v \cup {g}])
    BY <2>4, <2>5
  <2>7. o \ (v \cup {g}) \in F
    BY <2>6
  <2>8. o \ (v \cup {g}) \subseteq x /\ o \ (v \cup {g}) # x
    BY <2>2, <2>4
  <2> HIDE DEF F
  <2> QED
    BY <2>1, <2>7, <2>8
<1>2. T \subseteq dfs(o)[{}]
  <2>1. {} \in SUBSET o
    OBVIOUS
  <2>2. SUFFICES ASSUME ~(T \subseteq dfs(o)[{}]) PROVE FALSE
    OBVIOUS
  <2>3. o \ {} \in F
    BY <2>1, <2>2
  <2> HIDE DEF F
  <2> QED
    BY <1>1, <2>3
<1> QED
  BY <1>2 DEF HasCycles

\* What can be reached from g downstream, in one step or more.
Below(o, g) ==
    {d \in o : \A S \in SUBSET o : (\A h \in S \cup {g} : Downstream(o, h) \subseteq S) => d \in S}

\* It is closed downwards, and the least such set: whatever is in it is below g or
\* below something in it.
LEMMA BelowFacts ==
    ASSUME NEW o, NEW g
    PROVE  /\ Downstream(o, g) \subseteq Below(o, g)
           /\ \A h \in Below(o, g) : Downstream(o, h) \subseteq Below(o, g)
           /\ \A d \in Below(o, g) : \E h \in Below(o, g) \cup {g} : d \in Downstream(o, h)
<1>1. \A h \in Below(o, g) \cup {g} : Downstream(o, h) \subseteq Below(o, g)
  BY DownstreamType DEF Below
<1>2. ASSUME NEW d \in Below(o, g), \A h \in Below(o, g) \cup {g} : d \notin Downstream(o, h)
      PROVE  FALSE
  <2> DEFINE S == Below(o, g) \ {d}
  <2>1. S \in SUBSET o
    BY DEF Below
  <2>2. \A h \in S \cup {g} : Downstream(o, h) \subseteq S
    BY <1>1, <1>2
  <2>3. d \in S
    BY <2>1, <2>2, <1>2 DEF Below
  <2> QED
    BY <2>3
<1> QED
  BY <1>1, <1>2

\* When dfs finds something, it has gone round in a circle.
LEMMA FoundIsCircle ==
    ASSUME NEW o, IsFiniteSet(o), HasCycles(o)
    PROVE  \E S \in SUBSET o : S # {} /\ Climbs(o, S)
<1> DEFINE Walked(v) == \E g \in dfs(o)[v] : \A h \in v : g \in Below(o, h)
           F == {o \ v : v \in {w \in SUBSET o : Walked(w)}}
<1>1. PICK x \in F : \A y \in F : y \subseteq x => y = x
  <2>1. Walked({})
    BY DEF HasCycles
  <2>2. o \ {} \in F
    BY <2>1
  <2>3. F \in SUBSET SUBSET o
    OBVIOUS
  <2> HIDE DEF F
  <2> QED
    BY <2>2, <2>3, SmallestSet
<1>2. PICK v \in SUBSET o : x = o \ v /\ Walked(v)
  OBVIOUS
<1>3. PICK g \in dfs(o)[v] : \A h \in v : g \in Below(o, h)
  BY <1>2
<1>4. g \in o /\ (g \in v \/ Downstream(o, g) \cap dfs(o)[v \cup {g}] # {})
  <2>1. dfs(o)[v] = {h \in o : h \in v \/ Downstream(o, h) \cap dfs(o)[v \cup {h}] # {}}
    BY DfsStep
  <2> HIDE DEF F, Walked
  <2> QED
    BY <1>3, <2>1
<1>5. ASSUME g \notin v PROVE FALSE
  <2>1. PICK d \in Downstream(o, g) : d \in dfs(o)[v \cup {g}]
    BY <1>4, <1>5
  <2>2. \A h \in v \cup {g} : d \in Below(o, h)
    BY <1>3, <2>1, BelowFacts
  <2>3. v \cup {g} \in SUBSET o /\ Walked(v \cup {g})
    BY <1>4, <2>1, <2>2
  <2>4. o \ (v \cup {g}) \in F
    BY <2>3
  <2>5. o \ (v \cup {g}) \subseteq x /\ o \ (v \cup {g}) # x
    BY <1>2, <1>4, <1>5
  <2> HIDE DEF F
  <2> QED
    BY <1>1, <2>4, <2>5
<1>6. g \in Below(o, g)
  BY <1>3, <1>5
<1>7. Climbs(o, Below(o, g))
  <2>1. \A d \in Below(o, g) : \E h \in Below(o, g) : h \in Upstream(o, d)
    BY <1>6, BelowFacts DEF Downstream
  <2> QED
    BY <2>1 DEF Climbs
<1> QED
  BY <1>6, <1>7 DEF Below

\* HasCycles says what it should: some updates would wait for each other.
LEMMA CyclesAreCircles ==
    ASSUME NEW o, IsFiniteSet(o)
    PROVE  HasCycles(o) <=> \E S \in SUBSET o : S # {} /\ Climbs(o, S)
<1>1. ASSUME NEW S \in SUBSET o, S # {}, Climbs(o, S) PROVE HasCycles(o)
  <2>1. PICK T \in SUBSET S : T # {} /\ Climbs(o, T) /\ Descends(o, T)
    BY <1>1, CircleOfClimb
  <2>2. T \in SUBSET o
    OBVIOUS
  <2> QED
    BY <2>1, <2>2, DescentIsFound
<1> QED
  BY <1>1, FoundIsCircle

\* Every update of S refers to one of S.
Refers(S) == \A g \in S : \E h \in S : h.uri \in g.deps

\* The circle of links that is a circle of references.
LEMMA CirclesAreReferences ==
    ASSUME NEW o, IsFiniteSet(o)
    PROVE  HasCycles(o) <=>
             \E R \in {{u \in o : u.op = "delete"}, {u \in o : IsCreateOrUpdate(u)}} :
                 \E S \in (SUBSET R) \ {{}} : Refers(S)
<1> DEFINE D == {u \in o : u.op = "delete"}
           C == {u \in o : IsCreateOrUpdate(u)}
<1>1. ASSUME NEW S \in SUBSET D, S # {}, Refers(S) PROVE HasCycles(o)
  <2>1. Descends(o, S)
    BY <1>1 DEF Refers, Descends, Downstream, Upstream, DeleteDependencies
  <2>2. S \in SUBSET o
    OBVIOUS
  <2> QED
    BY <1>1, <2>1, <2>2, DescentIsFound
<1>2. ASSUME NEW S \in SUBSET C, S # {}, Refers(S) PROVE HasCycles(o)
  <2>1. Climbs(o, S)
    BY <1>2 DEF Refers, Climbs, Upstream, CreateUpdateDependencies
  <2>2. S \in SUBSET o
    OBVIOUS
  <2> QED
    BY <1>2, <2>1, <2>2, CyclesAreCircles
<1>3. ASSUME HasCycles(o)
      PROVE  \E R \in {D, C} : \E S \in (SUBSET R) \ {{}} : Refers(S)
  <2>1. PICK S \in SUBSET o : S # {} /\ Climbs(o, S)
    BY <1>3, CyclesAreCircles
  <2>2. CASE S \cap D = {}
    <3>1. \A g \in S : \E h \in S : h \in CreateUpdateDependencies(o, g)
      BY <2>1, <2>2 DEF Climbs, Upstream, DeleteDependencies, DeleteBeforeCreate
    <3>2. S \in SUBSET C /\ Refers(S)
      BY <3>1 DEF CreateUpdateDependencies, Refers
    <3> QED
      BY <2>1, <3>2
  <2>3. CASE S \cap D # {}
    <3>1. \A g \in S \cap D : Upstream(o, g) \subseteq D
      BY DEF Upstream, DeleteDependencies, CreateUpdateDependencies, DeleteBeforeCreate,
             IsCreateOrUpdate
    <3>2. Climbs(o, S \cap D) /\ S \cap D \in SUBSET o
      BY <2>1, <3>1 DEF Climbs
    <3>3. PICK T \in SUBSET (S \cap D) : T # {} /\ Climbs(o, T) /\ Descends(o, T)
      <4> HIDE DEF D
      <4> QED
        BY <2>3, <3>2, CircleOfClimb
    <3>4. Refers(T)
      BY <3>3 DEF Descends, Refers, Downstream, Upstream, DeleteDependencies,
                  CreateUpdateDependencies, DeleteBeforeCreate, IsCreateOrUpdate
    <3> QED
      BY <3>3, <3>4
  <2> QED
    BY <2>2, <2>3
<1> QED
  BY <1>1, <1>2, <1>3

\* The executor is refused its start for cycles and for nothing else.
Refused == exec = "refused" <=> HasCycles(ops)

\* No step refuses an executor, and one that is refused takes no step.
LEMMA RefusedHolds == Spec => []Refused
<1>1. Init => Refused
  BY DEF Init, Refused
<1>2. Refused /\ [Next]_vars => Refused'
  <2> SUFFICES ASSUME Refused, [Next]_vars PROVE Refused'
    OBVIOUS
  <2>1. ops' = ops
    BY DEF Next, vars, Start, Resume, ResourceUpdateFinished, UpdaterProgress, UpdaterFinishes,
           Tick, OtherExecutor
  <2>2. exec = "refused" <=> exec' = "refused"
    BY DEF Next, vars, Start, Resume, ResourceUpdateFinished, UpdaterProgress, UpdaterFinishes,
           Tick, OtherExecutor, ResumeWith, ResumeFails
  <2> QED
    BY <2>1, <2>2 DEF Refused
<1> QED
  BY <1>1, <1>2, PTL DEF Spec

\* A changeset is refused exactly when its updates would wait for each other,
\* and that is so exactly when references go in a circle.
THEOREM CyclesAreAlwaysRefused == Spec => []CyclesAreRefused
<1>1. ASSUME IInv, Refused PROVE CyclesAreRefused
  <2>1. IsFiniteSet(ops)
    BY <1>1, ChangesetsAssumption DEF IInv
  <2>2. CyclesAreDeadlocks
    BY <1>1, <2>1, CyclesAreCircles DEF CyclesAreDeadlocks, Refused, Climbs
  <2>3. CyclesComeFromReferences
    BY <1>1, <2>1, CirclesAreReferences DEF CyclesComeFromReferences, Refused, Refers
  <2> QED
    BY <2>2, <2>3 DEF CyclesAreRefused
<1> QED
  BY <1>1, Invariance, RefusedHolds, PTL

-----------------------------------------------------------------------------
(***************************************************************************)
(* The executor always has something to wait for.                          *)
(***************************************************************************)

\* Every update in progress has an updater, or its report is in box.
Served(p, box) ==
    \A u \in ops : p.state[u] = "InProgress" =>
        updater[u] = "running" \/ \E m \in box : m.from = u

\* While it processes, the executor has work left; whatever could start is
\* started or the timeout is set, and whatever has started will be reported.
Busy ==
    /\ exec = "processing" => /\ pipeline.groups # {}
                              /\ timer \/ Executable(pipeline) = {}
    /\ exec \in {"not_started", "processing"} => Served(pipeline, inbox)

\* A resume that gets all tokens it asks for starts all that can start.
LEMMA ResumeServes ==
    ASSUME IsFiniteSet(ops), NEW p \in Pipelines(ops), NEW pending \in BOOLEAN,
           ResumeWith(p, pending)
    PROVE  \E S \in SUBSET Executable(p) :
               /\ pipeline' = MarkStarted(p, S) /\ Spawn(S)
               /\ timer' \/ S = Executable(p)
<1>1. PICK S \in SUBSET Executable(p) : Take(p, DOMAIN Requests(p), S) /\ Spawn(S)
  BY DEF ResumeWith
<1>2. pipeline' = MarkStarted(p, S)
  BY <1>1 DEF Take
<1>3. CASE Short(p)
  BY <1>1, <1>2, <1>3 DEF ResumeWith
<1>4. CASE ~Short(p)
  <2>1. ASSUME NEW u \in Executable(p) PROVE u \in S
    <3> DEFINE ns == u.ns
               n == Requests(p)[ns]
    <3>1. ns \in DOMAIN Requests(p) /\ n = Cardinality(Available(p, ns))
      BY DEF Requests
    <3>2. Cardinality(InNamespace(S, ns)) = Granted(ns, n)
      <4>1. [x \in DOMAIN Requests(p) |-> Requests(p)[x]][ns] = n
        BY <3>1
      <4> QED
        BY <1>1, <3>1, <4>1 DEF Take
    <3>3. ~(Granted(ns, n) < n)
      BY <1>4, <3>1 DEF Short
    <3>4. InNamespace(S, ns) \subseteq Available(p, ns) /\ Available(p, ns) \subseteq ops
      BY DEF InNamespace, Available, Executable, Pipelines
    <3>5. IsFiniteSet(Available(p, ns)) /\ IsFiniteSet(InNamespace(S, ns))
      BY <3>4, FS_Subset
    <3>6. /\ Cardinality(InNamespace(S, ns)) \in Nat /\ n \in Nat
          /\ Cardinality(InNamespace(S, ns)) <= n
      BY <3>1, <3>4, <3>5, FS_Subset, FS_CardinalityType
    <3>7. Cardinality(InNamespace(S, ns)) = Cardinality(Available(p, ns))
      BY <3>1, <3>2, <3>3, <3>6
    <3>8. InNamespace(S, ns) = Available(p, ns)
      BY <3>4, <3>5, <3>7, FS_Subset
    <3> QED
      BY <3>8 DEF InNamespace, Available
  <2> QED
    BY <1>1, <1>2, <2>1
<1> QED
  BY <1>3, <1>4

\* So a resume leaves the executor busy.
LEMMA ResumeKeepsBusy ==
    ASSUME IInv, ops' = ops, NEW p, PipelineOK(ops, p), p.groups # {}, Served(p, inbox'),
           NEW pending \in BOOLEAN, ResumeWith(p, pending)
    PROVE  Busy'
<1>1. IsFiniteSet(ops) /\ p \in Pipelines(ops) /\ updater \in [ops -> {"none", "running", "finished"}]
  BY ChangesetsAssumption DEF IInv, TypeOK, PipelineOK
<1>2. PICK S \in SUBSET Executable(p) :
          /\ pipeline' = MarkStarted(p, S) /\ Spawn(S)
          /\ timer' \/ S = Executable(p)
  BY <1>1, ResumeServes
<1>3. /\ pipeline'.groups = p.groups /\ pipeline'.upstream = p.upstream
      /\ pipeline'.state = [u \in ops |-> IF u \in S THEN "InProgress" ELSE p.state[u]]
      /\ pipeline'.tracked = p.tracked \cup S
  BY <1>1, <1>2 DEF MarkStarted, Pipelines
<1>4. Executable(p) \subseteq ops /\ p.groups \subseteq ops
  BY <1>1 DEF Executable, Pipelines
<1>5. S = Executable(p) => Executable(pipeline)' = {}
  BY <1>3, <1>4 DEF Executable
<1>6. Served(pipeline, inbox)'
  BY <1>2, <1>3, <1>4 DEF Served, Spawn
<1> QED
  BY <1>2, <1>3, <1>5, <1>6 DEF Busy

\* Every step leaves it so, if every report ends its update.
LEMMA BusyStep ==
    ASSUME Reports \subseteq Terminal, IInv, Busy, [Next]_vars
    PROVE  Busy'
<1>1. ops' = ops /\ PipelineOK(ops, pipeline) /\ timer \in BOOLEAN
  BY DEF Next, vars, Start, Resume, ResourceUpdateFinished, UpdaterProgress, UpdaterFinishes,
         Tick, OtherExecutor, IInv, TypeOK
<1>2. ASSUME exec' \notin {"not_started", "processing"} PROVE Busy'
  BY <1>2 DEF Busy
<1>3. ASSUME UNCHANGED <<exec, pipeline, timer, updater, inbox>> PROVE Busy'
  BY <1>1, <1>3 DEF Busy, Served
<1>4. CASE Start
  <2>1. CASE ResumeWith(pipeline, FALSE)
    <3>1. pipeline.groups # {}
      <4>1. ~IsComplete(pipeline)
        BY <1>4, <2>1 DEF Start, ResumeWith
      <4> QED
        BY <4>1 DEF IsComplete
    <3>2. Served(pipeline, inbox')
      BY <1>4 DEF Start, Busy
    <3> QED
      BY <1>1, <2>1, <3>1, <3>2, ResumeKeepsBusy
  <2> QED
    BY <1>2, <1>4, <2>1 DEF Start, ResumeFails
<1>5. CASE Resume
  <2>1. CASE ResumeWith(pipeline, FALSE)
    <3>1. pipeline.groups # {} /\ Served(pipeline, inbox')
      BY <1>5 DEF Resume, Busy
    <3> QED
      BY <1>1, <2>1, <3>1, ResumeKeepsBusy
  <2> QED
    BY <1>2, <1>5, <2>1 DEF Resume, ResumeFails
<1>6. ASSUME NEW m \in inbox, ResourceUpdateFinished(m) PROVE Busy'
  <2> DEFINE f == m.from
             p == Reported(ops, pipeline, f, m.state)
  <2>1. Candidates(m) = {f} /\ exec = "processing" /\ inbox' = inbox \ {m}
    BY <1>6, CandidatesUnique DEF ResourceUpdateFinished
  <2>2. /\ f \in pipeline.groups /\ pipeline.state[f] = "InProgress" /\ f \in ops
        /\ m.state \in Terminal /\ m.state \in States \ {"NotStarted"}
    BY <2>1, ReportsAssumption DEF Candidates, IInv, TypeOK, Pipelines
  <2>3. /\ PipelineOK(ops, p)
        /\ p.state = StatesAfter(ops, pipeline, f, m.state)
    BY <1>1, <2>2, UpdatePipelineOK
  <2>4. \/ exec' \notin {"not_started", "processing"}
        \/ ~IsComplete(p) /\ ResumeWith(p, timer)
    BY <1>6, <2>1 DEF ResourceUpdateFinished, Reported, ResumeFails
  <2> HIDE DEF p
  <2>5. Served(p, inbox')
    <3> SUFFICES ASSUME NEW u \in ops, p.state[u] = "InProgress"
                 PROVE  updater[u] = "running" \/ \E n \in inbox' : n.from = u
      BY DEF Served
    <3>1. u # f /\ pipeline.state[u] = "InProgress"
      BY <2>2, <2>3 DEF StatesAfter, Terminal
    <3>2. updater[u] = "running" \/ \E n \in inbox : n.from = u
      BY <2>1, <3>1 DEF Busy, Served
    <3> QED
      BY <2>1, <3>1, <3>2
  <2>6. CASE ~IsComplete(p) /\ ResumeWith(p, timer)
    <3>1. p.groups # {}
      BY <2>6 DEF IsComplete
    <3> QED
      BY <1>1, <2>3, <2>5, <2>6, <3>1, ResumeKeepsBusy
  <2> QED
    BY <1>2, <2>4, <2>6
<1>7. ASSUME NEW u \in ops, NEW s \in Reports, UpdaterFinishes(u, s) PROVE Busy'
  <2>1. /\ UNCHANGED <<exec, pipeline, timer>>
        /\ updater' = [updater EXCEPT ![u] = "finished"]
        /\ inbox' = inbox \cup {[uri |-> u.uri, state |-> s, from |-> u]}
    BY <1>7 DEF UpdaterFinishes
  <2>2. [uri |-> u.uri, state |-> s, from |-> u].from = u
    OBVIOUS
  <2>3. updater \in [ops -> {"none", "running", "finished"}]
    BY DEF IInv, TypeOK
  <2>4. Served(pipeline, inbox) => Served(pipeline, inbox)'
    BY <1>1, <2>1, <2>2, <2>3 DEF Served
  <2> QED
    BY <2>1, <2>4 DEF Busy
<1> QED
  BY <1>3, <1>4, <1>5, <1>6, <1>7 DEF Next, vars, UpdaterProgress, Tick, OtherExecutor

\* If updaters report final states only, the executor never waits for nothing:
\* with no update in progress and no timeout some group that is left has all it
\* depends on done, since nothing goes in a circle, and so has been started.
THEOREM ExecutorNeverStuck ==
    ASSUME Reports \subseteq Terminal
    PROVE  Spec => []NeverStuck
<1>1. Init => Busy
  BY DEF Init, Busy, Served, NewPipeline
<1>2. IInv /\ Busy /\ [Next]_vars => Busy'
  BY BusyStep
<1>3. ASSUME IInv, Refused, Busy PROVE NeverStuck
  <2> SUFFICES ASSUME exec = "processing", ~timer, inbox = {},
                      \A u \in ops : updater[u] # "running"
               PROVE  FALSE
    BY DEF NeverStuck
  <2>1. /\ pipeline.groups # {} /\ Executable(pipeline) = {}
        /\ \A u \in ops : pipeline.state[u] # "InProgress"
    BY <1>3 DEF Busy, Served
  <2>2. IsFiniteSet(ops) /\ pipeline.groups \in SUBSET ops /\ ~HasCycles(ops)
    BY <1>3, ChangesetsAssumption DEF IInv, TypeOK, Pipelines, Refused
  <2>3. PICK g \in pipeline.groups : Upstream(ops, g) \cap pipeline.groups = {}
    BY <2>1, <2>2, CyclesAreCircles DEF Climbs
  <2>4. pipeline.state[g] = "NotStarted" /\ pipeline.upstream[g] = {} /\ g \notin pipeline.tracked
    BY <1>3, <2>1, <2>2, <2>3 DEF IInv, PipelineOK, Pipelines, States, Terminal
  <2> QED
    BY <2>1, <2>4 DEF Executable
<1> QED
  BY <1>1, <1>2, <1>3, Invariance, RefusedHolds, PTL DEF Spec
=============================================================================
