----------------------------- MODULE CommandLine -----------------------------
(***************************************************************************)
(* The command line and the agent's API between it and the commands: apply *)
(* and destroy with simulation and confirmation, the status of commands    *)
(* and watching it (internal/cli/apply, destroy, status and app,           *)
(* internal/api, querier). Users run it concurrently while the agent works *)
(* on the commands, stops and starts.                                      *)
(*                                                                         *)
(* Whether a command is admitted, and what it does, are left open here:    *)
(* CommandAdmission and the modules below it say so.                       *)
(***************************************************************************)
EXTENDS CommandTable

CONSTANTS Users,        \* with a client ID each
          Scenes,       \* who uses the command line, and how
          MaxResults,   \* the numbers of results asked for
          Stacks,       \* that commands are about
          MaxCommands

\* A scene has the users; the backend, "sqlite" or "postgres"; the kinds of
\* commands and the queries given on the command line; why the metastructure
\* refuses commands; and a bound on how often the agent stops.
VARIABLES scene,
          table,      \* the table of commands
          lost,       \* identifiers of commands the agent does not work on: a
                      \* stop has left them, or a Read that failed
          agent,      \* "up", "down" or "other", an agent of another version
          session,    \* user -> what the user's terminal does
          stops

vars == <<scene, table, lost, agent, session, stops>>

\* A terminal: where it is, what it asks for, how it ended, and what it last
\* printed; reason is why the agent refused it.
Idle == [pc |-> "idle", kind |-> "", query |-> <<>>, n |-> 0, watch |-> FALSE,
         machine |-> FALSE, outcome |-> "", reason |-> "", shown |-> {}]
Ended(s, outcome) == [s EXCEPT !.pc = "ended", !.outcome = outcome]

Init == /\ scene \in Scenes
        /\ table = {} /\ lost = {} /\ agent = "up" /\ stops = 0
        /\ session = [u \in Users |-> Idle]

-----------------------------------------------------------------------------
Rejected == {"ReconcileRejected", "ConflictingCommands", "TargetAlreadyExists"}
Typed == Rejected \cup
    {"CyclesDetected", "PatchRejected", "ReferencedResourcesNotFound", "InvalidQuery",
     "RequiredFieldMissingOnCreate", "StackReferenceNotFound", "TargetReferenceNotFound"}

\* The response to a request that was refused: other errors have no type.
mapError(reason) ==
    [code |-> CASE reason \in Rejected -> 409
                [] reason = "PatchRejected" -> 422
                [] reason \in Typed \ (Rejected \cup {"PatchRejected"}) -> 400
                [] OTHER -> 500,
     error |-> IF reason \in Typed THEN reason ELSE ""]

\* The client decodes the body for the codes it knows of.
parseErrorResponse(kind, response) ==
    IF \/ response.code \in {400, 409}
       \/ response.code = 422 /\ kind = "apply"
    THEN response.error ELSE "unexpected response code"

\* There is no message for a rejected patch.
RenderErrorMessage(error) ==
    IF error \in Typed \ {"PatchRejected"} THEN error ELSE "error rendering error message"

Refused(s, reason) ==
    [s EXCEPT !.pc = "ended", !.reason = reason,
              !.outcome = RenderErrorMessage(parseErrorResponse(s.kind, mapError(reason)))]
MayRefuse(kind) ==
    scene.refusals \ IF kind = "apply" THEN {"InvalidQuery"} ELSE {"PatchRejected", "ReconcileRejected"}

\* ListFormaCommandStatus: with a query, or the most recent command of the
\* client. The response is a status code and commands.
ListFormaCommandStatus(terms, client, n) ==
    LET q == statusQuery(terms, client)
        found == IF scene.backend = "sqlite" THEN QueryFormaCommandsSQLite(table, q, n)
                 ELSE QueryFormaCommandsPostgres(table, q, n)
        recent == GetMostRecentFormaCommandByClientID(table, client)
    IN  CASE terms = <<>> -> [code |-> IF recent = {} THEN 500 ELSE 200, commands |-> recent]
          [] terms # <<>> /\ Panics(terms) -> [code |-> 0, commands |-> {}]
          [] terms # <<>> /\ ~Panics(terms) /\ InvalidQuery(terms) -> [code |-> 400, commands |-> {}]
          [] OTHER -> [code |-> IF found = {} THEN 404 ELSE 200, commands |-> found]

\* runBeforeCommand: the agent must run, and in the client's version.
Compatible == agent = "up"

\* GetCommandsStatus and GetFormaCommandsStatus: nothing found is no error.
GetCommandsStatus(s, u) ==
    LET response == ListFormaCommandStatus(s.query, u, s.n)
    IN  IF Compatible /\ response.code \in {200, 404}
        THEN [ok |-> TRUE, commands |-> response.commands]
        ELSE [ok |-> FALSE, commands |-> {}]

\* formae status command --query ... --watch: without a query one command is
\* asked for; the first answer is printed before it is watched.
RunStatus(u, terms, n, watch) ==
    LET s == [Idle EXCEPT !.kind = "status", !.query = terms, !.watch = watch,
                          !.n = IF terms = <<>> THEN 1 ELSE n]
        status == GetCommandsStatus(s, u)
    IN  /\ session[u].pc = "idle"
        /\ session' = [session EXCEPT ![u] =
               CASE ~status.ok /\ Compatible /\ InvalidQuery(terms) /\ ~Panics(terms)
                        -> Refused(s, "InvalidQuery")
                 [] ~status.ok /\ ~(Compatible /\ InvalidQuery(terms) /\ ~Panics(terms))
                        -> Ended(s, "error")
                 [] status.ok /\ watch -> [s EXCEPT !.pc = "watching", !.shown = status.commands]
                 [] OTHER -> [Ended(s, "done") EXCEPT !.shown = status.commands]]
        /\ UNCHANGED <<table, lost, agent, stops>>

\* Mutant: a watch ends when one of the commands has.
SomeFinished(commands) == \E c \in commands : c.state \in Final

\* Mutant: a command in progress does not keep a watch running.
NoneWaits(commands) == \A c \in commands : c.state # "NotStarted"

\* WatchCommandsStatus: it ends when every command in the answer has.
AllFinished(commands) == \A c \in commands : c.state \in Final

Poll(u) ==
    LET s == session[u]
        status == GetCommandsStatus(s, u)
    IN  /\ s.pc = "watching"
        /\ session' = [session EXCEPT ![u] =
               IF ~status.ok THEN Ended(s, "error")
               ELSE [(IF AllFinished(status.commands) THEN Ended(s, "done") ELSE s)
                        EXCEPT !.shown = status.commands]]
        /\ UNCHANGED <<table, lost, agent, stops>>

-----------------------------------------------------------------------------
Command(u, kind, stack) ==
    [id |-> Cardinality(table) + 1, client |-> u, command |-> kind, state |-> "NotStarted",
     stacks |-> {stack}, errors |-> {}]

\* formae apply and destroy, for humans: a simulation comes first. It may be
\* refused, or find nothing to do.
RunSimulation(u, kind, simulate, watch) ==
    LET s == [Idle EXCEPT !.kind = kind, !.watch = watch]
    IN  /\ session[u].pc = "idle"
        /\ \/ /\ ~Compatible
              /\ session' = [session EXCEPT ![u] = Ended(s, "error")]
           \/ /\ Compatible
              /\ \E reason \in MayRefuse(kind) :
                    session' = [session EXCEPT ![u] = Refused(s, reason)]
           \/ /\ Compatible
              /\ session' = [session EXCEPT ![u] = Ended(s, "nothing to do")]
           \/ /\ Compatible
              /\ session' = [session EXCEPT ![u] =
                     IF simulate THEN Ended(s, "simulated") ELSE [s EXCEPT !.pc = "confirm"]]
        /\ UNCHANGED <<table, lost, agent, stops>>

\* The user does not confirm.
Abort(u) ==
    /\ session[u].pc = "confirm"
    /\ session' = [session EXCEPT ![u] = Ended(session[u], "aborted")]
    /\ UNCHANGED <<table, lost, agent, stops>>

\* The second request, generated from the inventory as it is now; it may be
\* refused in its turn. With --watch its command is watched by its identifier.
Submit(u, stack) ==
    LET s == session[u]
        c == Command(u, s.kind, stack)
    IN  /\ s.pc = "confirm"
        /\ \/ /\ ~Compatible
              /\ session' = [session EXCEPT ![u] = Ended(s, "error")]
              /\ UNCHANGED table
           \/ /\ Compatible
              /\ \E reason \in MayRefuse(s.kind) :
                    session' = [session EXCEPT ![u] = Refused(s, reason)]
              /\ UNCHANGED table
           \/ /\ Compatible /\ Cardinality(table) < MaxCommands
              /\ table' = StoreFormaCommand(table, c)
              /\ session' = [session EXCEPT ![u] = [
                     (IF s.watch THEN [s EXCEPT !.pc = "watching", !.n = 1] ELSE Ended(s, "done"))
                     EXCEPT !.query = <<[field |-> "id", value |-> c.id,
                                         constraint |-> "optional"]>>]]
        /\ UNCHANGED <<lost, agent, stops>>

\* For machines there is one request, and its command is not watched.
RunForMachines(u, kind, simulate, stack) ==
    LET s == [Idle EXCEPT !.kind = kind, !.machine = TRUE]
    IN  /\ session[u].pc = "idle"
        /\ \/ /\ ~Compatible
              /\ session' = [session EXCEPT ![u] = Ended(s, "error")]
              /\ UNCHANGED table
           \/ /\ Compatible
              /\ \E reason \in MayRefuse(kind) :
                    session' = [session EXCEPT ![u] = [Ended(s, "error") EXCEPT !.reason = reason]]
              /\ UNCHANGED table
           \/ /\ Compatible /\ Cardinality(table) < MaxCommands
              /\ table' = IF simulate THEN table ELSE StoreFormaCommand(table, Command(u, kind, stack))
              /\ session' = [session EXCEPT ![u] =
                     Ended(s, IF simulate THEN "simulated" ELSE "started")]
        /\ UNCHANGED <<lost, agent, stops>>

-----------------------------------------------------------------------------
\* The agent synchronizes: such commands belong to no user.
SyncCommand ==
    /\ agent = "up" /\ Cardinality(table) < MaxCommands
    /\ table' = StoreFormaCommand(table, [Command("agent", "sync", CHOOSE st \in Stacks : TRUE) EXCEPT !.state = "InProgress"])
    /\ UNCHANGED <<lost, agent, session, stops>>

\* Commands record progress and end.
Progress(c) ==
    /\ agent = "up" /\ c \in table /\ c.state = "NotStarted" /\ c.id \notin lost
    /\ table' = StoreFormaCommand(table, [c EXCEPT !.state = "InProgress"])
    /\ UNCHANGED <<lost, agent, session, stops>>

Finish(c) ==
    /\ agent = "up" /\ c \in table /\ c.state = "InProgress" /\ c.id \notin lost
    /\ \/ table' = StoreFormaCommand(table, [c EXCEPT !.state = "Success"])
       \/ table' = StoreFormaCommand(table, [c EXCEPT !.state = "Failed", !.errors = {"e"}])
    /\ UNCHANGED <<lost, agent, session, stops>>

\* A Read of the command fails in a way that leaves its updater without a
\* handler: the command is not finished by this run of the agent.
ReadHangs(c) ==
    /\ agent = "up" /\ c \in table /\ c.state = "InProgress" /\ c.id \notin lost
    /\ lost' = lost \cup {c.id}
    /\ UNCHANGED <<table, agent, session, stops>>

\* The agent stops, and starts again, perhaps in another version. Only the
\* commands LoadIncompleteFormaCommands returns are run again.
Stop ==
    /\ agent \in {"up", "other"} /\ stops < scene.stops
    /\ agent' = "down" /\ stops' = stops + 1
    /\ lost' = {c.id : c \in table \ LoadIncompleteFormaCommands(table)}
    /\ UNCHANGED <<table, session>>
Start(version) ==
    /\ agent = "down" /\ agent' = version
    /\ UNCHANGED <<table, lost, session, stops>>

Restart == Start("up") \/ Start("other")
Work == \E c \in table : Progress(c) \/ Finish(c)

UserActs(u) ==
    \/ \E q \in scene.queries, n \in MaxResults, w \in BOOLEAN : RunStatus(u, q, n, w)
    \/ \E k \in scene.kinds, s, w \in BOOLEAN : RunSimulation(u, k, s, w)
    \/ Abort(u)
    \/ \E st \in Stacks : Submit(u, st)
    \/ \E k \in scene.kinds, s \in BOOLEAN, st \in Stacks : RunForMachines(u, k, s, st)
    \/ Poll(u)

Activity == \/ \E u \in scene.users : UserActs(u)
            \/ SyncCommand \/ Work \/ Stop \/ Restart
            \/ \E c \in table : ReadHangs(c)

Next == Activity /\ UNCHANGED scene

Spec == Init /\ [][Next]_vars

\* Commands work on as long as the agent is up and no Read of theirs hangs, it
\* is started again, and a watch refreshes every two seconds.
FairSpec ==
    /\ Spec
    /\ WF_vars(Work /\ UNCHANGED scene)
    /\ WF_vars(Restart /\ UNCHANGED scene)
    /\ \A u \in Users : WF_vars(Poll(u) /\ UNCHANGED scene)

-----------------------------------------------------------------------------
Unfinished == {c \in table : c.id \in lost /\ c.state \notin Final}

TypeOK ==
    /\ \A c \in table : /\ c.state \in {"NotStarted", "InProgress"} \cup Final
                        /\ c.id \in 1..MaxCommands
    /\ \A c, d \in table : c.id = d.id => c = d
    /\ scene \in Scenes /\ agent \in {"up", "down", "other"}
    /\ \A u \in Users : /\ session[u].shown # {} => session[u].pc \in {"watching", "ended"}
                          /\ session[u].pc \in {"idle", "confirm", "watching", "ended"}

\* The command of an apply or destroy that was watched to its end is over, and
\* was shown as it ended; none of another user is ever shown.
Own(u) == session[u].kind \in {"apply", "destroy"} /\ session[u].query # <<>>
WatchedIsOver ==
    \A u \in Users : Own(u) /\ session[u].watch /\ session[u].outcome = "done" =>
        /\ session[u].shown # {}
        /\ \A c \in session[u].shown : c \in table /\ c.client = u /\ c.state \in Final

\* The command is what the term asks for.
Values(c, field) == CASE field = "id" -> {c.id}
                      [] field = "client" -> {c.client}
                      [] field = "command" -> {c.command}
                      [] field = "status" -> {c.state}
                      [] field = "stack" -> c.stacks
Answers(c, term, u) ==
    LET value == IF term.field = "client" /\ term.value = "me" THEN u ELSE term.value
    IN  value \in Values(c, term.field) <=> term.constraint # "excluded"

\* What is not asked for is not shown: every term of the query holds of every
\* command in the answer, and there are no more than were asked for.  Of the
\* terms of one field only the last is looked at, so this is about queries
\* that do not repeat the field; and any term on commands, one that excludes
\* some too, makes syncs visible, which are not shown otherwise.
AnswersTheQuestion ==
    \A u \in Users : session[u].kind = "status" =>
        LET terms == session[u].query
            Repeated(i) == \E j \in DOMAIN terms \ {i} : terms[j].field = terms[i].field
        IN  /\ Cardinality(session[u].shown) <= session[u].n
            /\ \A c \in session[u].shown :
                  /\ \A i \in DOMAIN terms : Answers(c, terms[i], u) \/ Repeated(i)
                  /\ c.command = "sync" => \E i \in DOMAIN terms : terms[i].field = "command"

\* The reason for which the agent refuses a command is the one the user is
\* told, through the response code, its typed body and its rendering; for a
\* rejected patch there is no rendering.
RefusalIsShown ==
    \A u \in Users : session[u].reason \in Typed \ {"PatchRejected"} /\ ~session[u].machine =>
        session[u].outcome = session[u].reason

\* The numbers the agent reports agree with the commands there are.
StatsAddUp ==
    LET stats == Stats(table)
        Total(count) == FoldFunction(LAMBDA a, b : a + b, 0, count)
    IN  /\ Total(stats.commands) = Total(stats.states)
        /\ Total(stats.states) = Cardinality({c \in table : c.command # "sync"})
        /\ (stats.errors # {}) <=> (\E c \in table : c.state = "Failed")

\* A watch comes to an end, unless a command it shows was lost when the agent
\* stopped or hangs on a Read (WatchCommandsStatus). A watch of a query, other
\* than one of a single command, also goes on while new commands keep coming:
\* MaxCommands bounds those here.
WatchEnds ==
    \A u \in Users : session[u].pc = "watching" ~>
        (session[u].pc = "ended" \/ session[u].shown \cap Unfinished # {})

\* What a user is shown is true and what was asked for: the end of a watched
\* command, the commands that match a query, the reason of a refusal, and the
\* numbers of the statistics.
ShownIsTrue ==
    TypeOK /\ WatchedIsOver /\ AnswersTheQuestion /\ RefusalIsShown /\ StatsAddUp

=============================================================================
