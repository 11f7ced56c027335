---------------------------- MODULE CommandTable ----------------------------
(***************************************************************************)
(* The table of commands in both datastores, sqlite.go and postgres.go,    *)
(* and the queries of bluge_querier.go on it.                              *)
(*                                                                         *)
(* A command is [id, client, command, state, stacks, errors]; identifiers  *)
(* are numbers in the order of the timestamps. A query is a sequence of    *)
(* terms [field, value, constraint].                                       *)
(***************************************************************************)
EXTENDS Naturals, Sequences, SequencesExt, FiniteSets

CONSTANT QueryLimit      \* DefaultFormaCommandsQueryLimit

Final == {"Success", "Failed"}

\* INSERT OR REPLACE, ON CONFLICT (command_id) DO UPDATE.
StoreFormaCommand(table, c) == {d \in table : d.id # c.id} \cup {c}
LoadIncompleteFormaCommands(table) ==
    {c \in table : c.command # "sync" /\ c.state = "InProgress"}

\* ORDER BY timestamp DESC LIMIT n.
Latest(table, n) == {c \in table : Cardinality({d \in table : d.id > c.id}) < n}
GetMostRecentFormaCommandByClientID(table, client) ==
    Latest({c \in table : c.client = client}, 1)

-----------------------------------------------------------------------------
NoItem == [constraint |-> "none", value |-> ""]
Fields == {"id", "client", "command", "status", "stack"}

\* processStatusQueryNode: required terms, then optional, then excluded ones.
Rank(term) == CASE term.constraint = "required" -> 1
                [] term.constraint = "optional" -> 2
                [] term.constraint = "excluded" -> 3

\* assignTermToStatusQuery: the last term of a field is the one that counts.
LastOf(of, terms) ==
    terms[CHOOSE i \in of : \A j \in of : \/ Rank(terms[j]) < Rank(terms[i])
                                          \/ Rank(terms[j]) = Rank(terms[i]) /\ j <= i]
statusQuery(terms, client) ==
    [f \in Fields |->
        LET of == {i \in DOMAIN terms : terms[i].field = f}
            term == LastOf(of, terms)
        IN  IF of = {} THEN NoItem
            ELSE [constraint |-> term.constraint,
                  value |-> IF f = "client" /\ term.value = "me" THEN client ELSE term.value]]

\* A query with a term "managed" makes the request panic, since the value is
\* no boolean; other unknown fields are an error.
Panics(terms) == \E i \in DOMAIN terms : terms[i].field = "managed"
InvalidQuery(terms) == \E i \in DOMAIN terms : terms[i].field \notin Fields \cup {"managed"}

\* extendSQLiteQueryString, extendPostgresQueryString.
Compares(item, value) ==
    CASE item.constraint = "none" -> TRUE
      [] item.constraint = "excluded" -> value # item.value
      [] OTHER -> value = item.value

Matches(c, q) ==
    /\ Compares(q["id"], c.id)
    /\ Compares(q["client"], c.client)
    /\ Compares(q["command"], c.command)
    /\ q["command"] = NoItem => c.command # "sync"
    /\ q["stack"] # NoItem => \E s \in c.stacks : Compares(q["stack"], s)
    /\ Compares(q["status"], c.state)

Min2(a, b) == IF a < b THEN a ELSE b

QueryFormaCommandsSQLite(table, q, n) ==
    Latest({c \in table : Matches(c, q)}, IF n > 0 THEN Min2(QueryLimit, n) ELSE QueryLimit)

QueryFormaCommandsPostgres(table, q, n) ==
    LET found == {c \in table : Matches(c, q)}
    IN  IF n > 0 THEN Latest(found, n) ELSE found

\* The part of Stats that is about commands; the errors are those of commands
\* that failed.
CountBy(table, field) ==
    [v \in {c[field] : c \in table} |-> Cardinality({c \in table : c[field] = v})]
Stats(table) ==
    LET users == {c \in table : c.command # "sync"}
    IN  [clients |-> Cardinality({c.client : c \in table}),
         commands |-> CountBy(users, "command"),
         states |-> CountBy(users, "state"),
         errors |-> UNION {c.errors : c \in {d \in table : d.state = "Failed"}}]

=============================================================================
