---------------------------- MODULE MCCommandLine ----------------------------
(***************************************************************************)
(* Instances of CommandLine: two users, who ask for their own commands,    *)
(* for those of others, for syncs, for all but some, for a field twice and *)
(* for what is no field at all.                                            *)
(***************************************************************************)
EXTENDS CommandLine

Term(f, v, c) == [field |-> f, value |-> v, constraint |-> c]

MCUsers == {"ann", "bob"}
\* Two users watch and query side by side, on SQLite.
Both == [users |-> MCUsers, backend |-> "sqlite", kinds |-> {"apply"}, refusals |-> {}, stops |-> 0,
         queries |-> {<<Term("client", "me", "optional")>>,
                      <<Term("client", "me", "required"), Term("client", "bob", "optional")>>}]
\* One user asks whatever can be asked and is refused for whatever reason, on
\* PostgreSQL.
Alone == [users |-> {"ann"}, backend |-> "postgres", kinds |-> {"apply", "destroy"},
          refusals |-> Typed \cup {"other"}, stops |-> 1,
          queries |-> {<<>>,
                       <<Term("client", "me", "optional")>>,
                       <<Term("command", "sync", "required")>>,
                       <<Term("command", "apply", "excluded")>>,
                       <<Term("status", "InProgress", "optional"), Term("stack", "t", "excluded")>>,
                       <<Term("managed", "true", "optional")>>}]
MCScenes == {Both, Alone}

=============================================================================
