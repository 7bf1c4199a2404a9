------------------------------ MODULE MCToolbox ------------------------------
(* The parts an application is put together with that share no state with  *)
(* each other, each explored by itself: a behaviour moves the unit it has   *)
(* picked.                                                                  *)
EXTENDS Cache, Config, Container, Scaffold, Commands, TLC

VARIABLE unit

Symmetry == Permutations(Caller) \cup Permutations(Data)

\* Config: two variables of .env, one of which env() has a fallback for, and one the
\* environment has already; values with everything the format gives a meaning to.
Values == {<<>>, <<"#", "a", "SPACE", "a", "#">>, <<"SQUOTE", "BACKSLASH", "n">>,
           <<"DQUOTE", "nl", "BACKSLASH">>, <<"SPACE", "#", "=", "a">>}
Environment == [k \in Key |-> IF k = "R" THEN {<<"n">>} ELSE {}]
Defaults == [k \in Key |-> IF k = "K" THEN {<<"n">>} ELSE {}]

\* Container: a repository made from a database, or without if it must, and a database that
\* needs the repository: a circle.
Graph == [f \in {"makeDb", "loop", "tryRepo"} |->
              CASE f = "makeDb" -> <<>> [] f = "loop" -> <<"Repo">> [] f = "tryRepo" -> <<"Db">>]
Bindings == [t \in Token |-> IF t = "Db" THEN {"makeDb", "loop"} ELSE {"tryRepo"}]

\* Scaffold: selections that need another module, and unknown names.
Modules == {{"http"}, {"auth"}, {"validate"}, {"queue", "mail"}, {"http", "validate"},
            {"database", "events"}, {"payments"}, {}}
Stacks == {{}, Security, {"cors"}, {"errorHandler", "helmet"}}
Databases == {<<"drizzle", "sqlite">>, <<"raw", "postgres">>, <<"knex", "mysql">>}

\* Commands: a name with and without the suffix of its generator.
Names == {[words |-> <<"Order">>, style |-> "kebab"],
          [words |-> <<"Order", "Event">>, style |-> "camel"],
          [words |-> <<"Order", "Event">>, style |-> "kebab"]}
SeederFiles == <<"Admins", "Posts">>

Init == /\ CacheInit /\ ConfigInit /\ ContainerInit /\ ScaffoldInit /\ CommandsInit
        /\ \/ unit = "scaffold" /\ adapter = "drizzle"
           \/ unit = "commands" /\ disk = Absent
           \/ unit \in {"cache", "config", "container"} /\ adapter = "drizzle" /\ disk = Absent

Next == /\ UNCHANGED unit
        /\ \/ /\ unit = "cache" /\ CacheNext
              /\ UNCHANGED <<configVars, containerVars, scaffoldVars, commandVars>>
           \/ /\ unit = "config" /\ ConfigNext
              /\ UNCHANGED <<cacheVars, containerVars, scaffoldVars, commandVars>>
           \/ /\ unit = "container" /\ ContainerNext
              /\ UNCHANGED <<cacheVars, configVars, scaffoldVars, commandVars>>
           \/ /\ unit = "scaffold" /\ ScaffoldNext
              /\ UNCHANGED <<cacheVars, configVars, containerVars, commandVars>>
           \/ /\ unit = "commands" /\ CommandsNext
              /\ UNCHANGED <<cacheVars, configVars, containerVars, scaffoldVars>>

Spec == Init /\ [][Next]_<<unit, cacheVars, configVars, containerVars, scaffoldVars, commandVars>>
=============================================================================
