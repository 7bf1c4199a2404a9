------------------------------ MODULE Commands ------------------------------
(***************************************************************************)
(* The commands `pearl` runs inside a project: the make:* generators, and  *)
(* migrate, db:seed and queue:work, which write a script to node_modules   *)
(* and run it in a child process that boots the application.               *)
(*                                                                         *)
(* A name is the words it is made of and how they are joined; the file of  *)
(* a class is known by the words of its name. Names of one style are kept  *)
(* apart by their words alone.                                             *)
(***************************************************************************)
EXTENDS Naturals, Sequences, FiniteSets

CONSTANTS Name,       \* what the user types: [words, style]
          Kind,       \* the generators in use, beside those of controllers and listeners
          Adapter,    \* the adapters the application may have: drizzle, prisma, typeorm, none
          Seeders,    \* sequence: the files of database/seeders, sorted
          Callable,   \* those of them that export run or a default function
          MaxFiles    \* bound

ASSUME CommandsAssumption ==
    /\ \A n \in Name : n.style \in {"pascal", "camel", "kebab"} /\ n.words \in Seq(STRING)
    /\ Kind \subseteq {"Middleware", "Job", "Mail", "Event", "Request", "Resource"}

VARIABLES adapter,  \* the adapter of the application
          files,    \* what generators wrote: [dir, words, class, handles]
          applied,  \* migrations the database has
          seeded,   \* the seeders the last db:seed ran, in order
          script,   \* node_modules/.pearl holds the script
          cmd       \* the command: where it is, what is left to do, its exit code

commandVars == <<adapter, files, applied, seeded, script, cmd>>

CommandsInit ==
    /\ adapter \in Adapter /\ files = {} /\ applied = {} /\ seeded = <<>> /\ script = FALSE
    /\ cmd = [at |-> "idle", runs |-> "nothing", todo |-> <<>>, tries |-> 0, code |-> 0]
-----------------------------------------------------------------------------
\* Names. A suffix is told by its capital, so "order-placed-event" has none.
Ends(n, suffix) ==
    /\ n.words # <<>> /\ n.words[Len(n.words)] = suffix
    /\ n.style = "pascal" \/ (n.style = "camel" /\ Len(n.words) > 1)

StripSuffix(n, suffix) ==
    IF Ends(n, suffix) THEN [n EXCEPT !.words = SubSeq(@, 1, Len(@) - 1)] ELSE n

ToPascalCase(n) == [n EXCEPT !.style = "pascal"]

Generator == [Middleware |-> "src/middleware", Job |-> "src/jobs", Mail |-> "src/mail",
              Event |-> "src/events", Listener |-> "src/listeners",
              Request |-> "src/requests", Resource |-> "src/resources"]

ClassName(n, kind) == Append(ToPascalCase(StripSuffix(n, kind)).words, kind)

\* The template of every kind puts the suffix back; for controllers the name comes to it
\* the other way round.
Declares(n, kind) == Append(ToPascalCase(StripSuffix(n, kind)).words, kind)
DeclaresController(n) == Append(StripSuffix(ToPascalCase(n), "Controller").words, "Controller")

\* Seeded defect: --event keeps the suffix it was given.
HandlesAsGiven(n) == Append(ToPascalCase(n).words, "Event")
Handles(n) == Declares(n, "Event")

SafeWrite(f, force) ==
    LET there == {g \in files : g.dir = f.dir /\ g.words = f.words} IN
    IF there # {} /\ ~force THEN files ELSE (files \ there) \cup {f}

Makes(f, force) ==
    /\ cmd.at = "idle" /\ Cardinality(files) < MaxFiles
    /\ files' = SafeWrite(f, force)
    /\ UNCHANGED <<adapter, applied, seeded, script, cmd>>

MakeController(n, force) ==
    Makes([dir |-> "src/controllers", words |-> ClassName(n, "Controller"),
           class |-> DeclaresController(n), asked |-> n, handles |-> <<>>], force)

\* make:middleware, job, mail, event, request and resource.
MakeFile(kind, n, force) ==
    Makes([dir |-> Generator[kind], words |-> ClassName(n, kind),
           class |-> Declares(n, kind), asked |-> n, handles |-> <<>>], force)

MakeListener(n, event, force) ==
    Makes([dir |-> Generator["Listener"], words |-> ClassName(n, "Listener"),
           class |-> Declares(n, "Listener"), asked |-> event,
           handles |-> Handles(event)], force)

File(dir, n) == [dir |-> dir, words |-> n.words, class |-> <<>>, asked |-> n, handles |-> <<>>]

\* With --migration, make:model writes a migration as well.
MakeModel(n, migration, force) ==
    LET class == ToPascalCase(StripSuffix(n, "Model")).words
        model == [File("src/models", n) EXCEPT !.words = class, !.class = class]
    IN /\ cmd.at = "idle" /\ Cardinality(files) < MaxFiles
       /\ files' = SafeWrite(model, force)
                   \cup IF migration THEN {File("src/database/migrations", n)} ELSE {}
       /\ UNCHANGED <<adapter, applied, seeded, script, cmd>>

\* The time stamp makes the file a new one.
MakeMigration(n) ==
    /\ cmd.at = "idle" /\ Cardinality(files) < MaxFiles
    /\ files' = files \cup {File("src/database/migrations", n)}
    /\ UNCHANGED <<adapter, applied, seeded, script, cmd>>

\* drizzle-kit, or the user, puts a migration where `pearl migrate` looks.
AddMigration(n) ==
    /\ cmd.at = "idle" /\ Cardinality(files) < MaxFiles
    /\ files' = files \cup {File("database/migrations", n)}
    /\ UNCHANGED <<adapter, applied, seeded, script, cmd>>
-----------------------------------------------------------------------------
Folder(dir) == {f \in files : f.dir = dir}
Moves(place) == cmd' = [cmd EXCEPT !.at = place]
Exits(n) == cmd' = [cmd EXCEPT !.at = "exited", !.code = n]

\* requireBootstrap, then runInProject up to the spawn.
Migrate ==
    /\ cmd.at = "idle"
    /\ \/ Moves("failed") /\ UNCHANGED script
       \/ /\ script' = TRUE
          /\ cmd' = [at |-> "booting", runs |-> "migrate", todo |-> <<>>, tries |-> 0, code |-> 0]
    /\ UNCHANGED <<adapter, files, applied, seeded>>

\* --class names one seeder, or none that is there.
Seed ==
    /\ cmd.at = "idle"
    /\ \E selected \in {Seeders, <<>>} \cup {<<Seeders[i]>> : i \in DOMAIN Seeders} :
          IF selected = <<>>
          THEN Moves("failed") /\ UNCHANGED script
          ELSE /\ script' = TRUE
               /\ cmd' = [at |-> "booting", runs |-> "seed", todo |-> selected, tries |-> 0,
                          code |-> 0]
    /\ seeded' = <<>>
    /\ UNCHANGED <<adapter, files, applied>>

\* queue:work, for a directory that holds job classes.
Work ==
    /\ cmd.at = "idle"
    /\ IF Folder("src/jobs") = {}
       THEN Moves("failed") /\ UNCHANGED script
       ELSE /\ script' = TRUE
            /\ cmd' = [at |-> "booting", runs |-> "work", todo |-> <<>>, tries |-> 0, code |-> 0]
    /\ UNCHANGED <<adapter, files, applied, seeded>>

\* await bootstrap() is outside the try: when it rejects nothing is terminated.
BootstrapApp ==
    /\ cmd.at = "booting"
    /\ Moves(cmd.runs) \/ Exits(1)
    /\ UNCHANGED <<adapter, files, applied, seeded, script>>

Ran(code) == cmd' = [cmd EXCEPT !.at = "terminating", !.code = code]

\* Seeded defect: the last migrator is tried like the others.
DrizzleFailsQuietly ==
    IF cmd.tries < 2 THEN cmd' = [cmd EXCEPT !.tries = @ + 1] ELSE Ran(0)

\* _runDrizzle drops the errors of the first two migrators.
DrizzleFails == IF cmd.tries < 2 THEN cmd' = [cmd EXCEPT !.tries = @ + 1] ELSE Ran(1)

\* Drizzle applies its folder in one transaction. Prisma and TypeORM know their migrations
\* by themselves, and NoneAdapter has none.
RunMigrator ==
    /\ cmd.at = "migrate"
    /\ \/ /\ adapter = "drizzle"
          /\ applied' = applied \cup Folder("database/migrations")
          /\ Ran(0)
       \/ adapter = "drizzle" /\ DrizzleFails /\ UNCHANGED applied
       \/ adapter \in {"prisma", "typeorm"} /\ (Ran(0) \/ Ran(1)) /\ UNCHANGED applied
       \/ adapter = "none" /\ Ran(1) /\ UNCHANGED applied
    /\ UNCHANGED <<adapter, files, seeded, script>>

RunSeeder ==
    /\ cmd.at = "seed"
    /\ IF cmd.todo = <<>> THEN Ran(0) /\ UNCHANGED seeded
       ELSE \/ /\ Head(cmd.todo) \in Callable
               /\ seeded' = Append(seeded, Head(cmd.todo))
               /\ cmd' = [cmd EXCEPT !.todo = Tail(@)]
            \/ Ran(1) /\ UNCHANGED seeded
    /\ UNCHANGED <<adapter, files, applied, script>>

\* Every class of the directory is registered, the worker started; it works until a signal
\* drains it. A second one exits, with 130.
Listen ==
    /\ cmd.at = "work"
    /\ Moves("listening")
    /\ UNCHANGED <<adapter, files, applied, seeded, script>>

Drain ==
    /\ cmd.at = "listening"
    /\ Ran(0) \/ Exits(1) \/ Exits(130)
    /\ UNCHANGED <<adapter, files, applied, seeded, script>>

\* The finally of the script; the rejection of terminate() takes the place of success.
TerminateApp ==
    /\ cmd.at = "terminating"
    /\ Exits(cmd.code) \/ Exits(1)
    /\ UNCHANGED <<adapter, files, applied, seeded, script>>

\* A signalled exit has a null code.
Killed ==
    /\ cmd.at \in {"booting", "migrate", "seed", "work", "listening", "terminating"}
    /\ Exits(128)
    /\ UNCHANGED <<adapter, files, applied, seeded, script>>

\* The parent drops the script and reports.
Report ==
    /\ cmd.at = "exited"
    /\ script' = FALSE
    /\ Moves(IF cmd.code = 0 THEN "done" ELSE "failed")
    /\ UNCHANGED <<adapter, files, applied, seeded>>

NextCommand ==
    /\ cmd.at \in {"done", "failed"}
    /\ Moves("idle")
    /\ UNCHANGED <<adapter, files, applied, seeded, script>>

CommandsNext ==
    \/ \E n \in Name, force \in BOOLEAN :
          \/ MakeController(n, force)
          \/ \E kind \in Kind : MakeFile(kind, n, force)
          \/ \E event \in Name : MakeListener(n, event, force)
          \/ \E migration \in BOOLEAN : MakeModel(n, migration, force)
    \/ \E n \in Name : MakeMigration(n) \/ AddMigration(n)
    \/ Migrate \/ Seed \/ Work \/ BootstrapApp
    \/ RunMigrator \/ RunSeeder \/ Listen \/ Drain \/ TerminateApp \/ Killed
    \/ Report \/ NextCommand

CommandsSpec == CommandsInit /\ [][CommandsNext]_commandVars
-----------------------------------------------------------------------------
\* "Done" is the truth: every migration of the folder is in the database, every selected
\* seeder has run, and the script is gone. Between the work and the message stand three
\* attempts, a finally, the death of the child and its exit code.
DoneIsTrue ==
    cmd.at = "done" =>
        /\ cmd.runs = "migrate" /\ adapter = "drizzle" => Folder("database/migrations") \subseteq applied
        /\ cmd.runs = "seed" => seeded # <<>> /\ cmd.todo = <<>>
        /\ ~script

\* A listener made with --event imports the class that make:event writes for that name.
ListenersFindTheirEvent ==
    \A l, e \in files : (/\ l.dir = "src/listeners" /\ e.dir = "src/events"
                         /\ l.asked = e.asked) => l.handles = e.words /\ l.handles = e.class

\* What make:migration wrote before a successful migrate is in the database.
MadeMigrationsAreApplied ==
    cmd.at = "done" /\ cmd.runs = "migrate" /\ adapter = "drizzle" =>
        Folder("src/database/migrations") \subseteq applied
=============================================================================
