---------------------------- MODULE ToolboxProofs ---------------------------
(***************************************************************************)
(* What holds of the commands of a project for any names, seeders and      *)
(* adapters, of `pearl new' for any flags, of the cache for any keys and   *)
(* sizes, and of events for any listeners. The lemmas on Subsequences come *)
(* before the cache: ranks are a bijection between the places that stay    *)
(* and the numbers up to theirs. Events have two invariants: two frames of *)
(* the stack never run the same call, and what a mapping frame has still   *)
(* to call is waiting; and every subscription is in one place, registered, *)
(* dropped or spent.                                                       *)
(***************************************************************************)
EXTENDS Commands, Scaffold, Cache, Events, FiniteSetTheorems, FunctionTheorems, TLAPS

\* What the message "done" stands for.
Claims ==
    /\ cmd.runs = "migrate" /\ adapter = "drizzle" => Folder("database/migrations") \subseteq applied
    /\ cmd.runs = "seed" => seeded # <<>> /\ cmd.todo = <<>>

\* The phase says what the command is; a db:seed with nothing left to do has run a seeder;
\* and a command that ends with code 0 has done what it claims.
CommandOK ==
    /\ DOMAIN cmd = {"at", "runs", "todo", "tries", "code"}
    /\ cmd.at = "booting" => cmd.runs \in {"migrate", "seed", "work"}
    /\ cmd.at = "booting" /\ cmd.runs = "seed" => cmd.todo # <<>>
    /\ cmd.at \in {"migrate", "seed", "work"} => cmd.runs = cmd.at
    /\ cmd.at = "listening" => cmd.runs = "work"
    /\ cmd.at = "seed" /\ cmd.todo = <<>> => seeded # <<>>
    /\ cmd.at \in {"terminating", "exited"} /\ cmd.code = 0 => Claims
    /\ cmd.at = "done" => Claims /\ ~script

\* What a file was made for decides its names.
FileOK(f) ==
    /\ f.dir = "src/listeners" => f.handles = Handles(f.asked)
    /\ f.dir = "src/events" => /\ f.words = ClassName(f.asked, "Event")
                               /\ f.class = Declares(f.asked, "Event")

FilesOK == \A f \in files : FileOK(f)
-----------------------------------------------------------------------------
\* Generators run while no other command does, and leave the commands alone.
LEMMA Generating ==
    ASSUME CommandOK, FilesOK, cmd.at = "idle",
           UNCHANGED <<adapter, applied, seeded, script, cmd>>,
           NEW f, FileOK(f), files' \subseteq files \cup {f}
    PROVE  CommandOK' /\ FilesOK'
  <1>1. CommandOK'
    BY DEF CommandOK
  <1>2. FilesOK'
    BY DEF FilesOK, FileOK, Handles, ClassName, Declares
  <1> QED
    BY <1>1, <1>2

LEMMA GeneratorSteps ==
    ASSUME CommandOK, FilesOK, NEW n \in Name, NEW force \in BOOLEAN,
           \/ MakeController(n, force)
           \/ \E kind \in Kind : MakeFile(kind, n, force)
           \/ \E event \in Name : MakeListener(n, event, force)
    PROVE  CommandOK' /\ FilesOK'
  <1>1. ASSUME NEW f, FileOK(f), Makes(f, force)
        PROVE  CommandOK' /\ FilesOK'
    <2>1. files' \subseteq files \cup {f}
      BY <1>1 DEF Makes, SafeWrite
    <2> QED
      BY <1>1, <2>1, Generating DEF Makes
  <1>2. CASE MakeController(n, force)
    <2> DEFINE f == [dir |-> "src/controllers", words |-> ClassName(n, "Controller"),
                     class |-> DeclaresController(n), asked |-> n, handles |-> <<>>]
    <2>1. FileOK(f)
      BY DEF FileOK
    <2>2. Makes(f, force)
      BY <1>2 DEF MakeController
    <2> QED
      BY <2>1, <2>2, <1>1
  <1>3. ASSUME NEW kind \in Kind, MakeFile(kind, n, force)
        PROVE  CommandOK' /\ FilesOK'
    <2> DEFINE f == [dir |-> Generator[kind], words |-> ClassName(n, kind),
                     class |-> Declares(n, kind), asked |-> n, handles |-> <<>>]
    <2>1. /\ Generator[kind] # "src/listeners"
          /\ Generator[kind] = "src/events" => kind = "Event"
      BY CommandsAssumption DEF Generator
    <2>2. FileOK(f)
      BY <2>1 DEF FileOK
    <2>3. Makes(f, force)
      BY <1>3 DEF MakeFile
    <2> QED
      BY <2>2, <2>3, <1>1
  <1>4. ASSUME NEW event \in Name, MakeListener(n, event, force)
        PROVE  CommandOK' /\ FilesOK'
    <2> DEFINE f == [dir |-> Generator["Listener"], words |-> ClassName(n, "Listener"),
                     class |-> Declares(n, "Listener"), asked |-> event,
                     handles |-> Handles(event)]
    <2>1. Generator["Listener"] = "src/listeners"
      BY DEF Generator
    <2>2. FileOK(f)
      BY <2>1 DEF FileOK
    <2>3. Makes(f, force)
      BY <1>4 DEF MakeListener
    <2> QED
      BY <2>2, <2>3, <1>1
  <1> QED
    BY <1>2, <1>3, <1>4

LEMMA MigrationSteps ==
    ASSUME CommandOK, FilesOK, NEW n \in Name,
           \/ \E migration \in BOOLEAN, force \in BOOLEAN : MakeModel(n, migration, force)
           \/ MakeMigration(n) \/ AddMigration(n)
    PROVE  CommandOK' /\ FilesOK'
  <1>1. FileOK(File("src/database/migrations", n)) /\ FileOK(File("database/migrations", n))
    BY DEF FileOK, File
  <1>2. CASE MakeMigration(n)
    BY <1>1, <1>2, Generating DEF MakeMigration
  <1>3. CASE AddMigration(n)
    BY <1>1, <1>3, Generating DEF AddMigration
  <1>4. ASSUME NEW migration \in BOOLEAN, NEW force \in BOOLEAN, MakeModel(n, migration, force)
        PROVE  CommandOK' /\ FilesOK'
    <2> DEFINE class == ToPascalCase(StripSuffix(n, "Model")).words
               model == [File("src/models", n) EXCEPT !.words = class, !.class = class]
    <2>1. FileOK(model)
      BY DEF FileOK, File
    <2>2. /\ files' \subseteq files \cup {model, File("src/database/migrations", n)}
          /\ cmd.at = "idle" /\ UNCHANGED <<adapter, applied, seeded, script, cmd>>
      BY <1>4 DEF MakeModel, SafeWrite
    <2> HIDE DEF model
    <2>3. FilesOK'
      BY <1>1, <2>1, <2>2 DEF FilesOK, FileOK, Handles, ClassName, Declares
    <2>4. CommandOK'
      BY <2>2 DEF CommandOK
    <2> QED
      BY <2>3, <2>4
  <1> QED
    BY <1>2, <1>3, <1>4
-----------------------------------------------------------------------------
\* The other commands leave the files alone.
CommandStep ==
    \/ Migrate \/ Seed \/ Work \/ BootstrapApp
    \/ RunMigrator \/ RunSeeder \/ Listen \/ Drain \/ TerminateApp \/ Killed
    \/ Report \/ NextCommand

\* What a step that ends something changes of the command.
ComesTo(place, code) ==
    /\ cmd'.at = place /\ cmd'.code = code
    /\ cmd'.runs = cmd.runs /\ cmd'.todo = cmd.todo
    /\ DOMAIN cmd' = DOMAIN cmd

LEMMA Endings ==
    ASSUME CommandOK, NEW code
    PROVE  /\ Exits(code) => ComesTo("exited", code)
           /\ Ran(code) => ComesTo("terminating", code)
  <1>1. DOMAIN cmd = {"at", "runs", "todo", "tries", "code"}
    BY DEF CommandOK
  <1>2. ASSUME NEW place, cmd' = [cmd EXCEPT !.at = place, !.code = code]
        PROVE  ComesTo(place, code)
    <2>1. cmd'.at = place
      BY <1>1, <1>2
    <2>2. cmd'.code = code
      BY <1>1, <1>2
    <2>3. cmd'.runs = cmd.runs /\ cmd'.todo = cmd.todo
      BY <1>1, <1>2
    <2> QED
      BY <1>2, <2>1, <2>2, <2>3 DEF ComesTo
  <1> QED
    BY <1>2 DEF Exits, Ran

LEMMA CommandSteps ==
    ASSUME CommandOK, CommandStep
    PROVE  CommandOK'
  <1>1. CASE Migrate
    BY <1>1 DEF Migrate, CommandOK, Moves
  <1>2. CASE Seed
    BY <1>2 DEF Seed, CommandOK, Moves
  <1>3. CASE Work
    BY <1>3 DEF Work, CommandOK, Moves
  <1>4. CASE BootstrapApp
    BY <1>4, Endings DEF BootstrapApp, CommandOK, Moves, ComesTo
  <1>5. CASE RunMigrator
    <2>1. CASE adapter = "drizzle" /\ DrizzleFails /\ UNCHANGED applied
      BY <1>5, <2>1, Endings DEF RunMigrator, CommandOK, DrizzleFails, ComesTo
    <2>2. CASE ~(adapter = "drizzle" /\ DrizzleFails /\ UNCHANGED applied)
      <3>1. ComesTo("terminating", 0) \/ ComesTo("terminating", 1)
        BY <1>5, <2>2, Endings DEF RunMigrator
      <3>2. ComesTo("terminating", 0) => Claims'
        BY <1>5, <2>2 DEF RunMigrator, CommandOK, Claims, Folder, ComesTo
      <3> QED
        BY <1>5, <3>1, <3>2 DEF RunMigrator, CommandOK, ComesTo
    <2> QED
      BY <2>1, <2>2
  <1>6. CASE RunSeeder
    BY <1>6, Endings DEF RunSeeder, CommandOK, Claims, ComesTo
  <1>7. CASE Listen \/ Drain
    BY <1>7, Endings DEF Listen, Drain, CommandOK, Claims, Moves, ComesTo
  <1>8. CASE TerminateApp
    <2>1. /\ cmd.at = "terminating" /\ UNCHANGED <<adapter, files, applied, seeded, script>>
          /\ ComesTo("exited", cmd.code) \/ ComesTo("exited", 1)
      BY <1>8, Endings DEF TerminateApp
    <2> QED
      BY <2>1 DEF CommandOK, Claims, Folder, ComesTo
  <1>9. CASE Killed
    BY <1>9, Endings DEF Killed, CommandOK, ComesTo
  <1>10. CASE Report
    BY <1>10 DEF Report, CommandOK, Claims, Folder, Moves
  <1>11. CASE NextCommand
    BY <1>11 DEF NextCommand, CommandOK, Moves
  <1> QED
    BY <1>1, <1>2, <1>3, <1>4, <1>5, <1>6, <1>7, <1>8, <1>9, <1>10, <1>11 DEF CommandStep

LEMMA CommandsStep == CommandOK /\ FilesOK /\ [CommandsNext]_commandVars => CommandOK' /\ FilesOK'
  <1> SUFFICES ASSUME CommandOK, FilesOK, [CommandsNext]_commandVars
               PROVE  CommandOK' /\ FilesOK'
    OBVIOUS
  <1>1. CASE UNCHANGED commandVars
    BY <1>1 DEF commandVars, CommandOK, Claims, Folder, FilesOK
  <1>2. CASE CommandStep
    <2>1. UNCHANGED files
      BY <1>2 DEF CommandStep, Migrate, Seed, Work, BootstrapApp, RunMigrator, RunSeeder,
                  Listen, Drain, TerminateApp, Killed, Report, NextCommand
    <2> QED
      BY <1>2, <2>1, CommandSteps DEF FilesOK
  <1> QED
    BY <1>1, <1>2, GeneratorSteps, MigrationSteps DEF CommandsNext, CommandStep

LEMMA CommandsStart == CommandsInit => CommandOK /\ FilesOK
  BY DEF CommandsInit, CommandOK, FilesOK

\* The inductive invariant: what the phases of a command know, and what names files have.
THEOREM CommandsInvariance == CommandsSpec => [](CommandOK /\ FilesOK)
  BY CommandsStart, CommandsStep, PTL DEF CommandsSpec

\* For any seeders, migrations and adapters, with every failure of the child process:
\* "done" is said only of what was done.
THEOREM DoneIsNeverFalse == CommandsSpec => []DoneIsTrue
  <1>1. CommandOK => DoneIsTrue
    BY DEF CommandOK, Claims, DoneIsTrue
  <1> QED
    BY <1>1, CommandsInvariance, PTL

\* For any names and orders of generators, forced or not: a listener and the event made for
\* the same name meet.
THEOREM ListenersMeetEvents == CommandsSpec => []ListenersFindTheirEvent
  <1>1. FilesOK => ListenersFindTheirEvent
    BY DEF FilesOK, FileOK, Handles, ClassName, Declares, ListenersFindTheirEvent
  <1> QED
    BY <1>1, CommandsInvariance, PTL
-----------------------------------------------------------------------------
\* A selection that went through normalizeSelection, or that leaves nothing to normalize:
\* middleware needs http, as auth and validate do, and a database a driver.
SelectionOK(sel) ==
    /\ sel.modules \subseteq Module /\ sel.security \subseteq Security
    /\ sel.security # {} => "http" \in sel.modules
    /\ sel.db # NoDb => DOMAIN sel.db = {1, 2} /\ sel.db[2] \in Driver
    /\ "database" \in sel.modules => sel.db # NoDb

Written(sel) == [mine |-> FALSE, dirs |-> Dirs(sel), imports |-> Imports(sel),
                 deps |-> Deps(sel), env |-> EnvExample(sel)]

\* A chosen selection is in order, and what is on disk afterwards is what it asks for.
ScaffoldOK ==
    /\ DOMAIN new = {"at", "flags", "sel"}
    /\ new.at \in {"found", "choosing"} => new.flags \in Flags
    /\ new.at \in {"chosen", "written", "done"} => SelectionOK(new.sel)
    /\ new.at \in {"written", "done"} => disk = Written(new.sel)

\* The presets ask for nothing they do not bring.
LEMMA Presets ==
    ASSUME NEW p \in DOMAIN Preset
    PROVE  /\ PresetSelection(p).modules \subseteq Module
           /\ PresetSelection(p).security \subseteq Security
           /\ PresetSelection(p).security # {} => "http" \in PresetSelection(p).modules
  BY DEF PresetSelection, Preset, Module, Security

\* normalizeSelection puts a selection in order, but for a database that is yet to be asked.
LEMMA Normalized ==
    ASSUME NEW sel, sel.modules \subseteq Module, sel.security \subseteq Security,
           sel.db # NoDb => DOMAIN sel.db = {1, 2} /\ sel.db[2] \in Driver
    PROVE  /\ Normalize(sel).modules \subseteq Module
           /\ "database" \in Normalize(sel).modules => "database" \in sel.modules
           /\ "database" \in sel.modules /\ sel.db # NoDb => SelectionOK(Normalize(sel))
           /\ \A db : /\ db # NoDb => DOMAIN db = {1, 2} /\ db[2] \in Driver
                      /\ "database" \in sel.modules => db # NoDb
                      => SelectionOK([Normalize(sel) EXCEPT !.db = db])
           /\ "database" \notin sel.modules => SelectionOK(Normalize(sel))
  BY DEF Normalize, SelectionOK, Module

\* Flags that are not refused give a selection in order.
LEMMA FlagsAreInOrder ==
    ASSUME ScaffoldAssumption, NEW f \in Flags, ~Refused(f)
    PROVE  SelectionOK(SelectionFromFlags(f))
  <1> DEFINE base == Base(f)
             modules == base.modules \cup (IF f.db # NoDb THEN {"database"} ELSE {})
             security == IF f.security # NotGiven THEN f.security ELSE base.security
             db == CASE f.db # NoDb -> f.db
                     [] f.db = NoDb /\ "database" \in modules -> <<"drizzle", "postgres">>
                     [] OTHER -> NoDb
             sel == [modules |-> modules, security |-> security, db |-> db]
  <1>1. base.modules \subseteq Module /\ base.security \subseteq Security
    <2>1. CASE f.modules # NotGiven
      BY <2>1 DEF Base, Refused
    <2>2. CASE f.modules = NotGiven /\ f.preset \in DOMAIN Preset
      BY <2>2, Presets DEF Base
    <2>3. CASE f.modules = NotGiven /\ f.preset \notin DOMAIN Preset
      <3>1. "minimal" \in DOMAIN Preset
        BY DEF Preset
      <3> QED
        BY <2>3, <3>1, Presets DEF Base
    <2> QED
      BY <2>1, <2>2, <2>3
  <1>2. modules \subseteq Module
    BY <1>1 DEF Module
  <1>3. security \subseteq Security
    BY <1>1 DEF Refused
  <1>4. db # NoDb => DOMAIN db = {1, 2} /\ db[2] \in Driver
    <2>1. CASE f.db # NoDb
      BY <2>1 DEF ScaffoldAssumption, Flags, Refused
    <2>2. CASE f.db = NoDb /\ "database" \in modules
      BY <2>2 DEF Driver
    <2>3. CASE f.db = NoDb /\ "database" \notin modules
      BY <2>3
    <2> QED
      BY <2>1, <2>2, <2>3
  <1>5. "database" \in modules => db # NoDb
    BY DEF NoDb
  <1>6. SelectionFromFlags(f) = Normalize(sel)
    BY DEF SelectionFromFlags
  <1> HIDE DEF modules, security, db
  <1> QED
    BY <1>2, <1>3, <1>4, <1>5, <1>6, Normalized

\* So does every way through the prompts.
LEMMA PromptsAreInOrder ==
    ASSUME NEW sel \in Prompted
    PROVE  SelectionOK(sel)
  <1>0. PICK given \in Picked :
            \E db \in IF "database" \in given.modules THEN Orm \X Driver ELSE {NoDb} :
                sel = [Normalize(given) EXCEPT !.db = db]
    BY DEF Prompted
  <1>1. PICK db \in IF "database" \in given.modules THEN Orm \X Driver ELSE {NoDb} :
            sel = [Normalize(given) EXCEPT !.db = db]
    BY <1>0
  <1>2. /\ given.modules \subseteq Module /\ given.security \subseteq Security
        /\ given.db = NoDb
    <2>1. CASE \E p \in DOMAIN Preset : given = PresetSelection(p)
      <3>1. PICK p \in DOMAIN Preset : given = PresetSelection(p)
        BY <2>1
      <3> QED
        BY <3>1, Presets DEF PresetSelection
    <2>2. ASSUME NEW m \in AskedModules, m \subseteq Module,
                 NEW s, s = {} \/ s \subseteq Security,
                 given = [modules |-> m, security |-> s, db |-> NoDb]
          PROVE  /\ given.modules \subseteq Module /\ given.security \subseteq Security
                 /\ given.db = NoDb
      BY <2>2
    <2>3. given \in {PresetSelection(p) : p \in DOMAIN Preset}
          \/ \E m \in {n \in AskedModules : n \subseteq Module} :
                given \in {[modules |-> m, security |-> s, db |-> NoDb] :
                              s \in IF "http" \in Normalize([modules |-> m, security |-> {},
                                                             db |-> NoDb]).modules
                                    THEN {t \in AskedSecurity : t \subseteq Security}
                                    ELSE {{}}}
      BY DEF Picked
    <2> QED
      BY <2>1, <2>2, <2>3
  <1>3. /\ db # NoDb => DOMAIN db = {1, 2} /\ db[2] \in Driver
        /\ "database" \in given.modules => db # NoDb
    BY <1>1 DEF NoDb, Orm, Driver
  <1> QED
    BY <1>1, <1>2, <1>3, Normalized

\* Every file has its directory, and every import its file or its package.
LEMMA FilesFit ==
    ASSUME NEW sel, SelectionOK(sel)
    PROVE  \A f \in DOMAIN Imports(sel) :
              /\ DirOf(f) \in Dirs(sel)
              /\ Imports(sel)[f] \subseteq Deps(sel) \cup DOMAIN Imports(sel)
  <1>1. sel.security \subseteq Security /\ sel.modules \subseteq Module
    BY DEF SelectionOK
  <1>2. sel.modules \subseteq Deps(sel)
    <2>1. \A m \in Module : m \in ModuleDeps[m]
      BY DEF ModuleDeps
    <2> QED
      BY <1>1, <2>1 DEF Deps
  <1>3. {"core", "dotenv", "vitest"} \subseteq Deps(sel)
    BY DEF Deps
  <1>4. /\ EntryFile(sel) \in {"src/server.ts", "src/worker.ts"}
        /\ EntryFile(sel) = "src/server.ts" => "http" \in sel.modules
    BY DEF EntryFile
  <1>5. ASSUME NEW f \in SourceFiles(sel)
        PROVE  DirOf(f) \in Dirs(sel)
    BY <1>1, <1>4 DEF SourceFiles, DirOf, Dirs, Security
  <1>6. /\ \A f \in SourceFiles(sel) : Imports(sel)[f] = ImportsOf(f, sel)
        /\ ImportsOf("src/server.ts", sel) = ServerImports(sel)
        /\ ImportsOf("src/worker.ts", sel) = WorkerImports
        /\ ImportsOf("src/bootstrap.ts", sel) = BootstrapImports(sel)
        /\ ImportsOf("src/providers/AppServiceProvider.ts", sel) = {"core"}
        /\ ImportsOf("tests/example.test.ts", sel) = {"vitest"}
        /\ ImportsOf("vitest.config.ts", sel) = {"vitest"}
        /\ ImportsOf("database/seeders/DatabaseSeeder.ts", sel) = {"core", "database"}
        /\ \A f \in Security : ImportsOf(f, sel) = MiddlewareImports(f, sel)
    BY DEF Imports, ImportsOf, Security
  <1>7. ASSUME NEW f \in SourceFiles(sel)
        PROVE  Imports(sel)[f] \subseteq Deps(sel) \cup SourceFiles(sel)
    <2>1. CASE f = EntryFile(sel)
      BY <1>1, <1>2, <1>4, <1>6, <2>1 DEF SourceFiles, ServerImports, WorkerImports
    <2>2. CASE f = "src/bootstrap.ts"
      BY <1>1, <1>2, <1>3, <1>6, <2>2 DEF SourceFiles, BootstrapImports
    <2>3. CASE f \in sel.security
      <3>1. "http" \in sel.modules
        BY <2>3 DEF SelectionOK
      <3>2. MiddlewareImports(f, sel) \subseteq sel.modules
        BY <3>1 DEF MiddlewareImports
      <3>3. Imports(sel)[f] = MiddlewareImports(f, sel)
        BY <1>1, <1>6, <2>3 DEF SourceFiles
      <3> QED
        BY <1>2, <3>2, <3>3
    <2>4. CASE f = "database/seeders/DatabaseSeeder.ts"
      BY <1>1, <1>2, <1>3, <1>4, <1>6, <2>4 DEF SourceFiles, Security
    <2>5. CASE f \in {"src/providers/AppServiceProvider.ts", "tests/example.test.ts",
                      "vitest.config.ts"}
      BY <1>3, <1>6, <2>5
    <2> QED
      BY <2>1, <2>2, <2>3, <2>4, <2>5 DEF SourceFiles
  <1> QED
    BY <1>5, <1>7 DEF Imports

LEMMA ScaffoldSteps ==
    ScaffoldAssumption /\ ScaffoldOK /\ [ScaffoldNext]_scaffoldVars => ScaffoldOK'
  <1> SUFFICES ASSUME ScaffoldAssumption, ScaffoldOK, [ScaffoldNext]_scaffoldVars
               PROVE  ScaffoldOK'
    OBVIOUS
  <1>1. CASE UNCHANGED scaffoldVars
    BY <1>1 DEF scaffoldVars, ScaffoldOK
  <1>2. ASSUME NEW f \in Flags, Start(f) PROVE ScaffoldOK'
    BY <1>2 DEF Start, ScaffoldOK
  <1>3. CASE KeepDirectory
    BY <1>3 DEF KeepDirectory, Goes, ScaffoldOK
  <1>4. CASE Overwrite
    BY <1>4 DEF Overwrite, Goes, ScaffoldOK
  <1>5. CASE ChooseByFlags
    BY <1>5, FlagsAreInOrder DEF ChooseByFlags, Goes, ScaffoldOK
  <1>6. CASE ChooseByPrompt
    BY <1>6, PromptsAreInOrder DEF ChooseByPrompt, Goes, ScaffoldOK
  <1>7. CASE Decline
    BY <1>7 DEF Decline, Goes, ScaffoldOK
  <1>8. CASE WriteFiles
    BY <1>8 DEF WriteFiles, Goes, ScaffoldOK, Written
  <1>9. CASE Install
    BY <1>9 DEF Install, Goes, ScaffoldOK
  <1> QED
    BY <1>1, <1>2, <1>3, <1>4, <1>5, <1>6, <1>7, <1>8, <1>9 DEF ScaffoldNext

\* The inductive invariant of `pearl new': what it writes is what a selection in order asks for.
THEOREM ScaffoldInvariance == ScaffoldSpec => []ScaffoldOK
  <1>1. ScaffoldInit => ScaffoldOK
    BY DEF ScaffoldInit, ScaffoldOK
  <1> QED
    BY <1>1, ScaffoldSteps, ScaffoldAssumption, PTL DEF ScaffoldSpec

\* For any flags, prompts and directories: an application that was written has a directory
\* for every file, every import it makes, the setting of everything it reads, and the
\* driver of its database.
THEOREM WhatIsNewRuns == ScaffoldSpec => []NewApplicationRuns
  <1>1. ASSUME ScaffoldOK, new.at = "done"
        PROVE  /\ \A f \in DOMAIN disk.imports :
                     /\ DirOf(f) \in disk.dirs
                     /\ disk.imports[f] \subseteq disk.deps \cup DOMAIN disk.imports
               /\ Main(new.sel) \in DOMAIN disk.imports
               /\ Reads(new.sel) \subseteq disk.env
               /\ "database" \in new.sel.modules => disk.deps \cap Driver # {}
    <2>1. PICK sel : sel = new.sel
      OBVIOUS
    <2>2. SelectionOK(sel) /\ disk = Written(sel)
      BY <1>1, <2>1 DEF ScaffoldOK
    <2>3. Main(sel) \in DOMAIN Imports(sel)
      BY DEF Main, EntryFile, Imports, SourceFiles
    <2>4. Reads(sel) \subseteq EnvExample(sel)
      BY <2>2 DEF Reads, EntryFile, EnvExample
    <2>5. ASSUME "database" \in sel.modules PROVE Deps(sel) \cap Driver # {}
      <3>1. sel.db[2] \in Driver /\ 2 \in DOMAIN sel.db
        BY <2>2, <2>5 DEF SelectionOK
      <3>2. sel.db[2] \in DbDeps(sel.db)
        BY <3>1 DEF DbDeps, Driver
      <3> QED
        BY <3>1, <3>2 DEF Deps
    <2> QED
      BY <2>1, <2>2, <2>3, <2>4, <2>5, FilesFit DEF Written
  <1> QED
    BY <1>1, ScaffoldInvariance, PTL DEF NewApplicationRuns
-----------------------------------------------------------------------------
\* Ranks tell places apart, and go from 1 to their number.
LEMMA Ranks ==
    ASSUME NEW I \in SUBSET Nat, IsFiniteSet(I)
    PROVE  /\ Cardinality(I) \in Nat
           /\ \A i \in I : Rank(I, i) \in 1..Cardinality(I)
           /\ \A i, j \in I : i < j => Rank(I, i) < Rank(I, j)
           /\ \A k \in 1..Cardinality(I) : \E i \in I : Rank(I, i) = k
  <1> DEFINE n == Cardinality(I)
             upTo(i) == {j \in I : j <= i}
             rank == [i \in I |-> Rank(I, i)]
  <1>1. n \in Nat
    BY FS_CardinalityType
  <1>2. ASSUME NEW i \in I
        PROVE  /\ IsFiniteSet(upTo(i)) /\ Cardinality(upTo(i)) \in 1..n
               /\ Rank(I, i) = Cardinality(upTo(i))
    <2>1. upTo(i) \in SUBSET I /\ i \in upTo(i)
      OBVIOUS
    <2>2. IsFiniteSet(upTo(i)) /\ Cardinality(upTo(i)) <= n
      BY <2>1, FS_Subset
    <2>3. Cardinality(upTo(i)) \in Nat /\ Cardinality(upTo(i)) # 0
      BY <2>1, <2>2, FS_CardinalityType, FS_EmptySet
    <2>4. Rank(I, i) = Cardinality(upTo(i))
      BY DEF Rank
    <2> HIDE DEF upTo, n
    <2> QED
      BY <1>1, <2>2, <2>3, <2>4
  <1>3. ASSUME NEW i \in I, NEW j \in I, i < j
        PROVE  Rank(I, i) < Rank(I, j)
    <2>0. i \in Nat /\ j \in Nat
      OBVIOUS
    <2>1. upTo(i) \in SUBSET upTo(j) /\ j \in upTo(j) /\ j \notin upTo(i)
      <3>1. ASSUME NEW h \in I, h <= i PROVE h <= j
        <4>1. h \in Nat
          OBVIOUS
        <4> QED
          BY <1>3, <2>0, <3>1, <4>1
      <3>2. j <= j /\ ~(j <= i)
        BY <1>3, <2>0
      <3> QED
        BY <3>1, <3>2
    <2>2. /\ IsFiniteSet(upTo(j)) /\ Cardinality(upTo(i)) <= Cardinality(upTo(j))
          /\ Cardinality(upTo(i)) # Cardinality(upTo(j))
      BY <1>2, <2>1, FS_Subset
    <2>3. /\ Rank(I, i) = Cardinality(upTo(i)) /\ Rank(I, j) = Cardinality(upTo(j))
          /\ Rank(I, i) \in Nat /\ Rank(I, j) \in Nat
      BY <1>1, <1>2
    <2> HIDE DEF upTo
    <2> QED
      BY <2>2, <2>3
  <1>4. rank \in Injection(I, 1..n)
    <2>1. rank \in [I -> 1..n]
      BY <1>2
    <2>2. \A i, j \in I : rank[i] = rank[j] => i = j
      <3> SUFFICES ASSUME NEW i \in I, NEW j \in I, i # j
                   PROVE  rank[i] # rank[j]
        OBVIOUS
      <3>1. rank[i] = Rank(I, i) /\ rank[j] = Rank(I, j)
        OBVIOUS
      <3>2. Rank(I, i) \in Nat /\ Rank(I, j) \in Nat
        <4> HIDE DEF rank, upTo
        <4> QED
          BY <1>1, <1>2
      <3>3. i < j \/ j < i
        OBVIOUS
      <3> HIDE DEF rank
      <3> QED
        BY <1>3, <3>1, <3>2, <3>3
    <2> HIDE DEF rank, n
    <2> QED
      BY <2>1, <2>2, Fun_IsInj
  <1>5. rank \in Surjection(I, 1..n)
    <2>1. IsFiniteSet(1..n) /\ Cardinality(1..n) = n
      BY <1>1, FS_Interval
    <2> HIDE DEF rank
    <2> QED
      BY <1>4, <2>1, FS_Injection
  <1>6. \A k \in 1..n : \E i \in I : rank[i] = k
    <2> HIDE DEF rank, n
    <2> QED
      BY <1>5, Fun_SurjectionProperties
  <1> QED
    BY <1>1, <1>2, <1>3, <1>6

\* The k-th place is one of them, and its rank is k.
LEMMA NthIsThere ==
    ASSUME NEW I \in SUBSET Nat, IsFiniteSet(I), NEW k \in 1..Cardinality(I)
    PROVE  Nth(I, k) \in I /\ Rank(I, Nth(I, k)) = k
  BY Ranks DEF Nth

LEMMA NthOfRank ==
    ASSUME NEW I \in SUBSET Nat, IsFiniteSet(I), NEW i \in I
    PROVE  Nth(I, Rank(I, i)) = i
  <1>1. Rank(I, i) \in 1..Cardinality(I) /\ Cardinality(I) \in Nat
    BY Ranks
  <1>2. PICK k : k = Rank(I, i)
    OBVIOUS
  <1>3. PICK j : j = Nth(I, k)
    OBVIOUS
  <1>4. j \in I /\ Rank(I, j) = k
    BY <1>1, <1>2, <1>3, NthIsThere
  <1>5. j = i
    <2>1. ~(j < i) /\ ~(i < j)
      BY <1>1, <1>2, <1>4, Ranks
    <2> QED
      BY <1>4, <2>1
  <1> QED
    BY <1>2, <1>3, <1>5

\* Only keeps the elements at I, all of them, each once, in order.
LEMMA OnlyKeeps ==
    ASSUME NEW s, NEW I \in SUBSET Nat, IsFiniteSet(I)
    PROVE  /\ Cardinality(I) \in Nat /\ DOMAIN Only(s, I) = 1..Cardinality(I)
           /\ \A k \in DOMAIN Only(s, I) : Nth(I, k) \in I /\ Only(s, I)[k] = s[Nth(I, k)]
           /\ \A k, l \in DOMAIN Only(s, I) : k < l => Nth(I, k) < Nth(I, l)
           /\ \A i \in I : \E k \in DOMAIN Only(s, I) : Nth(I, k) = i
  <1>1. Cardinality(I) \in Nat /\ DOMAIN Only(s, I) = 1..Cardinality(I)
    BY Ranks DEF Only
  <1>2. \A k \in DOMAIN Only(s, I) : Nth(I, k) \in I /\ Only(s, I)[k] = s[Nth(I, k)]
    BY NthIsThere DEF Only
  <1>3. ASSUME NEW k \in 1..Cardinality(I), NEW l \in 1..Cardinality(I), k < l
        PROVE  Nth(I, k) < Nth(I, l)
    <2>1. PICK i : i = Nth(I, k)
      OBVIOUS
    <2>2. PICK j : j = Nth(I, l)
      OBVIOUS
    <2>3. i \in I /\ j \in I /\ Rank(I, i) = k /\ Rank(I, j) = l
      BY <2>1, <2>2, NthIsThere
    <2>4. i # j /\ ~(j < i)
      BY <1>1, <1>3, <2>3, Ranks
    <2> QED
      BY <2>1, <2>2, <2>3, <2>4
  <1>4. \A i \in I : \E k \in 1..Cardinality(I) : Nth(I, k) = i
    BY Ranks, NthOfRank
  <1> QED
    BY <1>1, <1>2, <1>3, <1>4

\* All of a sequence is the sequence.
LEMMA OnlyAll ==
    ASSUME NEW T, NEW s \in Seq(T)
    PROVE  Only(s, DOMAIN s) = s
  <1>1. PICK n \in Nat : n = Len(s) /\ DOMAIN s = 1..n
    OBVIOUS
  <1>2. IsFiniteSet(1..n) /\ Cardinality(1..n) = n
    BY FS_Interval
  <1>3. ASSUME NEW k \in 1..n PROVE Nth(1..n, k) = k
    <2>1. {j \in 1..n : j <= k} = 1..k
      OBVIOUS
    <2>2. Rank(1..n, k) = k
      <3>1. Rank(1..n, k) = Cardinality(1..k)
        BY <2>1 DEF Rank
      <3> QED
        BY <3>1, FS_Interval
    <2> QED
      BY <1>2, <2>2, NthOfRank
  <1>4. Only(s, 1..n) = [k \in 1..n |-> s[k]]
    BY <1>2, <1>3 DEF Only
  <1> QED
    BY <1>1, <1>4

\* A finite set of numbers has a least and a greatest.
LEMMA Extremes ==
    ASSUME NEW S \in SUBSET Nat, IsFiniteSet(S), S # {}
    PROVE  /\ \E x \in S : \A y \in S : x <= y
           /\ \E x \in S : \A y \in S : x >= y
  <1>1. PICK n \in Nat : n = Cardinality(S)
    BY Ranks
  <1>2. n # 0
    BY <1>1, FS_EmptySet
  <1>3. PICK x \in S : Rank(S, x) = 1
    BY <1>1, <1>2, Ranks
  <1>4. PICK z \in S : Rank(S, z) = n
    BY <1>1, <1>2, Ranks
  <1>5. \A y \in S : Rank(S, y) \in 1..n /\ (y < x => Rank(S, y) < 1) /\ (z < y => n < Rank(S, y))
    BY <1>1, <1>3, <1>4, Ranks
  <1>6. \A y \in S : x <= y /\ z >= y
    BY <1>5
  <1> QED
    BY <1>6

\* The elements that are kept, that are added, and that two sequences have between them.
LEMMA OnlySome ==
    ASSUME NEW T, NEW s \in Seq(T), NEW I \in SUBSET DOMAIN s
    PROVE  Only(s, I) \in Seq(T) /\ ToSet(Only(s, I)) = {s[i] : i \in I}
  <1>1. I \in SUBSET Nat /\ IsFiniteSet(I)
    <2>1. PICK n \in Nat : DOMAIN s = 1..n
      OBVIOUS
    <2> QED
      BY <2>1, FS_Interval, FS_Subset
  <1>2. PICK t : t = Only(s, I)
    OBVIOUS
  <1>3. PICK n \in Nat : n = Cardinality(I) /\ DOMAIN t = 1..n
    BY <1>1, <1>2, OnlyKeeps
  <1>4. /\ \A k \in 1..n : Nth(I, k) \in I /\ t[k] = s[Nth(I, k)]
        /\ \A i \in I : \E k \in 1..n : Nth(I, k) = i
    BY <1>1, <1>2, <1>3, OnlyKeeps
  <1>5. t = [k \in 1..n |-> s[Nth(I, k)]]
    BY <1>2, <1>3 DEF Only
  <1>6. t \in Seq(T)
    <2>1. \A k \in 1..n : t[k] \in T
      BY <1>4
    <2>2. \A k \in 1..n : s[Nth(I, k)] \in T
      BY <1>4
    <2> QED
      BY <1>3, <1>5, <2>2
  <1>7. {t[k] : k \in 1..n} = {s[i] : i \in I}
    BY <1>4
  <1> QED
    BY <1>2, <1>3, <1>6, <1>7 DEF ToSet

LEMMA Growing ==
    ASSUME NEW T, NEW s \in Seq(T)
    PROVE  /\ ToSet(s) \in SUBSET T
           /\ \A x \in T : Append(s, x) \in Seq(T) /\ ToSet(Append(s, x)) = ToSet(s) \cup {x}
           /\ \A t \in Seq(T) : s \o t \in Seq(T) /\ ToSet(s \o t) = ToSet(s) \cup ToSet(t)
  <1>1. ASSUME NEW x \in T
        PROVE  Append(s, x) \in Seq(T) /\ ToSet(Append(s, x)) = ToSet(s) \cup {x}
    <2>1. PICK n \in Nat : n = Len(s) /\ DOMAIN s = 1..n
      OBVIOUS
    <2>2. PICK a : a = Append(s, x)
      OBVIOUS
    <2>3. a \in Seq(T) /\ DOMAIN a = 1..(n + 1) /\ a[n + 1] = x /\ \A i \in 1..n : a[i] = s[i]
      BY <2>1, <2>2
    <2>4. {a[i] : i \in 1..(n + 1)} = {s[i] : i \in 1..n} \cup {x}
      <3>1. \A i \in 1..(n + 1) : i \in 1..n \/ i = n + 1
        OBVIOUS
      <3>2. \A i \in 1..n : i \in 1..(n + 1)
        OBVIOUS
      <3>3. n + 1 \in 1..(n + 1)
        OBVIOUS
      <3> QED
        BY <2>3, <3>1, <3>2, <3>3
    <2> QED
      BY <2>1, <2>2, <2>3, <2>4 DEF ToSet
  <1>2. ASSUME NEW t \in Seq(T)
        PROVE  s \o t \in Seq(T) /\ ToSet(s \o t) = ToSet(s) \cup ToSet(t)
    <2>1. PICK n \in Nat : n = Len(s) /\ DOMAIN s = 1..n
      OBVIOUS
    <2>2. PICK m \in Nat : m = Len(t) /\ DOMAIN t = 1..m
      OBVIOUS
    <2>3. PICK a : a = s \o t
      OBVIOUS
    <2>4. /\ a \in Seq(T) /\ DOMAIN a = 1..(n + m)
          /\ \A i \in 1..n : a[i] = s[i]
          /\ \A i \in 1..m : a[n + i] = t[i]
      BY <2>1, <2>2, <2>3
    <2>5. {a[i] : i \in 1..(n + m)} = {s[i] : i \in 1..n} \cup {t[i] : i \in 1..m}
      <3>1. \A i \in 1..(n + m) : i \in 1..n \/ (i - n \in 1..m /\ n + (i - n) = i)
        OBVIOUS
      <3>2. \A i \in 1..n : i \in 1..(n + m)
        OBVIOUS
      <3>3. \A i \in 1..m : n + i \in 1..(n + m)
        OBVIOUS
      <3>4. ASSUME NEW i \in 1..(n + m)
            PROVE  a[i] \in {s[j] : j \in 1..n} \cup {t[j] : j \in 1..m}
        BY <2>4, <3>1
      <3>5. /\ \A i \in 1..n : s[i] \in {a[j] : j \in 1..(n + m)}
            /\ \A i \in 1..m : t[i] \in {a[j] : j \in 1..(n + m)}
        BY <2>4, <3>2, <3>3
      <3> QED
        BY <3>4, <3>5
    <2>6. ToSet(s) = {s[i] : i \in 1..n} /\ ToSet(t) = {t[i] : i \in 1..m}
      BY <2>1, <2>2 DEF ToSet
    <2>7. ToSet(a) = {a[i] : i \in 1..(n + m)}
      BY <2>4 DEF ToSet
    <2> QED
      BY <2>3, <2>4, <2>5, <2>6, <2>7
  <1>3. ToSet(s) \in SUBSET T
    BY DEF ToSet
  <1> QED
    BY <1>1, <1>2, <1>3
-----------------------------------------------------------------------------
\* A store that is in order: one entry for a key, and no more than maxEntries.
CacheEntry == [key : Data \cup Counter, value : Nat, expires : Nat]

IsStore(s) ==
    /\ s \in Seq(CacheEntry) /\ Len(s) <= MaxEntries
    /\ \A i, j \in DOMAIN s : s[i].key = s[j].key => i = j

\* What is known of a cached value of a data key, and of one that is about to be stored: it
\* was read from the source, and not before the last put or forget, but for an overlap.
Fresh(k, v) == v <= source /\ (k \notin overlap => fresh[k] <= v)

CallStates == {Idle} \cup [at : {"factory"}, key : Data]
              \cup [at : {"store", "pull"}, key : Data, value : Nat]

CacheOK ==
    /\ now \in Nat /\ source \in Nat /\ fresh \in [Data -> Nat]
    /\ \A k \in Data : fresh[k] <= source
    /\ IsStore(entries) /\ call \in [Caller -> CallStates]
    /\ \A i \in DOMAIN entries :
          entries[i].key \in Data => Fresh(entries[i].key, entries[i].value)
    /\ \A c \in Caller : call[c].at = "store" => Fresh(call[c].key, call[c].value)

\* Every expiry is a number, that of an entry without a TTL too.
LEMMA Expiries ==
    ASSUME CacheAssumption, now \in Nat, NEW ttl \in Ttl \cup {0}
    PROVE  Expiry(ttl) \in Nat
  <1> DEFINE all == Ttl \cup {0}
  <1>1. all \in SUBSET Nat /\ IsFiniteSet(all) /\ all # {}
    BY FS_AddElement DEF CacheAssumption
  <1>2. \E x \in all : \A y \in all : x >= y
    <2> HIDE DEF all
    <2> QED
      BY <1>1, Extremes
  <1>3. Max(all) \in all
    <2> HIDE DEF all
    <2> QED
      BY <1>2 DEF Max
  <1>4. PICK longest \in Nat : longest = Max(all)
    BY <1>1, <1>3
  <1>5. Never = 1 + Horizon + longest
    BY <1>4 DEF Never
  <1> QED
    BY <1>4, <1>5 DEF Expiry, CacheAssumption

\* Some entries of a store are a store.
LEMMA PartOfStore ==
    ASSUME NEW s, IsStore(s), NEW I \in SUBSET DOMAIN s
    PROVE  /\ IsStore(Only(s, I)) /\ Len(Only(s, I)) = Cardinality(I)
           /\ Cardinality(I) \in Nat /\ Cardinality(I) <= Len(s)
           /\ Cardinality(I) = Len(s) => I = DOMAIN s
           /\ \A k \in DOMAIN Only(s, I) : \E i \in I : Only(s, I)[k] = s[i]
           /\ \A i \in I : \E k \in DOMAIN Only(s, I) : Only(s, I)[k] = s[i]
  <1>1. PICK n \in Nat : Len(s) = n /\ DOMAIN s = 1..n
    BY DEF IsStore
  <1>2. IsFiniteSet(1..n) /\ Cardinality(1..n) = n
    BY FS_Interval
  <1>3. IsFiniteSet(I) /\ Cardinality(I) \in Nat /\ Cardinality(I) <= n
        /\ (Cardinality(I) = n => I = 1..n)
    BY <1>1, <1>2, FS_Subset, FS_CardinalityType
  <1>4. PICK t : t = Only(s, I)
    OBVIOUS
  <1>5. I \in SUBSET Nat
    BY <1>1
  <1>6. PICK m \in Nat : m = Cardinality(I)
    BY <1>3
  <1>7. /\ DOMAIN t = 1..m
        /\ \A k \in 1..m : Nth(I, k) \in I /\ t[k] = s[Nth(I, k)]
        /\ \A k, l \in 1..m : k < l => Nth(I, k) < Nth(I, l)
        /\ \A i \in I : \E k \in 1..m : Nth(I, k) = i
    BY <1>3, <1>4, <1>5, <1>6, OnlyKeeps
  <1>8. t = [k \in 1..m |-> s[Nth(I, k)]]
    BY <1>4, <1>6 DEF Only
  <1>9. t \in Seq(CacheEntry) /\ Len(t) = m
    <2>1. \A k \in 1..m : s[Nth(I, k)] \in CacheEntry
      <3>1. \A i \in 1..n : s[i] \in CacheEntry
        BY <1>1 DEF IsStore
      <3> QED
        BY <1>1, <1>7, <3>1
    <2> QED
      BY <1>8, <2>1
  <1>10. \A k, l \in 1..m : t[k].key = t[l].key => k = l
    <2> SUFFICES ASSUME NEW k \in 1..m, NEW l \in 1..m, t[k].key = t[l].key, k < l
                 PROVE  FALSE
      OBVIOUS
    <2>1. PICK i : i = Nth(I, k)
      OBVIOUS
    <2>2. PICK j : j = Nth(I, l)
      OBVIOUS
    <2>3. i \in DOMAIN s /\ j \in DOMAIN s /\ t[k] = s[i] /\ t[l] = s[j] /\ i < j
      BY <1>7, <2>1, <2>2
    <2>4. i = j
      BY <2>3 DEF IsStore
    <2> QED
      BY <1>1, <2>3, <2>4
  <1>11. Len(t) <= MaxEntries
    BY <1>1, <1>3, <1>6, <1>9, CacheAssumption DEF IsStore, CacheAssumption
  <1> QED
    BY <1>1, <1>3, <1>4, <1>6, <1>7, <1>9, <1>10, <1>11 DEF IsStore

\* evictOne makes room. What it drops that is alive was in a store full of such, none of which
\* expires sooner.
LEMMA Eviction ==
    ASSUME CacheAssumption, NEW s, IsStore(s)
    PROVE  /\ IsStore(EvictOne(s)) /\ Len(EvictOne(s)) < MaxEntries
           /\ \A k \in DOMAIN EvictOne(s) : \E i \in DOMAIN s : EvictOne(s)[k] = s[i]
           /\ \A i \in DOMAIN s :
                Live(s[i]) /\ s[i].key \notin Keys(EvictOne(s)) =>
                    /\ Len(Sweep(s)) = MaxEntries
                    /\ \A j \in DOMAIN s : s[i].expires <= s[j].expires
  <1>0. PICK alive, live : /\ alive = {i \in DOMAIN s : Live(s[i])}
                           /\ live = Sweep(s) /\ live = Only(s, alive)
    BY DEF Sweep
  <1> DEFINE sooner(i, j) == \/ live[i].expires < live[j].expires
                             \/ live[i].expires = live[j].expires /\ i <= j
             first == CHOOSE i \in DOMAIN live : \A j \in DOMAIN live : sooner(i, j)
  <1>1. /\ IsStore(live) /\ Len(live) = Cardinality(alive)
        /\ Cardinality(alive) \in Nat /\ Cardinality(alive) <= Len(s)
        /\ Cardinality(alive) = Len(s) => alive = DOMAIN s
        /\ \A k \in DOMAIN live : \E i \in alive : live[k] = s[i]
        /\ \A i \in alive : \E k \in DOMAIN live : live[k] = s[i]
    <2>1. alive \in SUBSET DOMAIN s
      BY <1>0
    <2>2. live = Only(s, alive)
      BY <1>0
    <2> QED
      BY <2>1, <2>2, PartOfStore
  <1>2. PICK m \in Nat : Len(live) = m /\ DOMAIN live = 1..m /\ m <= MaxEntries
    BY <1>1 DEF IsStore
  <1>3. Len(s) \in Nat /\ Len(s) <= MaxEntries /\ MaxEntries \in Nat \ {0}
    BY DEF IsStore, CacheAssumption
  <1>4. CASE m < MaxEntries
    <2>1. EvictOne(s) = live
      BY <1>0, <1>2, <1>4 DEF EvictOne
    <2>2. \A i \in DOMAIN s : Live(s[i]) => s[i].key \in Keys(live)
      <3> SUFFICES ASSUME NEW i \in DOMAIN s, Live(s[i])
                   PROVE  s[i].key \in Keys(live)
        OBVIOUS
      <3>1. PICK k \in DOMAIN live : live[k] = s[i]
        BY <1>0, <1>1
      <3> QED
        BY <3>1 DEF Keys
    <2> QED
      BY <1>0, <1>1, <1>2, <1>4, <2>1, <2>2
  <1>5. CASE m = MaxEntries
    <2>1. alive = DOMAIN s
      BY <1>1, <1>2, <1>3, <1>5
    <2>2. \E i \in DOMAIN live : \A j \in DOMAIN live : sooner(i, j)
      <3> DEFINE times == {live[i].expires : i \in DOMAIN live}
                 time == [i \in DOMAIN live |-> live[i].expires]
      <3>1. \A i \in 1..m : live[i] \in CacheEntry
        BY <1>1, <1>2 DEF IsStore
      <3>2. times \in SUBSET Nat /\ times # {}
        BY <1>2, <1>3, <1>5, <3>1 DEF CacheEntry
      <3>3. IsFiniteSet(1..m)
        BY FS_Interval
      <3>4. time \in Surjection(DOMAIN live, times)
        BY Fun_IsSurj
      <3>5. IsFiniteSet(times)
        <4> HIDE DEF time, times
        <4> QED
          BY <1>2, <3>3, <3>4, FS_Surjection
      <3>6. PICK soonest \in times : \A t \in times : soonest <= t
        <4> HIDE DEF times
        <4> QED
          BY <3>2, <3>5, Extremes
      <3> DEFINE those == {i \in DOMAIN live : live[i].expires = soonest}
      <3>7. those \in SUBSET (1..m) /\ those \in SUBSET Nat /\ those # {}
        BY <1>2
      <3>8. IsFiniteSet(those)
        BY <3>3, <3>7, FS_Subset
      <3>9. PICK i \in those : \A j \in those : i <= j
        <4> HIDE DEF those
        <4> QED
          BY <3>7, <3>8, Extremes
      <3>10. i \in DOMAIN live /\ live[i].expires = soonest
        OBVIOUS
      <3>11. ASSUME NEW j \in DOMAIN live PROVE sooner(i, j)
        <4>1. soonest <= live[j].expires /\ live[j].expires \in Nat /\ soonest \in Nat
          BY <1>2, <3>1, <3>2, <3>6 DEF CacheEntry
        <4> QED
          BY <3>9, <3>10, <4>1
      <3> QED
        BY <3>10, <3>11
    <2>3. first \in DOMAIN live /\ \A j \in DOMAIN live : sooner(first, j)
      BY <2>2
    <2> DEFINE rest == DOMAIN live \ {first}
    <2>4. EvictOne(s) = Only(live, rest)
      BY <1>0, <1>2, <1>5 DEF EvictOne
    <2> HIDE DEF first
    <2>5. /\ IsStore(Only(live, rest)) /\ Len(Only(live, rest)) = Cardinality(rest)
          /\ Cardinality(rest) \in Nat /\ Cardinality(rest) <= Len(live)
          /\ Cardinality(rest) = Len(live) => rest = DOMAIN live
          /\ \A k \in DOMAIN Only(live, rest) : \E i \in rest : Only(live, rest)[k] = live[i]
          /\ \A i \in rest : \E k \in DOMAIN Only(live, rest) : Only(live, rest)[k] = live[i]
      <3>1. rest \in SUBSET DOMAIN live
        OBVIOUS
      <3> HIDE DEF rest
      <3> QED
        BY <1>1, <3>1, PartOfStore
    <2>6. Cardinality(rest) < m
      BY <1>2, <2>3, <2>5
    <2>7. ASSUME NEW i \in DOMAIN s, s[i].key \notin Keys(EvictOne(s)), NEW j \in DOMAIN s
          PROVE  s[i].expires <= s[j].expires
      <3>1. PICK k \in DOMAIN live : live[k] = s[i]
        BY <1>1, <2>1
      <3>2. PICK l \in DOMAIN live : live[l] = s[j]
        BY <1>1, <2>1
      <3>3. k = first
        <4> SUFFICES ASSUME k \in rest PROVE FALSE
          BY <3>1
        <4>1. PICK h \in DOMAIN Only(live, rest) : Only(live, rest)[h] = live[k]
          BY <2>5
        <4> QED
          BY <2>4, <2>7, <3>1, <4>1 DEF Keys
      <3>4. live[k].expires \in Nat /\ live[l].expires \in Nat
        <4>1. \A h \in DOMAIN live : live[h] \in CacheEntry
          BY <1>1, <1>2 DEF IsStore
        <4> QED
          BY <3>1, <3>2, <4>1 DEF CacheEntry
      <3> QED
        BY <2>3, <3>1, <3>2, <3>3, <3>4
    <2>8. \A k \in DOMAIN EvictOne(s) : \E i \in DOMAIN s : EvictOne(s)[k] = s[i]
      <3> SUFFICES ASSUME NEW k \in DOMAIN Only(live, rest)
                   PROVE  \E i \in DOMAIN s : Only(live, rest)[k] = s[i]
        BY <2>4
      <3>1. PICK h \in rest : Only(live, rest)[k] = live[h]
        BY <2>5
      <3> QED
        BY <1>1, <2>1, <3>1
    <2>9. Len(Sweep(s)) = MaxEntries
      BY <1>0, <1>2, <1>5
    <2> QED
      BY <1>2, <1>5, <2>4, <2>5, <2>6, <2>7, <2>8, <2>9
  <1> QED
    BY <1>2, <1>3, <1>4, <1>5

\* Where a store with a new key has dropped something alive, it was full of such, and nothing
\* expires sooner.
Evicts(s, t) ==
    \A i \in DOMAIN s :
        Live(s[i]) /\ s[i].key \notin Keys(t) /\ Keys(t) \ Keys(s) # {} =>
            /\ Len(Sweep(s)) = MaxEntries
            /\ \A j \in DOMAIN s : s[i].expires <= s[j].expires

\* A write leaves a store in order, with its new entry and others of before.
LEMMA Writing ==
    ASSUME CacheAssumption, NEW s, IsStore(s),
           NEW k \in Data \cup Counter, NEW v \in Nat, NEW x \in Nat
    PROVE  /\ IsStore(Write(s, k, v, x)) /\ Evicts(s, Write(s, k, v, x))
           /\ \A i \in DOMAIN Write(s, k, v, x) :
                \/ Write(s, k, v, x)[i] = [key |-> k, value |-> v, expires |-> x]
                \/ \E j \in DOMAIN s : Write(s, k, v, x)[i] = s[j] /\ s[j].key # k
           /\ k \in Keys(s) => Keys(Write(s, k, v, x)) \subseteq Keys(s)
  <1>1. PICK e : e = [key |-> k, value |-> v, expires |-> x]
    OBVIOUS
  <1>2. e \in CacheEntry /\ e.key = k
    BY <1>1 DEF CacheEntry
  <1>3. PICK t : t = Write(s, k, v, x)
    OBVIOUS
  <1>4. PICK n \in Nat : Len(s) = n /\ DOMAIN s = 1..n /\ n <= MaxEntries
    BY DEF IsStore
  <1>5. MaxEntries \in Nat
    BY DEF CacheAssumption
  <1>6. CASE k \in Keys(s)
    <2>1. t = [i \in 1..n |-> IF s[i].key = k THEN e ELSE s[i]]
      BY <1>1, <1>3, <1>4, <1>6 DEF Write
    <2>2. \A i \in 1..n : s[i] \in CacheEntry /\ t[i] \in CacheEntry /\ t[i].key = s[i].key
      BY <1>2, <1>4, <2>1 DEF IsStore
    <2>3. t \in Seq(CacheEntry) /\ Len(t) = n /\ DOMAIN t = 1..n
      BY <2>1, <2>2
    <2>4. IsStore(t)
      BY <1>4, <2>2, <2>3 DEF IsStore
    <2>5. Keys(t) \subseteq Keys(s)
      BY <1>4, <2>2, <2>3 DEF Keys
    <2>6. \A i \in 1..n : t[i] = e \/ \E j \in DOMAIN s : t[i] = s[j] /\ s[j].key # k
      BY <1>4, <2>1
    <2> QED
      BY <1>1, <1>3, <2>3, <2>4, <2>5, <2>6 DEF Evicts
  <1>7. CASE k \notin Keys(s)
    <2>1. PICK base : base = IF Len(s) >= MaxEntries THEN EvictOne(s) ELSE s
      OBVIOUS
    <2>2. t = Append(base, e)
      BY <1>1, <1>3, <1>7, <2>1 DEF Write
    <2>3. /\ IsStore(base) /\ Len(base) < MaxEntries
          /\ \A i \in DOMAIN base : \E j \in DOMAIN s : base[i] = s[j]
      BY <1>4, <1>5, <2>1, Eviction
    <2>4. PICK m \in Nat : Len(base) = m /\ DOMAIN base = 1..m
      BY <2>3 DEF IsStore
    <2>5. /\ t \in Seq(CacheEntry) /\ Len(t) = m + 1 /\ DOMAIN t = 1..(m + 1)
          /\ t[m + 1] = e /\ \A i \in 1..m : t[i] = base[i]
      BY <1>2, <2>2, <2>3, <2>4 DEF IsStore
    <2>6. \A i \in 1..m : t[i].key # k /\ \E j \in DOMAIN s : t[i] = s[j] /\ s[j].key # k
      BY <1>7, <2>3, <2>4, <2>5 DEF Keys
    <2>7. \A i, j \in 1..(m + 1) : t[i].key = t[j].key => i = j
      <3>1. \A i, j \in 1..m : t[i].key = t[j].key => i = j
        BY <2>3, <2>4, <2>5 DEF IsStore
      <3> QED
        BY <1>2, <2>4, <2>5, <2>6, <3>1
    <2>8. IsStore(t)
      BY <1>5, <2>3, <2>4, <2>5, <2>7 DEF IsStore
    <2>9. Keys(base) \subseteq Keys(t)
      BY <2>4, <2>5 DEF Keys
    <2>10. Evicts(s, t)
      <3> SUFFICES ASSUME NEW i \in DOMAIN s, Live(s[i]), s[i].key \notin Keys(t)
                   PROVE  /\ Len(Sweep(s)) = MaxEntries
                          /\ \A j \in DOMAIN s : s[i].expires <= s[j].expires
        BY DEF Evicts
      <3>1. s[i].key \notin Keys(base)
        BY <2>9
      <3>2. base # s
        BY <3>1 DEF Keys
      <3>3. base = EvictOne(s)
        BY <2>1, <3>2
      <3> QED
        BY <3>1, <3>3, Eviction
    <2>11. \A i \in DOMAIN t : t[i] = e \/ \E j \in DOMAIN s : t[i] = s[j] /\ s[j].key # k
      BY <2>4, <2>5, <2>6
    <2> QED
      BY <1>1, <1>3, <1>7, <2>8, <2>10, <2>11
  <1> QED
    BY <1>6, <1>7

\* get, forget and flush take entries away, and no others.
Takes(s, t) ==
    IsStore(t) /\ \A i \in DOMAIN t : \E j \in DOMAIN s : t[i] = s[j]


LEMMA Taking ==
    ASSUME CacheAssumption, NEW k, IsStore(entries)
    PROVE  /\ Takes(entries, AfterRead(k)) /\ Takes(entries, <<>>)
           /\ Takes(entries, Without(entries, k))
           /\ \A i \in DOMAIN Without(entries, k) : Without(entries, k)[i].key # k
           /\ k \notin Keys(entries) => AfterRead(k) = entries
  <1>1. Takes(entries, AfterRead(k))
    <2>1. PICK I \in SUBSET DOMAIN entries :
              I = {i \in DOMAIN entries : entries[i].key # k \/ Live(entries[i])}
      OBVIOUS
    <2>2. AfterRead(k) = Only(entries, I)
      BY <2>1 DEF AfterRead
    <2>3. Takes(entries, Only(entries, I))
      <3>1. /\ IsStore(Only(entries, I))
            /\ \A h \in DOMAIN Only(entries, I) : \E i \in I : Only(entries, I)[h] = entries[i]
        BY PartOfStore
      <3> QED
        BY <3>1 DEF Takes
    <2> QED
      BY <2>2, <2>3
  <1>2. /\ Takes(entries, Without(entries, k))
        /\ \A i \in DOMAIN Without(entries, k) : Without(entries, k)[i].key # k
    <2>1. PICK I \in SUBSET DOMAIN entries : I = {i \in DOMAIN entries : entries[i].key # k}
      OBVIOUS
    <2>2. PICK t : t = Without(entries, k) /\ t = Only(entries, I)
      BY <2>1 DEF Without
    <2>3. IsStore(t) /\ \A h \in DOMAIN t : \E i \in I : t[h] = entries[i]
      BY <2>2, PartOfStore
    <2> QED
      BY <2>1, <2>2, <2>3 DEF Takes
  <1>3. Takes(entries, <<>>)
    BY DEF Takes, IsStore, CacheAssumption
  <1>4. ASSUME k \notin Keys(entries) PROVE AfterRead(k) = entries
    <2>1. {i \in DOMAIN entries : entries[i].key # k \/ Live(entries[i])} = DOMAIN entries
      BY <1>4 DEF Keys
    <2> QED
      BY <2>1, OnlyAll DEF AfterRead, IsStore
  <1> QED
    BY <1>1, <1>2, <1>3, <1>4

-----------------------------------------------------------------------------
\* What a step knows that takes nothing but entries from the store.
LEMMA TakesKeep ==
    ASSUME CacheOK, Takes(entries, entries'), UNCHANGED <<source, history>>
    PROVE  /\ IsStore(entries')
           /\ \A i \in DOMAIN entries' :
                entries'[i].key \in Data => Fresh(entries'[i].key, entries'[i].value)
  BY DEF CacheOK, Takes

\* An entry of the store is what Get finds under its key, and a live one is found.
LEMMA Getting ==
    ASSUME IsStore(entries)
    PROVE  /\ \A i \in DOMAIN entries : Get(entries[i].key) = entries[i]
           /\ \A k \in Keys(Sweep(entries)) : \E i \in DOMAIN entries :
                 entries[i].key = k /\ Live(entries[i])
           /\ \A k : Found(k) => k \in Keys(entries) /\ Get(k) \in CacheEntry
  <1>1. ASSUME NEW i \in DOMAIN entries PROVE Get(entries[i].key) = entries[i]
    <2>1. PICK k : k = entries[i].key
      OBVIOUS
    <2>2. PICK j : j = CHOOSE h \in DOMAIN entries : entries[h].key = k
      OBVIOUS
    <2>3. j \in DOMAIN entries /\ entries[j].key = k
      BY <2>1, <2>2
    <2>4. j = i
      BY <2>1, <2>3 DEF IsStore
    <2> QED
      BY <2>1, <2>2, <2>4 DEF Get
  <1>2. ASSUME NEW k \in Keys(Sweep(entries))
        PROVE  \E i \in DOMAIN entries : entries[i].key = k /\ Live(entries[i])
    <2>1. PICK I \in SUBSET DOMAIN entries : I = {i \in DOMAIN entries : Live(entries[i])}
      OBVIOUS
    <2>2. PICK t : t = Sweep(entries) /\ t = Only(entries, I)
      BY <2>1 DEF Sweep
    <2>3. \A h \in DOMAIN t : \E i \in I : t[h] = entries[i]
      BY <2>2, PartOfStore
    <2>4. PICK h \in DOMAIN t : t[h].key = k
      BY <2>2 DEF Keys
    <2> QED
      BY <2>1, <2>3, <2>4
  <1>3. ASSUME NEW k, Found(k) PROVE k \in Keys(entries) /\ Get(k) \in CacheEntry
    <2>1. PICK i \in DOMAIN entries : entries[i].key = k
      BY <1>2, <1>3 DEF Found
    <2>2. entries[i] \in CacheEntry
      BY DEF IsStore
    <2> QED
      BY <1>1, <2>1, <2>2 DEF Keys
  <1> QED
    BY <1>1, <1>2, <1>3

\* Whatever a caller goes on to hold, as long as it is fresh.
LEMMA CallsKeep ==
    ASSUME CacheOK, NEW c \in Caller, NEW state \in CallStates, Becomes(c, state),
           state.at = "store" => Fresh(state.key, state.value)
    PROVE  /\ call' \in [Caller -> CallStates]
           /\ \A d \in Caller : call'[d].at = "store" => Fresh(call'[d].key, call'[d].value)
  BY DEF CacheOK, Becomes

\* A step that changes neither the source nor what the history says.
LEMMA QuietStep ==
    ASSUME CacheOK, UNCHANGED <<now, source, history>>, IsStore(entries'),
           call' \in [Caller -> CallStates],
           \A i \in DOMAIN entries' :
              entries'[i].key \in Data => Fresh(entries'[i].key, entries'[i].value),
           \A d \in Caller : call'[d].at = "store" => Fresh(call'[d].key, call'[d].value)
    PROVE  CacheOK'
  BY DEF CacheOK, Fresh, history

\* A put or forget of k makes k as fresh as the source, and leaves the others what they were.
LEMMA RenewsFreshens ==
    ASSUME CacheOK, NEW k \in Data, Renews(k), UNCHANGED <<now, source, call>>,
           IsStore(entries'),
           \A i \in DOMAIN entries' :
              \/ entries'[i].key = k /\ entries'[i].value = source
              \/ \E j \in DOMAIN entries : entries'[i] = entries[j] /\ entries[j].key # k
    PROVE  CacheOK'
  <1>1. fresh' = [fresh EXCEPT ![k] = source]
    BY DEF Renews
  <1>2. \A j \in Data \ {k} : j \in overlap' <=> j \in overlap
    BY DEF Renews
  <1>3. ASSUME NEW c \in Caller, call[c].at = "store"
        PROVE  /\ call[c].value <= source
               /\ call[c].key \notin overlap' => fresh'[call[c].key] <= call[c].value
    <2>1. call[c] \in CallStates /\ Fresh(call[c].key, call[c].value)
      BY <1>3 DEF CacheOK
    <2>2. call[c].key \in Data /\ call[c].value \in Nat
      BY <1>3, <2>1 DEF CallStates, Idle
    <2>3. CASE call[c].key = k
      <3>1. call[c].value < source => k \in overlap'
        BY <1>3, <2>3 DEF Renews
      <3>2. fresh'[k] = source /\ source \in Nat
        BY <1>1 DEF CacheOK
      <3> QED
        BY <2>1, <2>2, <2>3, <3>1, <3>2 DEF Fresh
    <2>4. CASE call[c].key # k
      BY <1>1, <1>2, <2>1, <2>2, <2>4 DEF Fresh, CacheOK
    <2> QED
      BY <2>3, <2>4
  <1>4. ASSUME NEW i \in DOMAIN entries', entries'[i].key \in Data
        PROVE  /\ entries'[i].value <= source
               /\ entries'[i].key \notin overlap' => fresh'[entries'[i].key] <= entries'[i].value
    <2>1. CASE entries'[i].key = k /\ entries'[i].value = source
      BY <1>1, <2>1 DEF CacheOK
    <2>2. ASSUME NEW j \in DOMAIN entries, entries'[i] = entries[j], entries[j].key # k
          PROVE  /\ entries'[i].value <= source
                 /\ entries'[i].key \notin overlap' =>
                      fresh'[entries'[i].key] <= entries'[i].value
      BY <1>1, <1>2, <1>4, <2>2 DEF CacheOK, Fresh
    <2> QED
      BY <2>1, <2>2
  <1>5. \A j \in Data : fresh'[j] <= source /\ fresh' \in [Data -> Nat] /\ source \in Nat
    BY <1>1 DEF CacheOK
  <1> QED
    BY <1>1, <1>3, <1>4, <1>5 DEF CacheOK, Fresh

\* So that what was read stays as fresh as it was.
LEMMA CacheSteps ==
    ASSUME CacheAssumption, CacheOK, [CacheNext]_cacheVars
    PROVE  CacheOK'
  <1> USE CacheAssumption
  <1>0. /\ IsStore(entries) /\ source \in Nat /\ now \in Nat
        /\ call \in [Caller -> CallStates]
        /\ \A d \in Caller : call[d].at = "store" => Fresh(call[d].key, call[d].value)
    BY DEF CacheOK
  <1>1. ASSUME NEW k \in Data, NEW ttl \in Ttl \cup {0}, Put(k, ttl)
        PROVE  CacheOK'
    <2>1. PICK x \in Nat : x = Expiry(ttl)
      BY <1>0, Expiries
    <2>2. entries' = Write(entries, k, source, x) /\ Renews(k) /\ UNCHANGED <<now, source, call>>
      BY <1>1, <2>1 DEF Put
    <2>3. /\ IsStore(entries')
          /\ \A i \in DOMAIN entries' :
               \/ entries'[i] = [key |-> k, value |-> source, expires |-> x]
               \/ \E j \in DOMAIN entries : entries'[i] = entries[j] /\ entries[j].key # k
      BY <1>0, <2>2, Writing
    <2> QED
      BY <2>2, <2>3, RenewsFreshens
  <1>2. ASSUME NEW k \in Data, NEW c \in Caller, Remember(c, k) PROVE CacheOK'
    <2>1. PICK state \in CallStates : Becomes(c, state) /\ state.at # "store"
      <3>1. Idle \in CallStates /\ [at |-> "factory", key |-> k] \in CallStates
        BY DEF CallStates
      <3> QED
        BY <1>2, <3>1 DEF Remember, Idle
    <2>2. Takes(entries, entries') /\ UNCHANGED <<now, source, history>>
      BY <1>0, <1>2, Taking DEF Remember
    <2> QED
      BY <2>1, <2>2, TakesKeep, CallsKeep, QuietStep
  <1>3. ASSUME NEW k \in Data, NEW c \in Caller, Pull(c, k) PROVE CacheOK'
    <2>1. PICK state \in CallStates : Becomes(c, state) /\ state.at # "store"
      <3>1. CASE Found(k)
        <4>1. PICK v \in Nat : v = Get(k).value
          BY <1>0, <3>1, Getting DEF CacheEntry
        <4>2. [at |-> "pull", key |-> k, value |-> v] \in CallStates
          BY DEF CallStates
        <4> QED
          BY <1>3, <3>1, <4>1, <4>2 DEF Pull
      <3>2. CASE ~Found(k)
        BY <1>3, <3>2 DEF Pull, CallStates, Idle
      <3> QED
        BY <3>1, <3>2
    <2>2. Takes(entries, entries') /\ UNCHANGED <<now, source, history>>
      BY <1>0, <1>3, Taking DEF Pull
    <2> QED
      BY <2>1, <2>2, TakesKeep, CallsKeep, QuietStep
  <1>4. ASSUME NEW k \in Counter, NEW ttl \in Ttl, Increment(k, ttl) PROVE CacheOK'
    <2>1. UNCHANGED <<now, source, call, history>>
      BY <1>4 DEF Increment
    <2>2. \E s : \E v \in Nat, x \in Nat : Takes(entries, s) /\ entries' = Write(s, k, v, x)
      <3>1. CASE Found(k)
        <4>1. Get(k).value + 1 \in Nat /\ Get(k).expires \in Nat
          BY <1>0, <3>1, Getting DEF CacheEntry
        <4>2. PICK v \in Nat, x \in Nat : v = Get(k).value + 1 /\ x = Get(k).expires
          BY <4>1
        <4>3. entries' = Write(entries, k, v, x)
          BY <1>4, <3>1, <4>2 DEF Increment
        <4>4. Takes(entries, entries)
          BY <1>0 DEF Takes
        <4> QED
          BY <4>3, <4>4
      <3>2. CASE ~Found(k)
        <4>1. PICK x \in Nat : x = Expiry(ttl)
          BY <1>0, Expiries
        <4>2. PICK s : s = AfterRead(k)
          OBVIOUS
        <4>3. entries' = Write(s, k, 1, x)
          BY <1>4, <3>2, <4>1, <4>2 DEF Increment
        <4>4. Takes(entries, s)
          BY <1>0, <4>2, Taking
        <4>5. 1 \in Nat
          OBVIOUS
        <4> QED
          BY <4>3, <4>4, <4>5
      <3> QED
        BY <3>1, <3>2
    <2>3. PICK s : \E v \in Nat, x \in Nat : Takes(entries, s) /\ entries' = Write(s, k, v, x)
      BY <2>2
    <2>4. PICK v \in Nat, x \in Nat : Takes(entries, s) /\ entries' = Write(s, k, v, x)
      BY <2>3
    <2>5. /\ IsStore(entries')
          /\ \A i \in DOMAIN entries' :
               \/ entries'[i] = [key |-> k, value |-> v, expires |-> x]
               \/ \E j \in DOMAIN s : entries'[i] = s[j] /\ s[j].key # k
      BY <2>4, Writing DEF Takes
    <2>6. k \notin Data
      BY DEF CacheAssumption
    <2>7. \A i \in DOMAIN entries' :
             entries'[i].key \in Data => Fresh(entries'[i].key, entries'[i].value)
      BY <2>4, <2>5, <2>6 DEF Takes, CacheOK
    <2> QED
      BY <1>0, <2>1, <2>5, <2>7, QuietStep
  <1>5. ASSUME NEW k \in Data \cup Counter, Forget(k) PROVE CacheOK'
    <2>1. PICK t : t = entries' /\ t = Without(entries, k)
      BY <1>5 DEF Forget
    <2>2. Takes(entries, t) /\ \A i \in DOMAIN t : t[i].key # k
      BY <1>0, <2>1, Taking
    <2>3. CASE k \in Data
      <3>1. Renews(k) /\ UNCHANGED <<now, source, call>>
        BY <1>5, <2>3 DEF Forget
      <3> QED
        BY <2>1, <2>2, <2>3, <3>1, RenewsFreshens DEF Takes
    <2>4. CASE k \notin Data
      <3>1. UNCHANGED <<now, source, call, history>>
        BY <1>5, <2>4 DEF Forget
      <3> QED
        BY <1>0, <2>1, <2>2, <3>1, TakesKeep, QuietStep
    <2> QED
      BY <2>3, <2>4
  <1>6. ASSUME NEW c \in Caller, Factory(c) \/ FactoryThrows(c) PROVE CacheOK'
    <2>1. UNCHANGED <<now, source, entries, history>>
      BY <1>6 DEF Factory, FactoryThrows
    <2>2. PICK state \in CallStates : /\ Becomes(c, state)
                                      /\ state.at = "store" => Fresh(state.key, state.value)
      <3>1. CASE Factory(c)
        <4>1. PICK k : k = call[c].key
          OBVIOUS
        <4>2. k \in Data
          BY <1>0, <3>1, <4>1 DEF Factory, CallStates, Idle
        <4>3. [at |-> "store", key |-> k, value |-> source] \in CallStates
          BY <1>0, <4>2 DEF CallStates
        <4>4. Fresh(k, source)
          BY <4>2 DEF Fresh, CacheOK
        <4> QED
          BY <3>1, <4>1, <4>3, <4>4 DEF Factory
      <3>2. CASE FactoryThrows(c)
        BY <3>2 DEF FactoryThrows, CallStates, Idle
      <3> QED
        BY <1>6, <3>1, <3>2
    <2>3. Takes(entries, entries')
      BY <1>0, <2>1 DEF Takes
    <2> QED
      BY <2>1, <2>2, <2>3, TakesKeep, CallsKeep, QuietStep
  <1>7. ASSUME NEW c \in Caller, PullEnds(c) PROVE CacheOK'
    <2>1. UNCHANGED <<now, source, history>> /\ Becomes(c, Idle)
      BY <1>7 DEF PullEnds
    <2>2. Idle \in CallStates /\ Idle.at # "store"
      BY DEF CallStates, Idle
    <2>3. Takes(entries, entries')
      BY <1>0, <1>7, Taking DEF PullEnds
    <2> QED
      BY <2>1, <2>2, <2>3, TakesKeep, CallsKeep, QuietStep
  <1>8. ASSUME NEW c \in Caller, NEW ttl \in Ttl \cup {0}, Store(c, ttl) PROVE CacheOK'
    <2>1. UNCHANGED <<now, source, history>> /\ Becomes(c, Idle) /\ call[c].at = "store"
      BY <1>8 DEF Store
    <2>2. Idle \in CallStates /\ Idle.at # "store"
      BY DEF CallStates, Idle
    <2>3. PICK k, v : k = call[c].key /\ v = call[c].value
      OBVIOUS
    <2>4. k \in Data /\ v \in Nat /\ Fresh(k, v)
      BY <1>0, <2>1, <2>3 DEF CallStates, Idle
    <2>5. PICK x \in Nat : x = Expiry(ttl)
      BY <1>0, Expiries
    <2>6. entries' = Write(entries, k, v, x)
      BY <1>8, <2>3, <2>5 DEF Store
    <2>7. /\ IsStore(entries')
          /\ \A i \in DOMAIN entries' :
               \/ entries'[i] = [key |-> k, value |-> v, expires |-> x]
               \/ \E j \in DOMAIN entries : entries'[i] = entries[j] /\ entries[j].key # k
      BY <1>0, <2>4, <2>6, Writing
    <2>8. \A i \in DOMAIN entries' :
             entries'[i].key \in Data => Fresh(entries'[i].key, entries'[i].value)
      BY <2>4, <2>7 DEF CacheOK
    <2> QED
      BY <2>1, <2>2, <2>7, <2>8, CallsKeep, QuietStep
  <1>9. CASE Flush
    <2>1. entries' = <<>> /\ UNCHANGED <<now, source, call, history>>
      BY <1>9 DEF Flush
    <2> QED
      BY <1>0, <2>1, Taking, TakesKeep, QuietStep
  <1>10. CASE Change
    <2>1. source' = source + 1 /\ UNCHANGED <<now, entries, call, history>>
      BY <1>10 DEF Change
    <2>2. \A k \in Data : fresh[k] \in Nat
      BY DEF CacheOK
    <2>3. \A i \in DOMAIN entries : entries[i].value \in Nat
      <3>1. \A i \in DOMAIN entries : entries[i] \in CacheEntry
        BY <1>0 DEF IsStore
      <3> QED
        BY <3>1 DEF CacheEntry
    <2>4. \A d \in Caller : call[d].at = "store" => call[d].value \in Nat
      BY <1>0 DEF CallStates, Idle
    <2>5. \A k \in Data : fresh'[k] <= source'
      BY <1>0, <2>1, <2>2 DEF CacheOK, history
    <2>6. ASSUME NEW k, NEW v \in Nat, Fresh(k, v)
          PROVE  v <= source' /\ (k \notin overlap' => fresh'[k] <= v)
      BY <1>0, <2>1, <2>6 DEF Fresh, history
    <2>7. ASSUME NEW i \in DOMAIN entries', entries'[i].key \in Data
          PROVE  /\ entries'[i].value <= source'
                 /\ entries'[i].key \notin overlap' => fresh'[entries'[i].key] <= entries'[i].value
      <3>1. Fresh(entries[i].key, entries[i].value)
        BY <2>1, <2>7 DEF CacheOK
      <3> QED
        BY <2>1, <2>3, <2>6, <2>7, <3>1
    <2>8. ASSUME NEW d \in Caller, call'[d].at = "store"
          PROVE  /\ call'[d].value <= source'
                 /\ call'[d].key \notin overlap' => fresh'[call'[d].key] <= call'[d].value
      BY <1>0, <2>1, <2>4, <2>6, <2>8
    <2>9. source' \in Nat /\ fresh' \in [Data -> Nat] /\ now' \in Nat /\ IsStore(entries')
          /\ call' \in [Caller -> CallStates]
      BY <1>0, <2>1 DEF CacheOK, history
    <2> QED
      BY <2>5, <2>7, <2>8, <2>9 DEF CacheOK, Fresh
  <1>11. CASE Tick
    BY <1>11 DEF Tick, CacheOK, Fresh, history
  <1>12. CASE UNCHANGED cacheVars
    BY <1>12 DEF cacheVars, CacheOK, Fresh
  <1> QED
    BY <1>1, <1>2, <1>3, <1>4, <1>5, <1>6, <1>7, <1>8, <1>9, <1>10, <1>11, <1>12
    DEF CacheNext

\* The inductive invariant: a store in order, with values no older than they may be, and the
\* same of the values that remembers hold.
THEOREM CacheInvariance == CacheSpec => []CacheOK
  <1>1. ASSUME CacheAssumption, CacheInit PROVE CacheOK
    <2>1. IsStore(<<>>)
      BY <1>1 DEF IsStore, CacheAssumption
    <2>2. call \in [Caller -> CallStates] /\ \A c \in Caller : call[c].at # "store"
      BY <1>1 DEF CacheInit, CallStates, Idle
    <2> QED
      <3>1. now = 0 /\ source = 0 /\ entries = <<>> /\ fresh = [k \in Data |-> 0]
        BY <1>1 DEF CacheInit
      <3> QED
        BY <2>1, <2>2, <3>1 DEF CacheOK
  <1>2. CacheAssumption /\ CacheOK /\ [CacheNext]_cacheVars => CacheOK'
    BY CacheSteps
  <1> QED
    BY <1>1, <1>2, CacheAssumption, PTL DEF CacheSpec

\* For any keys, TTLs, sizes and callers: what is cached is as fresh as the last put or forget
\* of its key, unless a remember overlapped it.
THEOREM StaleNeedsOverlap == CacheSpec => []StaleOnlyByOverlap
  <1>1. CacheOK => StaleOnlyByOverlap
    <2> SUFFICES ASSUME CacheOK, NEW i \in DOMAIN entries, entries[i].key \in Data \ overlap
                 PROVE  entries[i].value >= fresh[entries[i].key]
      BY DEF StaleOnlyByOverlap
    <2>1. entries[i].value \in Nat
      <3>1. entries[i] \in CacheEntry
        BY DEF CacheOK, IsStore
      <3> QED
        BY <3>1 DEF CacheEntry
    <2>2. fresh[entries[i].key] \in Nat /\ fresh[entries[i].key] <= entries[i].value
      BY DEF CacheOK, Fresh
    <2> QED
      BY <2>1, <2>2
  <1> QED
    BY <1>1, CacheInvariance, PTL

\* For any sizes and any mix of keys with and without a TTL: a live entry is evicted only
\* from a store that is full of live ones, and then the one that expires soonest.
THEOREM SoonestIsEvicted == CacheSpec => EvictsClosestToExpiry
  <1> DEFINE Evicting ==
          /\ Len(entries') <= MaxEntries
          /\ \A k \in Keys(Sweep(entries)) \ Keys(entries') :
                Keys(entries') \ Keys(entries) # {} =>
                    /\ Len(Sweep(entries)) = MaxEntries
                    /\ \A i \in DOMAIN entries : Get(k).expires <= entries[i].expires
  <1>1. ASSUME CacheAssumption, CacheOK, CacheOK', CacheNext PROVE Evicting
    <2> USE CacheAssumption
    <2>1. /\ IsStore(entries) /\ IsStore(entries') /\ source \in Nat /\ now \in Nat
          /\ call \in [Caller -> CallStates]
      BY <1>1 DEF CacheOK
    <2>2. SUFFICES Evicts(entries, entries') \/ Keys(entries') \subseteq Keys(entries)
      <3> SUFFICES ASSUME NEW k \in Keys(Sweep(entries)) \ Keys(entries'),
                          Keys(entries') \ Keys(entries) # {}
                   PROVE  /\ Len(Sweep(entries)) = MaxEntries
                          /\ \A i \in DOMAIN entries : Get(k).expires <= entries[i].expires
        BY <2>1 DEF IsStore
      <3>1. PICK i \in DOMAIN entries : entries[i].key = k /\ Live(entries[i])
        BY <2>1, Getting
      <3>2. Get(k) = entries[i]
        BY <2>1, <3>1, Getting
      <3>3. Evicts(entries, entries')
        BY <2>2
      <3> QED
        BY <3>1, <3>2, <3>3 DEF Evicts
    <2>3. ASSUME Takes(entries, entries') PROVE Keys(entries') \subseteq Keys(entries)
      BY <2>3 DEF Takes, Keys
    <2>4. ASSUME NEW k \in Data, NEW ttl \in Ttl \cup {0}, Put(k, ttl)
          PROVE  Evicts(entries, entries')
      <3>1. PICK x \in Nat : x = Expiry(ttl)
        BY <2>1, Expiries
      <3>2. entries' = Write(entries, k, source, x)
        BY <2>4, <3>1 DEF Put
      <3> QED
        BY <2>1, <3>2, Writing
    <2>5. ASSUME NEW k \in Data, NEW c \in Caller, Remember(c, k) \/ Pull(c, k)
          PROVE  Keys(entries') \subseteq Keys(entries)
      BY <2>1, <2>3, <2>5, Taking DEF Remember, Pull
    <2>6. ASSUME NEW k \in Counter, NEW ttl \in Ttl, Increment(k, ttl)
          PROVE  Evicts(entries, entries') \/ Keys(entries') \subseteq Keys(entries)
      <3>1. CASE Found(k)
        <4>1. Get(k).value + 1 \in Nat /\ Get(k).expires \in Nat
          BY <2>1, <3>1, Getting DEF CacheEntry
        <4>2. PICK v \in Nat, x \in Nat : v = Get(k).value + 1 /\ x = Get(k).expires
          BY <4>1
        <4>3. entries' = Write(entries, k, v, x)
          BY <2>6, <3>1, <4>2 DEF Increment
        <4> QED
          BY <2>1, <4>3, Writing
      <3>2. CASE ~Found(k)
        <4>1. PICK x \in Nat : x = Expiry(ttl)
          BY <2>1, Expiries
        <4>2. PICK s : s = AfterRead(k)
          OBVIOUS
        <4>3. entries' = Write(s, k, 1, x)
          BY <2>6, <3>2, <4>1, <4>2 DEF Increment
        <4>4. Takes(entries, s)
          BY <2>1, <4>2, Taking
        <4>5. CASE k \in Keys(entries)
          <5>0. PICK v \in Nat : v = 1
            OBVIOUS
          <5>1. entries' = Write(s, k, v, x) /\ IsStore(s)
            BY <4>3, <4>4, <5>0 DEF Takes
          <5>2. \A i \in DOMAIN entries' :
                   \/ entries'[i] = [key |-> k, value |-> v, expires |-> x]
                   \/ \E j \in DOMAIN s : entries'[i] = s[j] /\ s[j].key # k
            BY <5>1, Writing
          <5> QED
            BY <4>4, <4>5, <5>2 DEF Takes, Keys
        <4>6. CASE k \notin Keys(entries)
          <5>1. s = entries
            BY <2>1, <4>2, <4>6, Taking
          <5> QED
            BY <2>1, <4>3, <5>1, Writing
        <4> QED
          BY <4>5, <4>6
      <3> QED
        BY <3>1, <3>2
    <2>7. ASSUME NEW k \in Data \cup Counter, Forget(k)
          PROVE  Keys(entries') \subseteq Keys(entries)
      BY <2>1, <2>3, <2>7, Taking DEF Forget
    <2>8. ASSUME NEW c \in Caller, Factory(c) \/ FactoryThrows(c)
          PROVE  Keys(entries') \subseteq Keys(entries)
      BY <2>8 DEF Factory, FactoryThrows
    <2>9. ASSUME NEW c \in Caller, PullEnds(c)
          PROVE  Keys(entries') \subseteq Keys(entries)
      BY <2>1, <2>3, <2>9, Taking DEF PullEnds
    <2>10. ASSUME NEW c \in Caller, NEW ttl \in Ttl \cup {0}, Store(c, ttl)
           PROVE  Evicts(entries, entries')
      <3>1. PICK k, v : k = call[c].key /\ v = call[c].value
        OBVIOUS
      <3>2. k \in Data /\ v \in Nat
        BY <2>1, <2>10, <3>1 DEF Store, CallStates, Idle
      <3>3. PICK x \in Nat : x = Expiry(ttl)
        BY <2>1, Expiries
      <3>4. entries' = Write(entries, k, v, x)
        BY <2>10, <3>1, <3>3 DEF Store
      <3> QED
        BY <2>1, <3>2, <3>4, Writing
    <2>11. CASE Flush
      BY <2>1, <2>3, <2>11, Taking DEF Flush
    <2>12. CASE Change \/ Tick
      BY <2>12 DEF Change, Tick
    <2> QED
      BY <1>1, <2>4, <2>5, <2>6, <2>7, <2>8, <2>9, <2>10, <2>11, <2>12 DEF CacheNext
  <1>2. CacheAssumption /\ CacheOK /\ CacheOK' /\ [CacheNext]_cacheVars => [Evicting]_cacheVars
    BY <1>1
  <1> QED
    BY <1>2, CacheInvariance, CacheAssumption, PTL DEF CacheSpec, EvictsClosestToExpiry
-----------------------------------------------------------------------------
\* What the state of the dispatcher looks like.
Entries == [listener : Listener, once : BOOLEAN, id : Nat]
Progress == [at : {"waiting", "running", "parked", "done", "failed"}, tries : Nat,
             awaited : BOOLEAN]
Dispatched == [targets : Seq(Entries), calls : Seq(Progress),
               result : {"pending", "resolved", "rejected"}]
Frame == [dispatch : Nat, index : Nat, mapping : BOOLEAN]

EventsType ==
    /\ listeners \in [Event -> Seq(Entries)] /\ wildcards \in Seq(Entries)
    /\ dispatches \in Seq(Dispatched) /\ stack \in Seq(Frame) /\ count \in Nat

\* A call has failed when its attempts are used up, and how a dispatch went is how its calls
\* did.
Settled(d) ==
    /\ DOMAIN d.calls = DOMAIN d.targets
    /\ \A i \in DOMAIN d.calls :
          d.calls[i].at = "failed" => d.calls[i].tries = Retries[d.targets[i].listener] + 1
    /\ d.result = "resolved" => \A i \in DOMAIN d.calls : d.calls[i].at = "done"
    /\ d.result = "rejected" => \E i \in DOMAIN d.calls : d.calls[i].at = "failed"

\* A frame of the stack is a call that runs, each another one; below a frame that maps the
\* calls have not been made.
Framed ==
    /\ \A k \in DOMAIN stack :
          /\ stack[k].dispatch \in DOMAIN dispatches
          /\ stack[k].index \in DOMAIN dispatches[stack[k].dispatch].calls
          /\ dispatches[stack[k].dispatch].calls[stack[k].index].at = "running"
          /\ stack[k].mapping =>
                \A i \in DOMAIN dispatches[stack[k].dispatch].calls :
                    i > stack[k].index => dispatches[stack[k].dispatch].calls[i].at = "waiting"
    /\ \A k, l \in DOMAIN stack :
          stack[k].dispatch = stack[l].dispatch /\ stack[k].index = stack[l].index => k = l

CallsOK == EventsType /\ (\A d \in DOMAIN dispatches : Settled(dispatches[d])) /\ Framed

LEMMA NextFrame ==
    ASSUME NEW f \in Frame, NEW i \in Nat
    PROVE  [f EXCEPT !.index = i + 1] \in Frame
  BY DEF Frame

\* The running listener leaves: the call of another frame is not touched, as it runs too, and
\* of the same dispatch only one frame maps.
LEMMA Leaving ==
    ASSUME EventsAssumption, CallsOK, stack # <<>>, NEW c \in Progress, Leaves(c),
           c.at \in {"parked", "done", "failed"},
           c.at = "failed" => c.tries = Retries[Running] + 1
    PROVE  CallsOK'
  <1>1. PICK top \in Frame : top = Top /\ top = stack[1] /\ 1 \in DOMAIN stack
    BY DEF CallsOK, EventsType, Top
  <1>2. PICK d \in Nat, i \in Nat : d = top.dispatch /\ i = top.index
    BY <1>1 DEF Frame
  <1>3. PICK D \in Dispatched : D = dispatches[d] /\ d \in DOMAIN dispatches
    BY <1>1, <1>2 DEF CallsOK, Framed, EventsType
  <1>4. /\ i \in DOMAIN D.calls /\ D.calls[i].at = "running" /\ Settled(D)
        /\ top.mapping => \A j \in DOMAIN D.calls : j > i => D.calls[j].at = "waiting"
    BY <1>1, <1>2, <1>3 DEF CallsOK, Framed
  <1>5. PICK n \in Nat : DOMAIN D.calls = 1..n /\ Len(D.calls) = n /\ D.calls \in Seq(Progress)
    BY <1>3 DEF Dispatched
  <1>6. PICK left : left = [D.calls EXCEPT ![i] = c]
    OBVIOUS
  <1>7. /\ left \in Seq(Progress) /\ Len(left) = n /\ DOMAIN left = 1..n
        /\ left[i] = c /\ \A j \in 1..n : j # i => left[j] = D.calls[j]
    BY <1>4, <1>5, <1>6
  <1>8. PICK next \in BOOLEAN : next <=> top.mapping /\ i < n
    OBVIOUS
  <1>9. PICK cs : cs = IF next THEN [left EXCEPT ![i + 1].at = "running"] ELSE left
    OBVIOUS
  <1>10. /\ dispatches' = [dispatches EXCEPT ![d].calls = cs]
         /\ stack' = IF next THEN [stack EXCEPT ![1].index = i + 1] ELSE Tail(stack)
         /\ UNCHANGED <<listeners, wildcards, count>>
    <2>1. Top.index = i /\ Top.dispatch = d /\ Top.mapping = top.mapping /\ dispatches[d] = D
      BY <1>1, <1>2, <1>3
    <2>2. (Top.mapping /\ Top.index < Len(left)) <=> next
      BY <1>7, <1>8, <2>1
    <2>3. left = [dispatches[Top.dispatch].calls EXCEPT ![Top.index] = c]
      BY <1>6, <2>1
    <2> QED
      BY <1>9, <2>1, <2>2, <2>3 DEF Leaves
  <1>11. /\ cs \in Seq(Progress) /\ DOMAIN cs = 1..n /\ cs[i] = c
         /\ \A j \in 1..n : j # i /\ ~(next /\ j = i + 1) => cs[j] = D.calls[j]
         /\ next => /\ top.mapping /\ i + 1 \in 1..n /\ cs[i + 1].at = "running"
                    /\ cs[i + 1].tries = D.calls[i + 1].tries
                    /\ D.calls[i + 1].at = "waiting"
    <2>1. CASE ~next
      BY <1>7, <1>9, <2>1
    <2>2. CASE next
      <3>1. top.mapping /\ i + 1 \in 1..n /\ i + 1 # i /\ i + 1 > i
        BY <1>4, <1>5, <1>8, <2>2
      <3>2. D.calls[i + 1].at = "waiting" /\ left[i + 1] = D.calls[i + 1]
        BY <1>4, <1>5, <1>7, <3>1
      <3>3. PICK p \in Progress : p = left[i + 1]
        BY <1>7, <3>1
      <3>4. PICK q : q = [p EXCEPT !.at = "running"]
        OBVIOUS
      <3>5. q \in Progress /\ q.at = "running" /\ q.tries = p.tries
        BY <3>3, <3>4 DEF Progress
      <3>6. cs = [left EXCEPT ![i + 1] = q]
        BY <1>9, <2>2, <3>3, <3>4
      <3>7. /\ cs \in Seq(Progress) /\ DOMAIN cs = 1..n /\ cs[i + 1] = q
            /\ \A j \in 1..n : j # i + 1 => cs[j] = left[j]
        BY <1>7, <3>1, <3>5, <3>6
      <3> QED
        BY <1>4, <1>5, <1>7, <2>2, <3>1, <3>2, <3>3, <3>5, <3>7
    <2> QED
      BY <2>1, <2>2
  <1>12. PICK E : E = [D EXCEPT !.calls = cs]
    OBVIOUS
  <1>13. E \in Dispatched /\ E.calls = cs /\ E.targets = D.targets /\ E.result = D.result
    BY <1>11, <1>12 DEF Dispatched
  <1>14. /\ dispatches' \in Seq(Dispatched) /\ DOMAIN dispatches' = DOMAIN dispatches
         /\ dispatches'[d] = E /\ \A e \in DOMAIN dispatches : e # d => dispatches'[e] = dispatches[e]
    <2>1. dispatches' = [dispatches EXCEPT ![d] = E]
      BY <1>3, <1>10, <1>12
    <2>2. dispatches \in Seq(Dispatched)
      BY DEF CallsOK, EventsType
    <2> QED
      BY <1>3, <1>13, <2>1, <2>2
  <1>15. Settled(E)
    <2>1. DOMAIN E.calls = DOMAIN E.targets
      BY <1>4, <1>5, <1>11, <1>13 DEF Settled
    <2>2. ASSUME NEW j \in 1..n, cs[j].at = "failed"
          PROVE  cs[j].tries = Retries[D.targets[j].listener] + 1
      <3>1. CASE j = i
        <4>1. Running = D.targets[i].listener
          BY <1>1, <1>2, <1>3 DEF Running
        <4> QED
          BY <1>11, <2>2, <3>1, <4>1
      <3>2. CASE j # i
        <4>1. cs[j] = D.calls[j]
          BY <1>11, <2>2, <3>2
        <4> QED
          BY <1>4, <1>5, <2>2, <4>1 DEF Settled
      <3> QED
        BY <3>1, <3>2
    <2>3. E.result # "resolved"
      <3>1. D.calls[i].at # "done"
        BY <1>4
      <3> QED
        BY <1>4, <1>13, <3>1 DEF Settled
    <2>4. E.result = "rejected" => \E j \in 1..n : cs[j].at = "failed"
      <3> SUFFICES ASSUME D.result = "rejected"
                   PROVE  \E j \in 1..n : cs[j].at = "failed"
        BY <1>13
      <3>1. PICK j \in 1..n : D.calls[j].at = "failed"
        BY <1>4, <1>5 DEF Settled
      <3>2. j # i /\ ~(next /\ j = i + 1)
        BY <1>4, <1>11, <3>1
      <3> QED
        BY <1>11, <3>1, <3>2
    <2> QED
      BY <1>11, <1>13, <2>1, <2>2, <2>3, <2>4 DEF Settled
  <1>16. /\ stack' \in Seq(Frame)
         /\ next => /\ DOMAIN stack' = DOMAIN stack /\ stack'[1] = [top EXCEPT !.index = i + 1]
                    /\ \A k \in DOMAIN stack : k # 1 => stack'[k] = stack[k]
         /\ ~next => \A k \in DOMAIN stack' : k + 1 \in DOMAIN stack /\ stack'[k] = stack[k + 1]
    <2>1. stack \in Seq(Frame)
      BY DEF CallsOK, EventsType
    <2>2. CASE next
      <3>1. PICK f : f = [top EXCEPT !.index = i + 1]
        OBVIOUS
      <3>2. f \in Frame
        BY <3>1, NextFrame
      <3>3. stack' = [stack EXCEPT ![1] = f]
        BY <1>1, <1>10, <2>2, <3>1
      <3> QED
        BY <1>1, <2>1, <2>2, <3>1, <3>2, <3>3
    <2>3. CASE ~next
      BY <1>1, <1>10, <2>1, <2>3
    <2> QED
      BY <2>2, <2>3
  <1>17. Framed'
    <2> DEFINE Stands(f, ds) ==
                  /\ f.dispatch \in DOMAIN ds
                  /\ f.index \in DOMAIN ds[f.dispatch].calls
                  /\ ds[f.dispatch].calls[f.index].at = "running"
                  /\ f.mapping =>
                        \A j \in DOMAIN ds[f.dispatch].calls :
                            j > f.index => ds[f.dispatch].calls[j].at = "waiting"
    <2>1. ASSUME NEW k \in DOMAIN stack, k # 1
          PROVE  Stands(stack[k], dispatches')
      <3>1. PICK f \in Frame : f = stack[k]
        BY DEF CallsOK, EventsType
      <3>2. Stands(f, dispatches) /\ ~(f.dispatch = d /\ f.index = i)
        BY <1>1, <1>2, <2>1, <3>1 DEF CallsOK, Framed
      <3>3. CASE f.dispatch # d
        BY <1>14, <3>1, <3>2, <3>3
      <3>4. CASE f.dispatch = d
        <4>1. PICK j \in Nat : j = f.index
          BY DEF Frame
        <4>2. /\ j \in 1..n /\ j # i /\ D.calls[j].at = "running"
              /\ f.mapping => \A h \in 1..n : h > j => D.calls[h].at = "waiting"
          BY <1>3, <1>5, <3>2, <3>4, <4>1
        <4>3. i \in 1..n /\ (f.mapping => ~(i > j))
          BY <1>4, <1>5, <4>2
        <4>4. cs[j] = D.calls[j]
          BY <1>11, <4>2
        <4>5. ASSUME f.mapping, NEW h \in 1..n, h > j
              PROVE  cs[h].at = "waiting"
          <5>1. D.calls[h].at = "waiting"
            BY <4>2, <4>5
          <5>2. h # i
            BY <1>4, <5>1
          <5>3. h = i + 1 \/ cs[h] = D.calls[h]
            BY <1>11, <5>2
          <5>4. ~(next /\ h = i + 1)
            <6>1. i \in Nat /\ j \in Nat /\ j # i /\ ~(i > j)
              BY <4>2, <4>3, <4>5
            <6> QED
              BY <4>5, <6>1
          <5> QED
            BY <1>11, <5>1, <5>2, <5>4
        <4> QED
          BY <1>3, <1>11, <1>13, <1>14, <3>1, <3>4, <4>1, <4>2, <4>4, <4>5
      <3> QED
        BY <3>3, <3>4
    <2>2. ASSUME next PROVE Stands(stack'[1], dispatches')
      <3>1. PICK f : f = [top EXCEPT !.index = i + 1]
        OBVIOUS
      <3>2. f.dispatch = top.dispatch /\ f.index = i + 1 /\ f.mapping = top.mapping
        BY <3>1 DEF Frame
      <3>3. f = stack'[1] /\ f.dispatch = d
        BY <1>2, <1>16, <2>2, <3>1, <3>2
      <3>4. ASSUME NEW j \in 1..n, j > i + 1 PROVE cs[j].at = "waiting"
        <4>1. j \in Nat /\ j # i /\ j # i + 1 /\ j > i
          BY <1>4, <1>5, <3>4
        <4> QED
          BY <1>4, <1>5, <1>11, <2>2, <4>1
      <3> QED
        BY <1>3, <1>11, <1>13, <1>14, <2>2, <3>2, <3>4, <3>3
    <2>3. \A k \in DOMAIN stack' : Stands(stack'[k], dispatches')
      <3> HIDE DEF Stands
      <3>1. CASE next
        BY <1>16, <2>1, <2>2, <3>1
      <3>2. CASE ~next
        <4>1. ASSUME NEW k \in DOMAIN stack' PROVE k + 1 \in DOMAIN stack /\ k + 1 # 1
          BY <1>16, <3>2
        <4> QED
          BY <1>16, <2>1, <3>2, <4>1
      <3> QED
        BY <3>1, <3>2
    <2>4. ASSUME NEW k \in DOMAIN stack', NEW l \in DOMAIN stack',
                 stack'[k].dispatch = stack'[l].dispatch, stack'[k].index = stack'[l].index
          PROVE  k = l
      <3>1. CASE ~next
        <4>1. k + 1 \in DOMAIN stack /\ l + 1 \in DOMAIN stack /\ k \in Nat /\ l \in Nat
              /\ stack'[k] = stack[k + 1] /\ stack'[l] = stack[l + 1]
          BY <1>16, <3>1
        <4>2. k + 1 = l + 1
          BY <2>4, <4>1 DEF CallsOK, Framed
        <4> QED
          BY <4>1, <4>2
      <3>2. CASE next
        <4>1. ASSUME NEW h \in DOMAIN stack, h # 1, stack[h].dispatch = d
              PROVE  stack[h].index # i + 1
          BY <1>3, <1>11, <3>2, <4>1 DEF CallsOK, Framed
        <4>2. stack'[1].dispatch = d /\ stack'[1].index = i + 1
          BY <1>1, <1>2, <1>16, <3>2 DEF Frame
        <4>3. CASE k # 1 /\ l # 1
          BY <1>16, <2>4, <3>2, <4>3 DEF CallsOK, Framed
        <4>4. CASE k = 1 \/ l = 1
          BY <1>16, <2>4, <3>2, <4>1, <4>2, <4>4
        <4> QED
          BY <4>3, <4>4
      <3> QED
        BY <3>1, <3>2
    <2> QED
      BY <2>3, <2>4 DEF Framed
  <1>18. EventsType'
    BY <1>10, <1>14, <1>16 DEF CallsOK, EventsType
  <1>19. \A e \in DOMAIN dispatches' : Settled(dispatches'[e])
    BY <1>14, <1>15 DEF CallsOK
  <1> QED
    BY <1>17, <1>18, <1>19 DEF CallsOK

LEMMA SetOfKept ==
    ASSUME NEW s \in Seq(Entries)
    PROVE  Kept(s) \in Seq(Entries) /\ ToSet(Kept(s)) = {en \in ToSet(s) : ~en.once}
  <1>1. PICK I \in SUBSET DOMAIN s : I = {i \in DOMAIN s : ~s[i].once}
    OBVIOUS
  <1>2. Kept(s) = Only(s, I)
    BY <1>1 DEF Kept
  <1>3. {s[i] : i \in I} = {en \in {s[i] : i \in DOMAIN s} : ~en.once}
    BY <1>1
  <1>4. ToSet(s) = {s[i] : i \in DOMAIN s}
    BY DEF ToSet
  <1>5. Only(s, I) \in Seq(Entries) /\ ToSet(Only(s, I)) = {s[i] : i \in I}
    BY OnlySome
  <1> QED
    BY <1>2, <1>3, <1>4, <1>5

\* Subscribing and removing touch no dispatch.
LEMMA OthersCalls ==
    ASSUME CallsOK, listeners' \in [Event -> Seq(Entries)], wildcards' \in Seq(Entries),
           count' \in Nat, UNCHANGED <<dispatches, stack>>
    PROVE  CallsOK'
  BY DEF CallsOK, EventsType, Framed, Settled

\* The calls of a dispatch that begins.
LEMMA NewCalls ==
    ASSUME EventsAssumption, NEW targets \in Seq(Entries)
    PROVE  /\ Calls(targets) \in Seq(Progress) /\ DOMAIN Calls(targets) = DOMAIN targets
           /\ \A i \in DOMAIN targets :
                 Calls(targets)[i].at = IF i = 1 THEN "running" ELSE "waiting"
  <1>1. PICK n \in Nat : n = Len(targets) /\ DOMAIN targets = 1..n
    OBVIOUS
  <1>2. PICK c : c = Calls(targets)
    OBVIOUS
  <1>3. c = [i \in 1..n |-> [at |-> IF i = 1 THEN "running" ELSE "waiting", tries |-> 0,
                             awaited |-> FALSE]]
    BY <1>1, <1>2 DEF Calls
  <1>4. ASSUME NEW i \in 1..n
        PROVE  c[i] \in Progress /\ c[i].at = IF i = 1 THEN "running" ELSE "waiting"
    <2>1. PICK at \in {"running", "waiting"} : at = IF i = 1 THEN "running" ELSE "waiting"
      OBVIOUS
    <2>2. PICK p : p = [at |-> at, tries |-> 0, awaited |-> FALSE]
      OBVIOUS
    <2>3. p \in Progress /\ p.at = at
      BY <2>2 DEF Progress
    <2>4. c[i] = p
      BY <1>3, <2>1, <2>2
    <2> QED
      BY <2>1, <2>3, <2>4
  <1>5. c \in Seq(Progress)
    <2>1. DOMAIN c = 1..n /\ c = [i \in 1..n |-> c[i]]
      BY <1>3
    <2>2. c \in [1..n -> Progress]
      BY <1>4, <2>1
    <2> QED
      BY <2>2
  <1> QED
    BY <1>1, <1>2, <1>3, <1>4, <1>5

LEMMA Dispatching ==
    ASSUME EventsAssumption, CallsOK, NEW e \in Event, Dispatch(e)
    PROVE  CallsOK'
  <1>1. PICK targets : targets = Targets(e)
    OBVIOUS
  <1>2. targets \in Seq(Entries)
    <2>1. listeners[e] \in Seq(Entries) /\ wildcards \in Seq(Entries)
      BY DEF CallsOK, EventsType
    <2> QED
      BY <1>1, <2>1 DEF Targets
  <1>3. PICK n \in Nat : n = Len(targets) /\ DOMAIN targets = 1..n
    BY <1>2
  <1>4. PICK cs \in Seq(Progress) : cs = Calls(targets)
    BY <1>2, NewCalls
  <1>5. DOMAIN cs = 1..n /\ \A i \in 1..n : cs[i].at = IF i = 1 THEN "running" ELSE "waiting"
    BY <1>2, <1>3, <1>4, NewCalls
  <1>6. PICK result \in {"resolved", "pending"} :
            result = IF targets = <<>> THEN "resolved" ELSE "pending"
    OBVIOUS
  <1>7. PICK D : D = [targets |-> targets, calls |-> cs, result |-> result]
    OBVIOUS
  <1>8. D \in Dispatched /\ D.targets = targets /\ D.calls = cs /\ D.result = result
    BY <1>2, <1>6, <1>7 DEF Dispatched
  <1>9. Settled(D)
    <2>1. result = "resolved" => n = 0
      BY <1>2, <1>3, <1>6
    <2> QED
      BY <1>3, <1>5, <1>6, <1>8, <2>1 DEF Settled
  <1>10. PICK N \in Nat : N = Len(dispatches) /\ DOMAIN dispatches = 1..N
    BY DEF CallsOK, EventsType
  <1>11. dispatches' = Append(dispatches, D)
    BY <1>1, <1>4, <1>6, <1>7 DEF Dispatch
  <1>12. /\ dispatches' \in Seq(Dispatched) /\ Len(dispatches') = N + 1
         /\ DOMAIN dispatches' = 1..(N + 1) /\ dispatches'[N + 1] = D
         /\ \A d \in 1..N : dispatches'[d] = dispatches[d]
    BY <1>8, <1>10, <1>11 DEF CallsOK, EventsType
  <1>13. PICK f : f = [dispatch |-> N + 1, index |-> 1, mapping |-> TRUE]
    OBVIOUS
  <1>14. f \in Frame /\ f.dispatch = N + 1 /\ f.index = 1 /\ f.mapping = TRUE
    BY <1>10, <1>13 DEF Frame
  <1>15. stack' = IF targets = <<>> THEN stack ELSE <<f>> \o stack
    BY <1>1, <1>12, <1>13 DEF Dispatch
  <1>16. /\ stack' \in Seq(Frame)
         /\ targets # <<>> =>
              /\ stack'[1] = f
              /\ \A k \in DOMAIN stack' : k # 1 => k - 1 \in DOMAIN stack /\ stack'[k] = stack[k - 1]
    BY <1>14, <1>15 DEF CallsOK, EventsType
  <1> DEFINE Stands(g, ds) ==
                /\ g.dispatch \in DOMAIN ds
                /\ g.index \in DOMAIN ds[g.dispatch].calls
                /\ ds[g.dispatch].calls[g.index].at = "running"
                /\ g.mapping =>
                      \A j \in DOMAIN ds[g.dispatch].calls :
                          j > g.index => ds[g.dispatch].calls[j].at = "waiting"
  <1>17. ASSUME NEW k \in DOMAIN stack
         PROVE  Stands(stack[k], dispatches') /\ stack[k].dispatch # N + 1
    <2>1. PICK g \in Frame : g = stack[k]
      BY DEF CallsOK, EventsType
    <2>2. Stands(g, dispatches)
      BY <2>1 DEF CallsOK, Framed
    <2>3. g.dispatch \in 1..N
      BY <1>10, <2>2
    <2>4. g.dispatch \in 1..(N + 1) /\ g.dispatch # N + 1 /\ dispatches'[g.dispatch] = dispatches[g.dispatch]
      BY <1>12, <2>3
    <2> QED
      BY <1>12, <2>1, <2>2, <2>4
  <1>18. ASSUME targets # <<>> PROVE Stands(f, dispatches')
    <2>1. 1 \in 1..n /\ N + 1 \in 1..(N + 1)
      BY <1>2, <1>3, <1>10, <1>18
    <2> QED
      BY <1>5, <1>8, <1>12, <1>14, <2>1
  <1>19. \A k \in DOMAIN stack' : Stands(stack'[k], dispatches')
    <2> HIDE DEF Stands
    <2> QED
      BY <1>15, <1>16, <1>17, <1>18
  <1>20. ASSUME NEW k \in DOMAIN stack', NEW l \in DOMAIN stack',
                stack'[k].dispatch = stack'[l].dispatch, stack'[k].index = stack'[l].index
         PROVE  k = l
    <2> HIDE DEF Stands
    <2>1. CASE targets = <<>>
      BY <1>15, <1>20, <2>1 DEF CallsOK, Framed
    <2>2. CASE targets # <<>>
      <3>1. CASE k # 1 /\ l # 1
        <4>1. k - 1 = l - 1
          BY <1>16, <1>20, <2>2, <3>1 DEF CallsOK, Framed
        <4>2. k \in Nat /\ l \in Nat
          BY <1>16
        <4> QED
          BY <4>1, <4>2
      <3>2. CASE k = 1 \/ l = 1
        BY <1>14, <1>16, <1>17, <1>20, <2>2, <3>2
      <3> QED
        BY <3>1, <3>2
    <2> QED
      BY <2>1, <2>2
  <1>21. Framed'
    BY <1>19, <1>20 DEF Framed
  <1>22. listeners' \in [Event -> Seq(Entries)] /\ wildcards' \in Seq(Entries) /\ count' \in Nat
    <2>1. Kept(wildcards) \in Seq(Entries) /\ Kept(listeners[e]) \in Seq(Entries)
      BY SetOfKept DEF CallsOK, EventsType
    <2> QED
      BY <2>1 DEF Dispatch, CallsOK, EventsType
  <1>23. \A d \in DOMAIN dispatches' : Settled(dispatches'[d])
    <2>1. \A d \in 1..(N + 1) : d \in 1..N \/ d = N + 1
      OBVIOUS
    <2> QED
      BY <1>9, <1>10, <1>12, <2>1 DEF CallsOK
  <1> QED
    BY <1>12, <1>16, <1>21, <1>22, <1>23 DEF CallsOK, EventsType

LEMMA CallTypes ==
    ASSUME CallsOK, NEW d \in DOMAIN dispatches, NEW i \in DOMAIN dispatches[d].calls
    PROVE  d \in Nat /\ i \in Nat /\ dispatches[d].calls[i] \in Progress
  <1>1. d \in Nat /\ dispatches[d] \in Dispatched
    BY DEF CallsOK, EventsType
  <1>2. dispatches[d].calls \in Seq(Progress)
    BY <1>1 DEF Dispatched
  <1> QED
    BY <1>1, <1>2

LEMMA AnotherTry ==
    ASSUME NEW p \in Progress
    PROVE  p.tries \in Nat /\ p.tries + 1 \in Nat
  BY DEF Progress

LEMMA NewEntry ==
    ASSUME NEW l \in Listener, NEW once \in BOOLEAN, NEW n \in Nat
    PROVE  /\ Entry(l, once, n) \in Entries /\ Entry(l, once, n).id = n
           /\ Entry(l, once, n).listener = l /\ Entry(l, once, n).once = once
  BY DEF Entry, Entries

Recalled(d, i, c) ==
    /\ dispatches' \in Seq(Dispatched)
    /\ \A e \in DOMAIN dispatches' : Settled(dispatches'[e])
    /\ DOMAIN dispatches' = DOMAIN dispatches
    /\ \A e \in DOMAIN dispatches :
          /\ DOMAIN dispatches'[e].calls = DOMAIN dispatches[e].calls
          /\ \A j \in DOMAIN dispatches[e].calls :
                dispatches'[e].calls[j] =
                    IF e = d /\ j = i THEN c ELSE dispatches[e].calls[j]

\* A call that is at work again, or once more, changes neither how it nor how any other ended.
LEMMA OneCall ==
    ASSUME EventsAssumption, CallsOK, NEW d \in DOMAIN dispatches,
           NEW i \in DOMAIN dispatches[d].calls, NEW c \in Progress, c.at = "running",
           dispatches[d].calls[i].at \in {"parked", "running"},
           NEW cs, cs = [dispatches[d].calls EXCEPT ![i] = c],
           NEW E, E = [dispatches[d] EXCEPT !.calls = cs],
           dispatches' = [dispatches EXCEPT ![d] = E]
    PROVE  Recalled(d, i, c)
  <1>1. dispatches \in Seq(Dispatched)
    BY DEF CallsOK, EventsType
  <1>2. PICK D \in Dispatched : D = dispatches[d]
    BY <1>1
  <1>3. PICK n \in Nat : DOMAIN D.calls = 1..n /\ D.calls \in Seq(Progress)
    <2>1. PICK calls \in Seq(Progress) : calls = D.calls
      BY DEF Dispatched
    <2>2. PICK n \in Nat : n = Len(calls) /\ DOMAIN calls = 1..n
      OBVIOUS
    <2> QED
      BY <2>1, <2>2
  <1>4. /\ cs \in Seq(Progress) /\ DOMAIN cs = 1..n /\ i \in 1..n
        /\ \A j \in 1..n : cs[j] = IF j = i THEN c ELSE D.calls[j]
    BY <1>2, <1>3
  <1>5. E \in Dispatched /\ E.calls = cs /\ E.targets = D.targets /\ E.result = D.result
    BY <1>2, <1>4 DEF Dispatched
  <1>6. /\ dispatches' \in Seq(Dispatched) /\ DOMAIN dispatches' = DOMAIN dispatches
        /\ dispatches'[d] = E /\ \A e \in DOMAIN dispatches : e # d => dispatches'[e] = dispatches[e]
    <2>1. E \in Dispatched
      BY <1>5
    <2>2. PICK N \in Nat : DOMAIN dispatches = 1..N /\ dispatches \in [1..N -> Dispatched]
      BY <1>1
    <2>3. dispatches' \in [1..N -> Dispatched]
      BY <2>1, <2>2
    <2> QED
      BY <2>2, <2>3
  <1>7. Settled(D) /\ D.calls[i].at \in {"parked", "running"}
    BY <1>2 DEF CallsOK
  <1>8. Settled(E)
    <2>1. DOMAIN E.calls = DOMAIN E.targets
      BY <1>3, <1>4, <1>5, <1>7 DEF Settled
    <2>2. E.result # "resolved"
      <3>1. D.calls[i].at # "done" /\ i \in DOMAIN D.calls
        BY <1>3, <1>4, <1>7
      <3> QED
        BY <1>5, <1>7, <3>1 DEF Settled
    <2>3. \A j \in 1..n : cs[j].at = "failed" => cs[j].tries = Retries[D.targets[j].listener] + 1
      BY <1>3, <1>4, <1>7 DEF Settled
    <2>4. D.result = "rejected" => \E j \in 1..n : cs[j].at = "failed"
      <3> SUFFICES ASSUME D.result = "rejected"
                   PROVE  \E j \in 1..n : cs[j].at = "failed"
        OBVIOUS
      <3>1. PICK j \in 1..n : D.calls[j].at = "failed"
        BY <1>3, <1>7 DEF Settled
      <3>2. j # i
        BY <1>7, <3>1
      <3> QED
        BY <1>4, <3>1, <3>2
    <2> QED
      BY <1>4, <1>5, <2>1, <2>2, <2>3, <2>4 DEF Settled
  <1> QED
    BY <1>2, <1>3, <1>4, <1>5, <1>6, <1>8 DEF CallsOK, Recalled

LEMMA Resuming ==
    ASSUME EventsAssumption, CallsOK, NEW d \in DOMAIN dispatches,
           NEW i \in DOMAIN dispatches[d].calls, Resume(d, i)
    PROVE  CallsOK'
  <1>1. PICK p \in Progress : p = dispatches[d].calls[i]
    BY CallTypes
  <1>2. PICK c : c = [p EXCEPT !.at = "running"]
    OBVIOUS
  <1>3. c \in Progress /\ c.at = "running"
    BY <1>2 DEF Progress
  <1>4. PICK cs : cs = [dispatches[d].calls EXCEPT ![i] = c]
    OBVIOUS
  <1>5. PICK E : E = [dispatches[d] EXCEPT !.calls = cs]
    OBVIOUS
  <1>6. p.at = "parked" /\ dispatches' = [dispatches EXCEPT ![d] = E]
    BY <1>1, <1>2, <1>4, <1>5 DEF Resume
  <1>7. /\ dispatches' \in Seq(Dispatched)
        /\ \A e \in DOMAIN dispatches' : Settled(dispatches'[e])
        /\ d \in DOMAIN dispatches' /\ i \in DOMAIN dispatches'[d].calls
        /\ dispatches'[d].calls[i].at = "running"
    <2>1. dispatches[d].calls[i].at \in {"parked", "running"}
      BY <1>1, <1>6
    <2>2. Recalled(d, i, c)
      BY <1>3, <1>6, <1>4, <1>5, <2>1, OneCall
    <2> QED
      BY <1>3, <2>2 DEF Recalled
  <1>8. PICK f : f = [dispatch |-> d, index |-> i, mapping |-> FALSE]
    OBVIOUS
  <1>9. f \in Frame /\ f.dispatch = d /\ f.index = i /\ f.mapping = FALSE
    <2>1. d \in Nat /\ i \in Nat
      BY CallTypes
    <2> QED
      BY <1>8, <2>1 DEF Frame
  <1>10. stack' = <<f>>
    BY <1>8 DEF Resume
  <1>11. DOMAIN stack' = {1} /\ stack'[1] = f /\ stack' \in Seq(Frame)
    BY <1>9, <1>10
  <1>12. Framed'
    BY <1>7, <1>9, <1>11 DEF Framed
  <1> QED
    BY <1>7, <1>11, <1>12 DEF CallsOK, EventsType, Resume

LEMMA Retrying ==
    ASSUME EventsAssumption, CallsOK, RetryAtOnce
    PROVE  CallsOK'
  <1>1. PICK f \in Frame : f = Top /\ f = stack[1] /\ 1 \in DOMAIN stack
    BY DEF CallsOK, EventsType, RetryAtOnce, Top
  <1>2. PICK d, i : d = f.dispatch /\ i = f.index
    OBVIOUS
  <1>3. d \in DOMAIN dispatches /\ i \in DOMAIN dispatches[d].calls
    BY <1>1, <1>2 DEF CallsOK, Framed
  <1>4. dispatches[d].calls[i].at = "running"
    BY <1>1, <1>2 DEF CallsOK, Framed
  <1>5. PICK p \in Progress : p = dispatches[d].calls[i]
    BY <1>3, CallTypes
  <1>6. PICK c : c = [p EXCEPT !.tries = p.tries + 1]
    OBVIOUS
  <1>7. c \in Progress /\ c.at = "running"
    BY <1>4, <1>5, <1>6 DEF Progress
  <1>8. PICK cs : cs = [dispatches[d].calls EXCEPT ![i] = c]
    OBVIOUS
  <1>9. PICK E : E = [dispatches[d] EXCEPT !.calls = cs]
    OBVIOUS
  <1>10. dispatches' = [dispatches EXCEPT ![d] = E] /\ UNCHANGED stack
    BY <1>1, <1>2, <1>5, <1>6, <1>8, <1>9 DEF RetryAtOnce
  <1>11. /\ dispatches' \in Seq(Dispatched)
         /\ \A e \in DOMAIN dispatches' : Settled(dispatches'[e])
         /\ DOMAIN dispatches' = DOMAIN dispatches
         /\ \A e \in DOMAIN dispatches :
               /\ DOMAIN dispatches'[e].calls = DOMAIN dispatches[e].calls
               /\ \A j \in DOMAIN dispatches[e].calls :
                     dispatches'[e].calls[j].at = dispatches[e].calls[j].at
    <2>1. dispatches[d].calls[i].at \in {"parked", "running"}
      BY <1>4
    <2>2. Recalled(d, i, c)
      BY <1>3, <1>7, <1>10, <1>8, <1>9, <2>1, OneCall
    <2> QED
      BY <1>4, <1>7, <2>2 DEF Recalled
  <1>12. Framed'
    BY <1>10, <1>11 DEF CallsOK, Framed
  <1> QED
    BY <1>10, <1>11, <1>12 DEF CallsOK, EventsType, RetryAtOnce

LEMMA Settling ==
    ASSUME EventsAssumption, CallsOK, NEW d \in DOMAIN dispatches, Settle(d)
    PROVE  CallsOK'
  <1>1. dispatches \in Seq(Dispatched)
    BY DEF CallsOK, EventsType
  <1>2. PICK D \in Dispatched : D = dispatches[d] /\ D.calls = dispatches[d].calls /\ Settled(D)
    BY <1>1 DEF CallsOK
  <1>3. PICK result \in {"rejected", "resolved"} :
            result = IF Ended(d, "failed") # {} THEN "rejected" ELSE "resolved"
    OBVIOUS
  <1>4. PICK E : E = [D EXCEPT !.result = result]
    OBVIOUS
  <1>5. E \in Dispatched /\ E.calls = D.calls /\ E.targets = D.targets /\ E.result = result
    BY <1>3, <1>4 DEF Dispatched
  <1>6. dispatches' = [dispatches EXCEPT ![d] = E]
    BY <1>2, <1>3, <1>4 DEF Settle
  <1>7. /\ dispatches' \in Seq(Dispatched) /\ DOMAIN dispatches' = DOMAIN dispatches
        /\ dispatches'[d] = E /\ \A e \in DOMAIN dispatches : e # d => dispatches'[e] = dispatches[e]
    BY <1>1, <1>5, <1>6
  <1>8. Settled(E)
    <2>1. result = "rejected" => \E j \in DOMAIN D.calls : D.calls[j].at = "failed"
      BY <1>2, <1>3 DEF Ended
    <2>2. result = "resolved" => \A j \in DOMAIN D.calls : D.calls[j].at = "done"
      BY <1>2, <1>3 DEF Ended, Settle
    <2> QED
      BY <1>2, <1>5, <2>1, <2>2 DEF Settled
  <1>9. UNCHANGED <<listeners, wildcards, stack, count>> /\ stack = <<>>
    BY DEF Settle
  <1>10. DOMAIN stack' = {} /\ stack' \in Seq(Frame)
    BY <1>9
  <1>11. Framed'
    BY <1>10 DEF Framed
  <1> QED
    BY <1>7, <1>8, <1>9, <1>10, <1>11 DEF CallsOK, EventsType

\* What Boot maps to one event is a sequence of entries.
LEMMA Booted ==
    ASSUME EventsAssumption, count \in Nat, NEW e \in Event
    PROVE  /\ [i \in DOMAIN ListenMap |-> Entry(ListenMap[i][2], FALSE, count + i)] \in Seq(Entries)
           /\ Only([i \in DOMAIN ListenMap |-> Entry(ListenMap[i][2], FALSE, count + i)],
                   {i \in DOMAIN ListenMap : ListenMap[i][1] = e}) \in Seq(Entries)
           /\ ToSet(Only([i \in DOMAIN ListenMap |-> Entry(ListenMap[i][2], FALSE, count + i)],
                         {i \in DOMAIN ListenMap : ListenMap[i][1] = e})) =
                 {Entry(ListenMap[i][2], FALSE, count + i) :
                     i \in {j \in DOMAIN ListenMap : ListenMap[j][1] = e}}
  <1>1. PICK n \in Nat : n = Len(ListenMap) /\ DOMAIN ListenMap = 1..n
    BY DEF EventsAssumption
  <1>2. PICK all : all = [i \in 1..n |-> Entry(ListenMap[i][2], FALSE, count + i)]
    OBVIOUS
  <1>3. ASSUME NEW i \in 1..n PROVE all[i] \in Entries /\ all[i] = Entry(ListenMap[i][2], FALSE, count + i)
    <2>1. ListenMap[i] \in Event \X Listener
      BY <1>1 DEF EventsAssumption
    <2>2. ListenMap[i][2] \in Listener /\ count + i \in Nat
      BY <2>1
    <2>3. PICK l \in Listener, m \in Nat : l = ListenMap[i][2] /\ m = count + i
      BY <2>2
    <2>4. Entry(l, FALSE, m) \in Entries
      BY DEF Entry, Entries
    <2> QED
      BY <1>2, <2>3, <2>4
  <1>4. all \in Seq(Entries)
    <2>1. DOMAIN all = 1..n /\ all = [i \in 1..n |-> all[i]]
      BY <1>2
    <2>2. all \in [1..n -> Entries]
      BY <1>3, <2>1
    <2> QED
      BY <2>2
  <1>5. PICK I \in SUBSET (1..n) : I = {i \in 1..n : ListenMap[i][1] = e}
    OBVIOUS
  <1>6. Only(all, I) \in Seq(Entries) /\ ToSet(Only(all, I)) = {all[i] : i \in I}
    <2>1. DOMAIN all = 1..n
      BY <1>2
    <2> QED
      BY <1>4, <2>1, OnlySome
  <1>7. {all[i] : i \in I} = {Entry(ListenMap[i][2], FALSE, count + i) : i \in I}
    BY <1>3
  <1> QED
    BY <1>1, <1>2, <1>4, <1>5, <1>6, <1>7

LEMMA CallsSteps ==
    ASSUME EventsAssumption, CallsOK, [EventsNext]_eventVars
    PROVE  CallsOK'
  <1> USE DEF CallsOK, EventsType
  <1>1. ASSUME NEW e \in Event, NEW l \in Listener, NEW once \in BOOLEAN, On(e, l, once)
        PROVE  CallsOK'
    <2>1. PICK en \in Entries : en = Entry(l, once, count')
      BY <1>1, NewEntry DEF On
    <2>2. PICK s : s = Append(listeners[e], en)
      OBVIOUS
    <2>3. s \in Seq(Entries) /\ listeners' = [listeners EXCEPT ![e] = s]
      BY <1>1, <2>1, <2>2 DEF On
    <2> QED
      BY <1>1, <2>3, OthersCalls DEF On
  <1>2. ASSUME NEW l \in Listener, NEW once \in BOOLEAN, OnAny(l, once)
        PROVE  CallsOK'
    <2>1. PICK en \in Entries : en = Entry(l, once, count')
      BY <1>2, NewEntry DEF OnAny
    <2>2. wildcards' \in Seq(Entries)
      BY <1>2, <2>1 DEF OnAny
    <2> QED
      BY <1>2, <2>2, OthersCalls DEF OnAny
  <1>3. ASSUME Boot PROVE CallsOK'
    <2>1. PICK mapped : mapped = [e \in Event |->
              Only([i \in DOMAIN ListenMap |-> Entry(ListenMap[i][2], FALSE, count + i)],
                   {i \in DOMAIN ListenMap : ListenMap[i][1] = e})]
      OBVIOUS
    <2>2. \A e \in Event : mapped[e] \in Seq(Entries)
      BY <2>1, Booted
    <2>3. listeners' = [e \in Event |-> listeners[e] \o mapped[e]]
      BY <1>3, <2>1 DEF Boot
    <2>4. \A e \in Event : listeners[e] \o mapped[e] \in Seq(Entries)
      BY <2>2
    <2>5. count' \in Nat
      BY <1>3 DEF Boot, EventsAssumption
    <2> QED
      BY <1>3, <2>3, <2>4, <2>5, OthersCalls DEF Boot
  <1>4. ASSUME NEW e \in Event, NEW l \in Listener, Off(e, l) PROVE CallsOK'
    <2>1. PICK I \in SUBSET DOMAIN listeners[e] :
              I = {i \in DOMAIN listeners[e] : listeners[e][i].listener # l}
      OBVIOUS
    <2>2. PICK s : s = Only(listeners[e], I)
      OBVIOUS
    <2>3. s \in Seq(Entries)
      BY <2>2, OnlySome
    <2>4. listeners' = [listeners EXCEPT ![e] = s]
      BY <1>4, <2>1, <2>2 DEF Off
    <2> QED
      BY <1>4, <2>3, <2>4, OthersCalls DEF Off
  <1>5. ASSUME NEW e \in Event, ForgetEvent(e) PROVE CallsOK'
    BY <1>5, OthersCalls DEF ForgetEvent
  <1>6. ASSUME ForgetAll PROVE CallsOK'
    BY <1>6, OthersCalls DEF ForgetAll
  <1>7. ASSUME NEW e \in Event, Dispatch(e) PROVE CallsOK'
    BY <1>7, Dispatching
  <1>8. ASSUME stack # <<>>
        PROVE  /\ Call \in Progress /\ Running \in Listener /\ Retries[Running] \in Nat
    <2>1. PICK f \in Frame : f = Top /\ f = stack[1] /\ 1 \in DOMAIN stack
      BY <1>8 DEF Top
    <2>2. PICK d, i : d = f.dispatch /\ i = f.index
      OBVIOUS
    <2>3. d \in DOMAIN dispatches /\ i \in DOMAIN dispatches[d].calls
      BY <2>1, <2>2 DEF Framed
    <2>4. PICK D \in Dispatched : D = dispatches[d]
      BY <2>3
    <2>5. D.calls[i] \in Progress /\ i \in DOMAIN D.targets
      BY <2>3, <2>4 DEF Dispatched, Settled
    <2>6. D.targets[i] \in Entries
      BY <2>5 DEF Dispatched
    <2>7. D.targets[i].listener \in Listener
      BY <2>6 DEF Entries
    <2> QED
      BY <2>1, <2>2, <2>4, <2>5, <2>7 DEF Call, Running, EventsAssumption
  <1>9. ASSUME Await PROVE CallsOK'
    <2>1. PICK p \in Progress : p = Call
      BY <1>8, <1>9 DEF Await
    <2>2. PICK c : c = [p EXCEPT !.at = "parked", !.awaited = TRUE]
      OBVIOUS
    <2>3. c \in Progress /\ c.at = "parked"
      BY <2>2, AnotherTry DEF Progress
    <2>4. stack # <<>> /\ Leaves(c)
      BY <1>9, <2>2, <2>1 DEF Await
    <2> QED
      BY <2>3, <2>4, Leaving
  <1>10. ASSUME Return PROVE CallsOK'
    <2>1. PICK p \in Progress : p = Call
      BY <1>8, <1>10 DEF Return
    <2>2. PICK c : c = [p EXCEPT !.at = "done"]
      OBVIOUS
    <2>3. c \in Progress /\ c.at = "done"
      BY <2>2 DEF Progress
    <2>4. stack # <<>> /\ Leaves(c)
      BY <1>10, <2>2, <2>1 DEF Return
    <2> QED
      BY <2>3, <2>4, Leaving
  <1>11. ASSUME GiveUp PROVE CallsOK'
    <2>1. PICK p \in Progress : p = Call
      BY <1>8, <1>11 DEF GiveUp
    <2>2. PICK c : c = [p EXCEPT !.at = "failed", !.tries = p.tries + 1]
      OBVIOUS
    <2>3. c \in Progress /\ c.at = "failed" /\ c.tries = p.tries + 1
      BY <2>2, AnotherTry DEF Progress
    <2>4. stack # <<>> /\ Leaves(c) /\ p.tries = Retries[Running]
      BY <1>11, <2>2, <2>1 DEF GiveUp
    <2>5. c.tries = Retries[Running] + 1
      BY <2>3, <2>4
    <2> QED
      BY <2>3, <2>4, <2>5, Leaving
  <1>12. ASSUME Retry PROVE CallsOK'
    <2>1. PICK p \in Progress : p = Call
      BY <1>8, <1>12 DEF Retry
    <2>2. PICK c : c = [p EXCEPT !.at = "parked", !.tries = p.tries + 1, !.awaited = FALSE]
      OBVIOUS
    <2>3. c \in Progress /\ c.at = "parked"
      BY <2>2, AnotherTry DEF Progress
    <2>4. stack # <<>> /\ Leaves(c)
      BY <1>12, <2>2, <2>1 DEF Retry
    <2> QED
      BY <2>3, <2>4, Leaving
  <1>13. ASSUME UNCHANGED eventVars PROVE CallsOK'
    BY <1>13, OthersCalls DEF eventVars
  <1> QED
    BY <1>1, <1>2, <1>3, <1>4, <1>5, <1>6, <1>7, <1>9, <1>10, <1>11, <1>12, <1>13, Retrying,
       Settling, Resuming DEF EventsNext, ListenerStep

\* The inductive invariant of EventDispatcher.invoke, whatever listeners dispatch, await and
\* retry: no two frames run one call, and a settled dispatch has the calls to show for it.
THEOREM EventsCalls ==
    ASSUME EventsAssumption
    PROVE  EventsInit /\ [][EventsNext]_eventVars => []CallsOK
  <1>1. EventsInit => CallsOK
    BY DEF EventsInit, CallsOK, EventsType, Framed
  <1>2. CallsOK /\ [EventsNext]_eventVars => CallsOK'
    BY CallsSteps
  <1> QED
    BY <1>1, <1>2, PTL

\* A dispatch resolves only when every listener has succeeded, and rejects only for one that
\* has used up its attempts: Promise.all in EventDispatcher.dispatch, over the retries of
\* each listener, with dispatches nested in listeners.
THEOREM RetriesThenSettles ==
    ASSUME EventsAssumption
    PROVE  EventsSpec => []SettlesAfterRetries
  <1>1. ASSUME CallsOK PROVE SettlesAfterRetries
    BY <1>1 DEF CallsOK, Settled, SettlesAfterRetries, Ended
  <1> QED
    BY <1>1, EventsCalls, PTL DEF EventsSpec
-----------------------------------------------------------------------------
Called == UNION {ToSet(dispatches[d].targets) : d \in DOMAIN dispatches}
At(e) == ToSet(listeners[e])

\* Every subscription is in one place: no two events, nor an event and the wildcards, have
\* an entry in common, and none that was dropped or spent is registered. Its number is the
\* count when it was made.
OnceOK ==
    /\ \A en \in Registered \cup Called \cup dropped : en.id \in 1..count
    /\ \A e \in Event : At(e) \cap ToSet(wildcards) = {}
    /\ \A e, f \in Event : e # f => At(e) \cap At(f) = {}
    /\ \A en \in Spent : \A c, d \in Heard(en) : c = d
    /\ Registered \cap Spent = {} /\ (Registered \cup Spent) \cap dropped = {}
    /\ \A n \in 1..count : \E en \in Registered \cup Spent \cup dropped : en.id = n

LEMMA EntriesOf ==
    ASSUME CallsOK
    PROVE  Registered \in SUBSET Entries /\ Called \in SUBSET Entries
  <1>1. ASSUME NEW d \in DOMAIN dispatches PROVE ToSet(dispatches[d].targets) \in SUBSET Entries
    <2>1. dispatches[d].targets \in Seq(Entries)
      <3>1. dispatches[d] \in Dispatched
        BY DEF CallsOK, EventsType
      <3> QED
        BY <3>1 DEF Dispatched
    <2> QED
      BY <2>1, Growing
  <1>2. ASSUME NEW e \in Event PROVE ToSet(listeners[e]) \in SUBSET Entries
    BY Growing DEF CallsOK, EventsType
  <1>3. ToSet(wildcards) \in SUBSET Entries
    BY Growing DEF CallsOK, EventsType
  <1> QED
    BY <1>1, <1>2, <1>3 DEF Registered, Called

\* A step that makes some subscriptions, added[e] at the event e and any for all events, with
\* the next numbers.
LEMMA Subscribing ==
    ASSUME CallsOK, OnceOK, NEW more \in Nat, count' = count + more,
           UNCHANGED <<dispatches, dropped>>,
           NEW added, NEW any,
           \A e \in Event : At(e)' = At(e) \cup added[e],
           ToSet(wildcards)' = ToSet(wildcards) \cup any,
           \A en \in any \cup UNION {added[e] : e \in Event} :
               en.id \in (count + 1)..(count + more),
           \A e \in Event : added[e] \cap any = {},
           \A e, f \in Event : e # f => added[e] \cap added[f] = {},
           \A n \in (count + 1)..(count + more) :
               \E en \in any \cup UNION {added[e] : e \in Event} : en.id = n
    PROVE  OnceOK'
  <1> DEFINE news == any \cup UNION {added[e] : e \in Event}
             old == Registered \cup Called \cup dropped
  <1>1. count \in Nat
    BY DEF CallsOK, EventsType
  <1>2. ASSUME NEW en \in old PROVE en \notin news
    <2>1. en.id \in 1..count
      BY <1>2 DEF OnceOK
    <2>2. ~(en.id \in (count + 1)..(count + more))
      BY <1>1, <2>1
    <2> QED
      BY <2>2
  <1>3. Registered' = Registered \cup news
    BY DEF Registered, At
  <1>4. Called' = Called /\ Spent' = Spent /\ Spent \in SUBSET Called
        /\ \A en : Heard(en)' = Heard(en)
    BY DEF Called, Spent, Heard
  <1>5. \A en \in (Registered \cup Called \cup dropped)' : en.id \in 1..count'
    <2>1. ASSUME NEW en \in old \cup news PROVE en.id \in 1..(count + more)
      <3>1. CASE en \in old
        <4>1. en.id \in 1..count
          BY <3>1 DEF OnceOK
        <4> QED
          BY <1>1, <4>1
      <3>2. CASE en \in news
        <4>1. en.id \in (count + 1)..(count + more)
          BY <3>2
        <4> QED
          BY <1>1, <4>1
      <3> QED
        BY <2>1, <3>1, <3>2
    <2> QED
      BY <1>3, <1>4, <2>1
  <1>6. \A e \in Event : At(e) \in SUBSET Registered /\ added[e] \in SUBSET news
    BY DEF Registered, At
  <1>7. ToSet(wildcards) \in SUBSET Registered /\ any \in SUBSET news
    BY DEF Registered
  <1>8. (\A e \in Event : At(e) \cap ToSet(wildcards) = {})'
    <2>1. ASSUME NEW e \in Event
          PROVE  (At(e) \cup added[e]) \cap (ToSet(wildcards) \cup any) = {}
      <3>1. At(e) \cap ToSet(wildcards) = {}
        BY DEF OnceOK
      <3>2. \A en \in Registered : en \notin news
        BY <1>2
      <3> HIDE DEF news, old
      <3> QED
        BY <1>6, <1>7, <3>1, <3>2
    <2> QED
      BY <2>1
  <1>9. (\A e, f \in Event : e # f => At(e) \cap At(f) = {})'
    <2>1. ASSUME NEW e \in Event, NEW f \in Event, e # f
          PROVE  (At(e) \cup added[e]) \cap (At(f) \cup added[f]) = {}
      <3>1. At(e) \cap At(f) = {}
        BY <2>1 DEF OnceOK
      <3>2. \A en \in Registered : en \notin news
        BY <1>2
      <3>3. added[e] \cap added[f] = {}
        BY <2>1
      <3> HIDE DEF news, old
      <3> QED
        BY <1>6, <3>1, <3>2, <3>3
    <2> QED
      BY <2>1
  <1>10. (Registered \cap Spent = {} /\ (Registered \cup Spent) \cap dropped = {})'
    <2>1. Registered \cap Spent = {} /\ (Registered \cup Spent) \cap dropped = {}
      BY DEF OnceOK
    <2>2. \A en \in Spent \cup dropped : en \notin news
      BY <1>2, <1>4
    <2> HIDE DEF news, old
    <2> QED
      BY <1>3, <1>4, <2>1, <2>2
  <1>11. (\A n \in 1..count : \E en \in Registered \cup Spent \cup dropped : en.id = n)'
    <2>1. ASSUME NEW n \in 1..(count + more)
          PROVE  \E en \in Registered \cup news \cup Spent \cup dropped : en.id = n
      <3>1. n \in 1..count \/ n \in (count + 1)..(count + more)
        BY <1>1
      <3>2. CASE n \in 1..count
        BY <3>2 DEF OnceOK
      <3>3. CASE n \in (count + 1)..(count + more)
        BY <3>3
      <3> QED
        BY <3>1, <3>2, <3>3
    <2> HIDE DEF news, old
    <2> QED
      BY <1>3, <1>4, <2>1
  <1>12. (\A en \in Spent : \A c, d \in Heard(en) : c = d)'
    BY <1>4 DEF OnceOK
  <1> HIDE DEF news, old
  <1> QED
    BY <1>5, <1>8, <1>9, <1>10, <1>11, <1>12 DEF OnceOK

\* A step that drops some of the entries, and registers nothing.
LEMMA Dropping ==
    ASSUME CallsOK, OnceOK, UNCHANGED <<dispatches, count>>,
           NEW out, dropped' = dropped \cup (Registered \cap out),
           \A e \in Event : At(e)' = At(e) \ out,
           ToSet(wildcards)' = ToSet(wildcards) \ out
    PROVE  OnceOK'
  <1>1. Registered' = Registered \ out
    BY DEF Registered, At
  <1>2. Called' = Called /\ Spent' = Spent /\ Spent \in SUBSET Called
        /\ \A en : Heard(en)' = Heard(en)
    BY DEF Called, Spent, Heard
  <1>3. Registered \cup dropped = (Registered \cup dropped)'
    BY <1>1
  <1>4. \A en \in (Registered \cup Called \cup dropped)' : en.id \in 1..count'
    BY <1>1, <1>2, <1>3 DEF OnceOK
  <1>5. (\A e \in Event : At(e) \cap ToSet(wildcards) = {})'
    <2>1. \A e \in Event : At(e) \cap ToSet(wildcards) = {}
      BY DEF OnceOK
    <2>2. \A e \in Event : (At(e) \ out) \cap (ToSet(wildcards) \ out) = {}
      BY <2>1
    <2> QED
      BY <2>2
  <1>6. (\A e, f \in Event : e # f => At(e) \cap At(f) = {})'
    <2>1. \A e, f \in Event : e # f => At(e) \cap At(f) = {}
      BY DEF OnceOK
    <2>2. \A e, f \in Event : e # f => (At(e) \ out) \cap (At(f) \ out) = {}
      BY <2>1
    <2> QED
      BY <2>2
  <1>7. (Registered \cap Spent = {} /\ (Registered \cup Spent) \cap dropped = {})'
    <2>1. Registered \cap Spent = {} /\ (Registered \cup Spent) \cap dropped = {}
      BY DEF OnceOK
    <2> QED
      BY <1>1, <1>2, <2>1
  <1>8. (\A n \in 1..count : \E en \in Registered \cup Spent \cup dropped : en.id = n)'
    BY <1>1, <1>2, <1>3 DEF OnceOK
  <1>9. (\A en \in Spent : \A c, d \in Heard(en) : c = d)'
    BY <1>2 DEF OnceOK
  <1> QED
    BY <1>4, <1>5, <1>6, <1>7, <1>8, <1>9 DEF OnceOK

\* A step that changes how dispatches stand but not whom they call.
LEMMA SameTargets ==
    ASSUME OnceOK, UNCHANGED <<listeners, wildcards, count, dropped>>,
           DOMAIN dispatches' = DOMAIN dispatches,
           \A d \in DOMAIN dispatches : dispatches'[d].targets = dispatches[d].targets
    PROVE  OnceOK'
  <1>1. Registered' = Registered /\ \A e \in Event : At(e)' = At(e)
    BY DEF Registered, At
  <1>2. Called' = Called
    BY DEF Called
  <1>3. Spent' = Spent
    BY DEF Spent
  <1>4. \A en : Heard(en)' = Heard(en)
    BY DEF Heard
  <1> QED
    BY <1>1, <1>2, <1>3, <1>4 DEF OnceOK

\* A dispatch spends the once entries of its event and of the wildcards, which no dispatch
\* before it has called.
LEMMA Spending ==
    ASSUME CallsOK, OnceOK, NEW e \in Event, Dispatch(e)
    PROVE  OnceOK'
  <1>1. PICK W \in SUBSET Entries : W = ToSet(wildcards)
    BY Growing DEF CallsOK, EventsType
  <1>2. PICK L \in SUBSET Entries : L = At(e)
    BY Growing DEF CallsOK, EventsType, At
  <1>3. PICK once \in SUBSET (L \cup W) : once = {en \in L \cup W : en.once}
    OBVIOUS
  <1>4. /\ ToSet(Targets(e)) = L \cup W
        /\ ToSet(wildcards)' = W \ once
        /\ At(e)' = L \ once
        /\ \A f \in Event : f # e => At(f)' = At(f)
    <2>1. wildcards \in Seq(Entries) /\ listeners[e] \in Seq(Entries)
      BY DEF CallsOK, EventsType
    <2>2. ToSet(Targets(e)) = L \cup W
      BY <1>1, <1>2, <2>1, Growing DEF Targets, At
    <2>3. wildcards' = Kept(wildcards)
      BY DEF Dispatch
    <2>4. ToSet(wildcards)' = {en \in W : ~en.once}
      BY <1>1, <2>1, <2>3, SetOfKept
    <2>5. listeners' = [listeners EXCEPT ![e] = Kept(listeners[e])]
      BY DEF Dispatch
    <2>6. /\ listeners'[e] = Kept(listeners[e])
          /\ \A f \in Event : f # e => listeners'[f] = listeners[f]
      BY <2>5 DEF CallsOK, EventsType
    <2>7. At(e)' = {en \in L : ~en.once}
      BY <1>2, <2>1, <2>6, SetOfKept DEF At
    <2>8. \A f \in Event : f # e => At(f)' = At(f)
      BY <2>6 DEF At
    <2> QED
      BY <1>3, <2>2, <2>4, <2>7, <2>8
  <1>5. PICK N \in Nat : N = Len(dispatches) /\ DOMAIN dispatches = 1..N
    BY DEF CallsOK, EventsType
  <1>6. /\ DOMAIN dispatches' = 1..(N + 1)
        /\ \A d \in 1..N : dispatches'[d] = dispatches[d]
        /\ dispatches'[N + 1].targets = Targets(e)
    <2>1. PICK D : D = [targets |-> Targets(e), calls |-> Calls(Targets(e)),
                        result |-> IF Targets(e) = <<>> THEN "resolved" ELSE "pending"]
      OBVIOUS
    <2>2. dispatches' = Append(dispatches, D)
      BY <2>1 DEF Dispatch
    <2>3. /\ DOMAIN dispatches' = 1..(N + 1) /\ dispatches'[N + 1] = D
          /\ \A d \in 1..N : dispatches'[d] = dispatches[d]
      BY <1>5, <2>2 DEF CallsOK, EventsType
    <2>4. D.targets = Targets(e)
      BY <2>1
    <2> QED
      BY <2>3, <2>4
  <1>7. \A d \in 1..(N + 1) : d \in 1..N \/ d = N + 1
    BY <1>5
  <1>8. Called' = Called \cup L \cup W
    <2>1. \A d \in 1..N : d \in 1..(N + 1)
      BY <1>5
    <2>2. N + 1 \in 1..(N + 1)
      BY <1>5
    <2>3. \A en : en \in Called' <=> en \in Called \/ en \in L \cup W
      BY <1>4, <1>5, <1>6, <1>7, <2>1, <2>2 DEF Called
    <2> QED
      BY <2>3
  <1>9. \A en : \A d \in Heard(en)' : \/ d \in Heard(en)
                                      \/ d = N + 1 /\ en \in L \cup W
    BY <1>4, <1>5, <1>6, <1>7 DEF Heard
  <1>10. Spent' = Spent \cup once
    <2>1. Spent = {en \in Called : en.once} /\ Spent' = {en \in Called' : en.once}
      BY DEF Spent, Called
    <2> QED
      BY <1>3, <1>8, <2>1
  <1>11. Registered = W \cup UNION {At(f) : f \in Event} /\ L \cup W \in SUBSET Registered
    BY <1>1, <1>2 DEF Registered, At
  <1>12. /\ L \cap W = {}
         /\ \A f \in Event : f # e => At(f) \cap L = {}
         /\ \A f \in Event : At(f) \cap W = {}
         /\ Registered \cap Spent = {} /\ (Registered \cup Spent) \cap dropped = {}
    BY <1>1, <1>2 DEF OnceOK
  <1>13. \A f \in Event : At(f)' = At(f) \ once
    BY <1>2, <1>3, <1>4, <1>12
  <1>14. Registered' = Registered \ once
    <2>1. Registered' = ToSet(wildcards)' \cup UNION {At(f)' : f \in Event}
      BY DEF Registered, At
    <2> QED
      BY <1>4, <1>11, <1>13, <2>1
  <1>15. UNCHANGED <<count, dropped>>
    BY DEF Dispatch
  <1>16. \A en \in (Registered \cup Called \cup dropped)' : en.id \in 1..count'
    <2>1. \A en \in Registered \cup Called \cup dropped : en.id \in 1..count
      BY DEF OnceOK
    <2> QED
      BY <1>8, <1>11, <1>14, <1>15, <2>1
  <1>17. (\A f \in Event : At(f) \cap ToSet(wildcards) = {})'
    <2>1. \A f \in Event : (At(f) \ once) \cap (W \ once) = {}
      BY <1>12
    <2> QED
      BY <1>4, <1>13, <2>1
  <1>18. (\A f, g \in Event : f # g => At(f) \cap At(g) = {})'
    <2>1. \A f, g \in Event : f # g => (At(f) \ once) \cap (At(g) \ once) = {}
      BY DEF OnceOK
    <2> QED
      BY <1>13, <2>1
  <1>19. (\A en \in Spent : \A c, d \in Heard(en) : c = d)'
    <2> SUFFICES ASSUME NEW en \in Spent', NEW c \in Heard(en)', NEW d \in Heard(en)'
                 PROVE  c = d
      OBVIOUS
    <2>1. CASE en \in Spent
      <3>1. en \notin L \cup W
        BY <1>11, <1>12, <2>1
      <3>2. c \in Heard(en) /\ d \in Heard(en)
        BY <1>9, <3>1
      <3> QED
        BY <2>1, <3>2 DEF OnceOK
    <2>2. CASE en \in once
      <3>1. en \notin Spent /\ en.once
        BY <1>3, <1>11, <1>12, <2>2
      <3>2. Heard(en) = {}
        BY <3>1 DEF Heard, Spent
      <3> QED
        BY <1>9, <3>2
    <2> QED
      BY <1>10, <2>1, <2>2
  <1>20. (Registered \cap Spent = {} /\ (Registered \cup Spent) \cap dropped = {})'
    BY <1>3, <1>10, <1>11, <1>12, <1>14, <1>15
  <1>21. (\A n \in 1..count : \E en \in Registered \cup Spent \cup dropped : en.id = n)'
    <2>1. Registered \cup Spent \cup dropped \in SUBSET (Registered \cup Spent \cup dropped)'
      BY <1>10, <1>14, <1>15
    <2> QED
      BY <1>15, <2>1 DEF OnceOK
  <1> QED
    BY <1>16, <1>17, <1>18, <1>19, <1>20, <1>21 DEF OnceOK

LEMMA Standing ==
    ASSUME CallsOK,
           \/ \E c : stack # <<>> /\ Leaves(c)
           \/ RetryAtOnce
           \/ \E d \in DOMAIN dispatches : Settle(d)
           \/ \E d \in DOMAIN dispatches : \E i \in DOMAIN dispatches[d].calls : Resume(d, i)
    PROVE  /\ UNCHANGED <<listeners, wildcards, count, dropped>>
           /\ DOMAIN dispatches' = DOMAIN dispatches
           /\ \A d \in DOMAIN dispatches : dispatches'[d].targets = dispatches[d].targets
  <1>1. ASSUME NEW c, Leaves(c) 
        PROVE  /\ UNCHANGED <<listeners, wildcards, count, dropped>>
               /\ \E d, x : dispatches' = [dispatches EXCEPT ![d].calls = x]
    BY <1>1 DEF Leaves
  <1>2. ASSUME RetryAtOnce
        PROVE  /\ UNCHANGED <<listeners, wildcards, count, dropped>>
               /\ \E d, x : dispatches' = [dispatches EXCEPT ![d].calls = x]
    BY <1>2 DEF RetryAtOnce
  <1>3. ASSUME NEW d, NEW i, Resume(d, i)
        PROVE  /\ UNCHANGED <<listeners, wildcards, count, dropped>>
               /\ \E x : dispatches' = [dispatches EXCEPT ![d].calls = x]
    BY <1>3 DEF Resume
  <1>4. ASSUME NEW d, Settle(d)
        PROVE  /\ UNCHANGED <<listeners, wildcards, count, dropped>>
               /\ \E x : dispatches' = [dispatches EXCEPT ![d].result = x]
    BY <1>4 DEF Settle
  <1>5. dispatches \in Seq(Dispatched)
    BY DEF CallsOK, EventsType
  <1>6. ASSUME NEW d, NEW D, NEW n \in {"calls", "result"}, NEW x,
               D = [dispatches[d] EXCEPT ![n] = x],
               dispatches' = [dispatches EXCEPT ![d] = D]
        PROVE  /\ DOMAIN dispatches' = DOMAIN dispatches
               /\ \A e \in DOMAIN dispatches : dispatches'[e].targets = dispatches[e].targets
    <2>1. DOMAIN dispatches' = DOMAIN dispatches
      BY <1>6
    <2>2. \A e \in DOMAIN dispatches : e # d => dispatches'[e] = dispatches[e]
      BY <1>6
    <2>3. ASSUME d \in DOMAIN dispatches PROVE dispatches'[d].targets = dispatches[d].targets
      <3>1. dispatches[d] \in Dispatched
        BY <1>5, <2>3
      <3>2. D.targets = dispatches[d].targets
        BY <1>6, <3>1 DEF Dispatched
      <3> QED
        BY <1>6, <2>3, <3>2
    <2> QED
      BY <2>1, <2>2, <2>3
  <1> QED
    BY <1>1, <1>2, <1>3, <1>4, <1>6

LEMMA OnceSteps ==
    ASSUME EventsAssumption, CallsOK, OnceOK, [EventsNext]_eventVars
    PROVE  OnceOK'
  <1>0. count \in Nat /\ wildcards \in Seq(Entries) /\ listeners \in [Event -> Seq(Entries)]
    BY DEF CallsOK, EventsType
  <1>1. ASSUME NEW e \in Event, NEW l \in Listener, NEW once \in BOOLEAN, On(e, l, once)
        PROVE  OnceOK'
    <2>1. PICK en \in Entries : en = Entry(l, once, count') /\ en.id = count'
      BY <1>0, <1>1, NewEntry DEF On
    <2>2. listeners' = [listeners EXCEPT ![e] = Append(listeners[e], en)]
      BY <1>1, <2>1 DEF On
    <2>3. PICK added : added = [f \in Event |-> IF f = e THEN {en} ELSE {}]
      OBVIOUS
    <2>4. \A f \in Event : At(f)' = At(f) \cup added[f]
      <3>1. listeners'[e] = Append(listeners[e], en)
            /\ \A f \in Event : f # e => listeners'[f] = listeners[f]
        BY <1>0, <2>2
      <3>2. ToSet(listeners'[e]) = ToSet(listeners[e]) \cup {en}
        BY <1>0, <2>1, <3>1, Growing
      <3> QED
        BY <2>3, <3>1, <3>2 DEF At
    <2>5. UNION {added[f] : f \in Event} = {en}
      BY <2>3
    <2>6. PICK any : any = {}
      OBVIOUS
    <2>7. ToSet(wildcards)' = ToSet(wildcards) \cup any
      BY <1>1, <2>6 DEF On
    <2>8. /\ \A f \in Event : added[f] \cap any = {}
          /\ \A f, g \in Event : f # g => added[f] \cap added[g] = {}
      BY <2>3, <2>6
    <2>9. any \cup UNION {added[f] : f \in Event} = {en} /\ count' = count + 1
      BY <1>1, <2>5, <2>6 DEF On
    <2>10. UNCHANGED <<dispatches, dropped>>
      BY <1>1 DEF On
    <2>11. /\ \A x \in any \cup UNION {added[f] : f \in Event} : x.id \in (count + 1)..(count + 1)
           /\ \A n \in (count + 1)..(count + 1) :
                 \E x \in any \cup UNION {added[f] : f \in Event} : x.id = n
      <3>1. en.id = count + 1
        BY <2>1, <2>9
      <3>2. /\ \A x \in {en} : x.id \in (count + 1)..(count + 1)
            /\ \A n \in (count + 1)..(count + 1) : \E x \in {en} : x.id = n
        BY <1>0, <3>1
      <3> QED
        BY <2>9, <3>2
    <2> QED
      BY <2>4, <2>7, <2>8, <2>9, <2>10, <2>11, Subscribing
  <1>2. ASSUME NEW l \in Listener, NEW once \in BOOLEAN, OnAny(l, once)
        PROVE  OnceOK'
    <2>1. PICK en \in Entries : en = Entry(l, once, count') /\ en.id = count'
      BY <1>0, <1>2, NewEntry DEF OnAny
    <2>2. wildcards' = Append(wildcards, en)
      BY <1>2, <2>1 DEF OnAny
    <2>3. PICK added : added = [f \in Event |-> {}]
      OBVIOUS
    <2>4. \A f \in Event : At(f)' = At(f) \cup added[f]
      BY <1>2, <2>3 DEF At, OnAny
    <2>5. PICK any : any = {en}
      OBVIOUS
    <2>6. ToSet(wildcards)' = ToSet(wildcards) \cup any
      BY <1>0, <2>1, <2>2, <2>5, Growing
    <2>7. /\ \A f \in Event : added[f] \cap any = {}
          /\ \A f, g \in Event : f # g => added[f] \cap added[g] = {}
      BY <2>3, <2>5
    <2>8. any \cup UNION {added[f] : f \in Event} = {en} /\ count' = count + 1
      BY <1>2, <2>3, <2>5 DEF OnAny
    <2>9. UNCHANGED <<dispatches, dropped>>
      BY <1>2 DEF OnAny
    <2>10. /\ \A x \in any \cup UNION {added[f] : f \in Event} : x.id \in (count + 1)..(count + 1)
           /\ \A n \in (count + 1)..(count + 1) :
                 \E x \in any \cup UNION {added[f] : f \in Event} : x.id = n
      <3>1. en.id = count + 1
        BY <2>1, <2>8
      <3>2. /\ \A x \in {en} : x.id \in (count + 1)..(count + 1)
            /\ \A n \in (count + 1)..(count + 1) : \E x \in {en} : x.id = n
        BY <1>0, <3>1
      <3> QED
        BY <2>8, <3>2
    <2> QED
      BY <2>4, <2>6, <2>7, <2>8, <2>9, <2>10, Subscribing
  <1>3. ASSUME Boot PROVE OnceOK'
    <2>1. PICK n \in Nat : n = Len(ListenMap) /\ DOMAIN ListenMap = 1..n
      BY DEF EventsAssumption
    <2>2. PICK mapped : mapped = [e \in Event |->
              Only([i \in DOMAIN ListenMap |-> Entry(ListenMap[i][2], FALSE, count + i)],
                   {i \in DOMAIN ListenMap : ListenMap[i][1] = e})]
      OBVIOUS
    <2>3. PICK entry : entry = [i \in 1..n |-> Entry(ListenMap[i][2], FALSE, count + i)]
      OBVIOUS
    <2>4. \A i \in 1..n : entry[i].id = count + i /\ ListenMap[i][1] \in Event
      <3> SUFFICES ASSUME NEW i \in 1..n
                   PROVE  entry[i].id = count + i /\ ListenMap[i][1] \in Event
        OBVIOUS
      <3>1. ListenMap[i] \in Event \X Listener
        BY <2>1 DEF EventsAssumption
      <3>2. ListenMap[i][2] \in Listener
        BY <3>1
      <3>3. count + i \in Nat
        BY <1>0
      <3>4. PICK l \in Listener, m \in Nat : l = ListenMap[i][2] /\ m = count + i
        BY <3>2, <3>3
      <3>5. entry[i].id = m
        BY <2>3, <3>4, NewEntry
      <3> QED
        BY <3>1, <3>4, <3>5
    <2>5. PICK added : added = [e \in Event |-> {entry[i] : i \in {j \in 1..n : ListenMap[j][1] = e}}]
      OBVIOUS
    <2>6. ASSUME NEW e \in Event
          PROVE  mapped[e] \in Seq(Entries) /\ ToSet(mapped[e]) = added[e]
      <3>1. {Entry(ListenMap[i][2], FALSE, count + i) :
                 i \in {j \in DOMAIN ListenMap : ListenMap[j][1] = e}} = added[e]
        BY <2>1, <2>3, <2>5
      <3> QED
        BY <1>0, <2>2, <3>1, Booted
    <2>7. listeners' = [e \in Event |-> listeners[e] \o mapped[e]] /\ count' = count + n
          /\ UNCHANGED <<wildcards, dispatches, dropped>>
      BY <1>3, <2>1, <2>2 DEF Boot
    <2>8. ASSUME NEW e \in Event PROVE At(e)' = At(e) \cup added[e]
      <3>1. listeners'[e] = listeners[e] \o mapped[e]
        BY <2>7
      <3>2. ToSet(listeners'[e]) = ToSet(listeners[e]) \cup ToSet(mapped[e])
        BY <1>0, <2>6, <3>1, Growing
      <3> QED
        BY <2>6, <3>2 DEF At
    <2>9. PICK any : any = {}
      OBVIOUS
    <2>10. ToSet(wildcards)' = ToSet(wildcards) \cup any
      BY <2>7, <2>9
    <2>11. \A e, f \in Event : e # f => added[e] \cap added[f] = {}
      <3> SUFFICES ASSUME NEW e \in Event, NEW f \in Event, NEW x \in added[e], x \in added[f]
                   PROVE  e = f
        OBVIOUS
      <3>1. PICK i \in 1..n : x = entry[i] /\ ListenMap[i][1] = e
        BY <2>5
      <3>2. PICK j \in 1..n : x = entry[j] /\ ListenMap[j][1] = f
        BY <2>5
      <3>3. count + i = count + j
        BY <2>4, <3>1, <3>2
      <3>4. i = j
        BY <1>0, <3>3
      <3> QED
        BY <3>1, <3>2, <3>4
    <2>12. \A x \in any \cup UNION {added[e] : e \in Event} : \E i \in 1..n : x = entry[i]
      <3>1. ASSUME NEW x \in any \cup UNION {added[e] : e \in Event}
            PROVE  \E i \in 1..n : x = entry[i]
        <4>1. PICK news : news = UNION {added[e] : e \in Event}
          OBVIOUS
        <4>2. x \in news
          BY <2>9, <3>1, <4>1
        <4>3. PICK e \in Event : x \in added[e]
          BY <4>1, <4>2
        <4> QED
          BY <2>5, <4>3
      <3> QED
        BY <3>1
    <2>13. \A i \in 1..n : entry[i] \in any \cup UNION {added[e] : e \in Event}
      <3> SUFFICES ASSUME NEW i \in 1..n
                   PROVE  \E e \in Event : entry[i] \in added[e]
        OBVIOUS
      <3>1. PICK e \in Event : e = ListenMap[i][1]
        BY <2>4
      <3>2. entry[i] \in added[e]
        BY <2>5, <3>1
      <3> QED
        BY <3>2
    <2>14. \A i \in 1..n : count + i \in (count + 1)..(count + n)
      BY <1>0
    <2>15. \A m \in (count + 1)..(count + n) : m - count \in 1..n /\ count + (m - count) = m
      BY <1>0
    <2>16. \A x \in any \cup UNION {added[e] : e \in Event} : x.id \in (count + 1)..(count + n)
      BY <2>4, <2>12, <2>14
    <2>17. \A m \in (count + 1)..(count + n) :
              \E x \in any \cup UNION {added[e] : e \in Event} : x.id = m
      BY <2>4, <2>13, <2>15
    <2>18. \A e \in Event : added[e] \cap any = {}
      BY <2>9
    <2> QED
      BY <2>7, <2>8, <2>10, <2>11, <2>16, <2>17, <2>18, Subscribing
  <1>4. ASSUME NEW e \in Event, NEW l \in Listener, Off(e, l) PROVE OnceOK'
    <2>1. PICK I \in SUBSET DOMAIN listeners[e] :
              I = {i \in DOMAIN listeners[e] : listeners[e][i].listener # l}
      OBVIOUS
    <2>2. listeners' = [listeners EXCEPT ![e] = Only(listeners[e], I)]
      BY <1>4, <2>1 DEF Off
    <2>3. PICK out : out = {en \in At(e) : en.listener = l}
      OBVIOUS
    <2>4. At(e)' = At(e) \ out /\ \A f \in Event : f # e => At(f)' = At(f)
      <3>1. ToSet(Only(listeners[e], I)) = {listeners[e][i] : i \in I}
        <4>1. PICK s \in Seq(Entries) : s = listeners[e]
          BY <1>0
        <4> QED
          BY <4>1, OnlySome
      <3>2. At(e) = {listeners[e][i] : i \in DOMAIN listeners[e]}
        BY DEF At, ToSet
      <3>3. {listeners[e][i] : i \in I} = At(e) \ out
        BY <2>1, <2>3, <3>2
      <3>4. listeners'[e] = Only(listeners[e], I)
            /\ \A f \in Event : f # e => listeners'[f] = listeners[f]
        BY <1>0, <2>2
      <3> QED
        BY <3>1, <3>3, <3>4 DEF At
    <2>5. \A f \in Event : At(f)' = At(f) \ out
      BY <2>3, <2>4 DEF OnceOK
    <2>6. ToSet(wildcards)' = ToSet(wildcards) \ out
      <3>1. At(e) \cap ToSet(wildcards) = {}
        BY DEF OnceOK
      <3> QED
        BY <1>4, <2>3, <3>1 DEF Off
    <2>7. dropped' = dropped \cup (Registered \cap out)
      <3>1. out \in SUBSET Registered
        BY <2>3 DEF Registered, At
      <3>2. dropped' = dropped \cup out
        BY <1>4, <2>3 DEF Off, At
      <3> QED
        BY <3>1, <3>2
    <2>8. UNCHANGED <<dispatches, count>>
      BY <1>4 DEF Off
    <2> QED
      BY <2>5, <2>6, <2>7, <2>8, Dropping
  <1>5. ASSUME NEW e \in Event, ForgetEvent(e) PROVE OnceOK'
    <2>1. PICK out : out = At(e)
      OBVIOUS
    <2>2. At(e)' = {} /\ \A f \in Event : f # e => At(f)' = At(f)
      <3>1. listeners'[e] = <<>> /\ \A f \in Event : f # e => listeners'[f] = listeners[f]
        BY <1>0, <1>5 DEF ForgetEvent
      <3> QED
        BY <3>1 DEF At, ToSet
    <2>3. \A f \in Event : At(f)' = At(f) \ out
      BY <2>1, <2>2 DEF OnceOK
    <2>4. ToSet(wildcards)' = ToSet(wildcards) \ out
      <3>1. At(e) \cap ToSet(wildcards) = {}
        BY DEF OnceOK
      <3> QED
        BY <1>5, <2>1, <3>1 DEF ForgetEvent
    <2>5. dropped' = dropped \cup (Registered \cap out)
      <3>1. out \in SUBSET Registered
        BY <2>1 DEF Registered, At
      <3> QED
        BY <1>5, <2>1, <3>1 DEF ForgetEvent, At
    <2>6. UNCHANGED <<dispatches, count>>
      BY <1>5 DEF ForgetEvent
    <2> QED
      BY <2>3, <2>4, <2>5, <2>6, Dropping
  <1>6. ASSUME ForgetAll PROVE OnceOK'
    <2>1. PICK out : out = Registered
      OBVIOUS
    <2>2. \A f \in Event : At(f)' = {} /\ At(f) \in SUBSET out
      BY <1>6, <2>1 DEF ForgetAll, At, ToSet, Registered
    <2>3. ToSet(wildcards)' = {} /\ ToSet(wildcards) \in SUBSET out
      BY <1>6, <2>1 DEF ForgetAll, ToSet, Registered
    <2>4. \A f \in Event : At(f)' = At(f) \ out
      BY <2>2
    <2>5. ToSet(wildcards)' = ToSet(wildcards) \ out
      BY <2>3
    <2>6. dropped' = dropped \cup (Registered \cap out)
      BY <1>6, <2>1 DEF ForgetAll, Registered
    <2>7. UNCHANGED <<dispatches, count>>
      BY <1>6 DEF ForgetAll
    <2> QED
      BY <2>4, <2>5, <2>6, <2>7, Dropping
  <1>7. ASSUME Await \/ Return \/ GiveUp \/ Retry
        PROVE  \E c : stack # <<>> /\ Leaves(c)
    BY <1>7 DEF Await, Return, GiveUp, Retry
  <1>8. ASSUME ListenerStep PROVE OnceOK'
    BY <1>7, <1>8, Standing, SameTargets DEF ListenerStep
  <1>9. ASSUME UNCHANGED eventVars PROVE OnceOK'
    <2>1. UNCHANGED <<listeners, wildcards, dispatches, count, dropped>>
      BY <1>9 DEF eventVars
    <2> QED
      BY <2>1, SameTargets
  <1> QED
    BY <1>1, <1>2, <1>3, <1>4, <1>5, <1>6, <1>8, <1>9, Spending DEF EventsNext

\* No dispatch, nested in a listener or not, calls a once entry that another has called; what
\* was subscribed is registered, was removed on request or is spent, each entry one of these.
\* It is about "Remove before invoking" in EventDispatcher.dispatch, and about on, onAny, off,
\* forget and forgetAll while listeners run.
THEOREM OnceMeansOnce ==
    ASSUME EventsAssumption
    PROVE  EventsSpec => []OnceAndForAll
  <1>1. EventsInit => OnceOK
    <2> SUFFICES ASSUME EventsInit PROVE OnceOK
      OBVIOUS
    <2>1. listeners = [e \in Event |-> <<>>] /\ wildcards = <<>> /\ dispatches = <<>>
          /\ count = 0 /\ dropped = {}
      BY DEF EventsInit
    <2>2. ToSet(wildcards) = {} /\ \A e \in Event : ToSet(listeners[e]) = {}
      BY <2>1 DEF ToSet
    <2>3. Registered = {} /\ Called = {}
      BY <2>1, <2>2 DEF Registered, Called
    <2>4. Spent \in SUBSET Called /\ 1..count = {}
      BY <2>1 DEF Spent, Called
    <2> QED
      BY <2>1, <2>2, <2>3, <2>4 DEF OnceOK, At
  <1>2. CallsOK /\ OnceOK /\ [EventsNext]_eventVars => OnceOK'
    BY OnceSteps
  <1>3. ASSUME OnceOK PROVE OnceAndForAll
    <2>1. ASSUME NEW en \in Spent PROVE Cardinality(Heard(en)) = 1
      <3>1. PICK d : d \in Heard(en)
        BY DEF Spent, Heard
      <3>2. Heard(en) = {d}
        BY <1>3, <3>1 DEF OnceOK
      <3> QED
        BY <3>2, FS_Singleton
    <2> QED
      BY <1>3, <2>1 DEF OnceOK, OnceAndForAll
  <1> QED
    BY <1>1, <1>2, <1>3, EventsCalls, PTL DEF EventsSpec
=============================================================================
