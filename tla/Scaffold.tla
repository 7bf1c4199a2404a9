------------------------------ MODULE Scaffold ------------------------------
(***************************************************************************)
(* `pearl new`: it looks for the directory, asks or reads its flags, and   *)
(* writes an application. Each step is the code between two prompts. Of a  *)
(* generated file the model keeps what it imports and which variables of   *)
(* .env it reads; a package goes by its last name.                         *)
(***************************************************************************)
CONSTANTS AskedModules,   \* what --modules, or the checkbox, may list
          AskedSecurity,  \* the same for --security
          AskedDb         \* pairs of --orm and --db

ASSUME ScaffoldAssumption == \A db \in AskedDb : DOMAIN db = {1, 2}

Module == {"http", "auth", "validate", "database", "events", "mail", "queue"}
Security == {"errorHandler", "securityHeaders", "cors", "rateLimit"}
Orm == {"drizzle", "prisma", "typeorm", "raw"}
Driver == {"postgres", "mysql", "sqlite"}
NotGiven == {"not given"}  \* a set, as the values it stands in for
NoDb == <<>>

VARIABLES disk,  \* the directory: whether it holds the user's own work, what new wrote
          new    \* the command: where it is, its flags, the selection

scaffoldVars == <<disk, new>>

Absent == [mine |-> FALSE, dirs |-> {}, imports |-> <<>>, deps |-> {}, env |-> {}]
Mine == [Absent EXCEPT !.mine = TRUE]
-----------------------------------------------------------------------------
\* Selections.
Preset == [api |-> {"http", "validate", "auth", "database"},
           worker |-> {"queue", "events", "mail"},
           all |-> Module,
           minimal |-> {"http"}]

PresetSelection(p) == [modules |-> Preset[p], db |-> NoDb,
                       security |-> IF p = "worker" THEN {} ELSE Security]

\* Seeded defect: a worker keeps the middleware it was given.
NormalizeKeeps(sel) ==
    LET http == IF sel.modules \cap {"auth", "validate"} # {} THEN {"http"} ELSE {} IN
    [modules |-> sel.modules \cup http, security |-> sel.security,
     db |-> IF "database" \in sel.modules THEN sel.db ELSE NoDb]

Normalize(sel) ==
    LET http == IF sel.modules \cap {"auth", "validate"} # {} THEN {"http"} ELSE {} IN
    [modules |-> sel.modules \cup http,
     security |-> IF "http" \in sel.modules \cup http THEN sel.security ELSE {},
     db |-> IF "database" \in sel.modules THEN sel.db ELSE NoDb]

\* What selectionFromFlags builds before it normalizes, and when it throws.
Base(f) ==
    CASE f.modules # NotGiven ->
           [modules |-> f.modules, db |-> NoDb,
            security |-> IF "http" \in f.modules THEN Security ELSE {}]
      [] f.modules = NotGiven /\ f.preset \in DOMAIN Preset -> PresetSelection(f.preset)
      [] OTHER -> PresetSelection("minimal")

Refused(f) ==
    \/ f.modules # NotGiven /\ ~f.modules \subseteq Module
    \/ f.modules = NotGiven /\ f.preset = "unknown"
    \/ f.db # NoDb /\ (f.db[1] \notin Orm \/ f.db[2] \notin Driver)
    \/ f.security # NotGiven /\ ~f.security \subseteq Security

SelectionFromFlags(f) ==
    LET base == Base(f)
        modules == base.modules \cup (IF f.db # NoDb THEN {"database"} ELSE {})
    IN Normalize([modules |-> modules,
                  security |-> IF f.security # NotGiven THEN f.security ELSE base.security,
                  db |-> CASE f.db # NoDb -> f.db
                           [] f.db = NoDb /\ "database" \in modules -> <<"drizzle", "postgres">>
                           [] OTHER -> NoDb])

\* Everything promptSelection can return.
Picked == {PresetSelection(p) : p \in DOMAIN Preset}
          \cup UNION {{[modules |-> m, security |-> s, db |-> NoDb] :
                          s \in IF "http" \in Normalize([modules |-> m, security |-> {},
                                                         db |-> NoDb]).modules
                                THEN {t \in AskedSecurity : t \subseteq Security}
                                ELSE {{}}} :
                          m \in {m \in AskedModules : m \subseteq Module}}

Prompted == UNION {{[Normalize(sel) EXCEPT !.db = db] :
                       db \in IF "database" \in sel.modules THEN Orm \X Driver ELSE {NoDb}} :
                   sel \in Picked}
-----------------------------------------------------------------------------
\* What is written for a selection.
ModuleDeps == [m \in Module |-> {m} \cup CASE m = "validate" -> {"zod"}
                                         [] m = "mail" -> {"nodemailer"}
                                         [] m = "queue" -> {"bullmq", "ioredis"}
                                         [] OTHER -> {}]
DbDeps(db) == {db[i] : i \in DOMAIN db} \ {"raw"}

Deps(sel) == {"core", "dotenv", "testing", "vitest", "tsx"}
             \cup (UNION {ModuleDeps[m] : m \in sel.modules}) \cup DbDeps(sel.db)

\* The scripts of package.json run this file.
Main(sel) == IF "http" \in sel.modules THEN "src/server.ts" ELSE "src/worker.ts"
EntryFile(sel) == IF "http" \in sel.modules THEN "src/server.ts" ELSE "src/worker.ts"

Dirs(sel) ==
    {".", "src", "src/providers", "tests"}
    \cup (IF "http" \in sel.modules \/ sel.security # {} THEN {"src/middleware"} ELSE {})
    \cup (IF "database" \in sel.modules THEN {"database/seeders"} ELSE {})

DirOf(f) == CASE f \in {"src/server.ts", "src/worker.ts", "src/bootstrap.ts"} -> "src"
              [] f \in Security -> "src/middleware"
              [] f = "src/providers/AppServiceProvider.ts" -> "src/providers"
              [] f = "tests/example.test.ts" -> "tests"
              [] f = "vitest.config.ts" -> "."
              [] f = "database/seeders/DatabaseSeeder.ts" -> "database/seeders"

\* A middleware file goes by the name of its middleware.
ServerImports(sel) == {"http", "src/bootstrap.ts"} \cup sel.security
WorkerImports == {"src/bootstrap.ts"}
BootstrapImports(sel) ==
    {"dotenv", "core", "src/providers/AppServiceProvider.ts"} \cup sel.modules
MiddlewareImports(mw, sel) ==
    {"http"} \cup ({"validate" : m \in {mw} \cap {"errorHandler"}} \cap sel.modules)

SourceFiles(sel) ==
    {EntryFile(sel), "src/bootstrap.ts", "src/providers/AppServiceProvider.ts",
     "tests/example.test.ts", "vitest.config.ts"} \cup sel.security
    \cup (IF "database" \in sel.modules THEN {"database/seeders/DatabaseSeeder.ts"} ELSE {})

ImportsOf(f, sel) == CASE f = "src/server.ts" -> ServerImports(sel)
                       [] f = "src/worker.ts" -> WorkerImports
                       [] f = "src/bootstrap.ts" -> BootstrapImports(sel)
                       [] f = "src/providers/AppServiceProvider.ts" -> {"core"}
                       [] f = "tests/example.test.ts" -> {"vitest"}
                       [] f = "vitest.config.ts" -> {"vitest"}
                       [] f = "database/seeders/DatabaseSeeder.ts" -> {"core", "database"}
                       [] f \in Security -> MiddlewareImports(f, sel)

Imports(sel) == [f \in SourceFiles(sel) |-> ImportsOf(f, sel)]

\* Which settings src/server.ts and the CORS middleware read; a group of .env goes by the
\* module, driver or middleware it is for.
Reads(sel) == (IF EntryFile(sel) = "src/server.ts" THEN {"PORT"} ELSE {})
              \cup (sel.security \cap {"cors"})

EnvExample(sel) ==
    (IF "http" \in sel.modules THEN {"PORT"} ELSE {})
    \cup (IF sel.db = NoDb THEN {} ELSE {sel.db[2]})
    \cup (sel.modules \cap {"queue", "auth", "mail"})
    \cup (sel.security \cap {"cors"})
-----------------------------------------------------------------------------
ScaffoldInit ==
    /\ disk \in {Absent, Mine}
    /\ new = [at |-> "idle", flags |-> <<>>, sel |-> <<>>]

Goes(place) == new' = [new EXCEPT !.at = place]

Flags == [yes : BOOLEAN, modules : AskedModules \cup {NotGiven},
          preset : DOMAIN Preset \cup {"custom", "unknown", "none"},
          db : AskedDb \cup {NoDb}, security : AskedSecurity \cup {NotGiven}]

Start(f) ==
    /\ new.at = "idle"
    /\ new' = [new EXCEPT !.at = IF disk = Absent THEN "choosing" ELSE "found", !.flags = f]
    /\ UNCHANGED disk

\* With --yes an existing directory is never overwritten.
KeepDirectory ==
    /\ new.at = "found"
    /\ Goes("aborted")
    /\ UNCHANGED disk

Overwrite ==
    /\ new.at = "found" /\ ~new.flags.yes
    /\ disk' = Absent
    /\ Goes("choosing")

UsesFlags(f) == \/ f.yes \/ f.preset # "none" \/ f.modules # NotGiven
                \/ f.db # NoDb \/ f.security # NotGiven

ChooseByFlags ==
    /\ new.at = "choosing" /\ UsesFlags(new.flags)
    /\ IF Refused(new.flags)
       THEN Goes("refused")
       ELSE new' = [new EXCEPT !.at = "chosen", !.sel = SelectionFromFlags(new.flags)]
    /\ UNCHANGED disk

\* A prompt that is interrupted rejects, and exits like an unknown flag.
ChooseByPrompt ==
    /\ new.at = "choosing" /\ ~UsesFlags(new.flags)
    /\ \/ \E sel \in Prompted : new' = [new EXCEPT !.at = "chosen", !.sel = sel]
       \/ Goes("refused")
    /\ UNCHANGED disk

Decline ==
    /\ new.at = "chosen" /\ ~new.flags.yes
    /\ Goes("aborted")
    /\ UNCHANGED disk

WriteFiles ==
    /\ new.at = "chosen"
    /\ disk' = [mine |-> FALSE, dirs |-> Dirs(new.sel), imports |-> Imports(new.sel),
                deps |-> Deps(new.sel), env |-> EnvExample(new.sel)]
    /\ Goes("written")

\* An installation that fails only warns.
Install ==
    /\ new.at = "written"
    /\ Goes("done")
    /\ UNCHANGED disk

ScaffoldNext ==
    \/ \E f \in Flags : Start(f)
    \/ KeepDirectory \/ Overwrite \/ ChooseByFlags \/ ChooseByPrompt \/ Decline \/ WriteFiles
    \/ Install

ScaffoldSpec == ScaffoldInit /\ [][ScaffoldNext]_scaffoldVars
-----------------------------------------------------------------------------
\* A new application runs: every file has its directory, whatever a file imports is a
\* written file or a dependency of package.json, and .env names every setting that is
\* read. newApp decides on directories, files, packages and variables in six places.
NewApplicationRuns ==
    new.at = "done" =>
        /\ \A f \in DOMAIN disk.imports :
              /\ DirOf(f) \in disk.dirs
              /\ disk.imports[f] \subseteq disk.deps \cup DOMAIN disk.imports
        /\ Main(new.sel) \in DOMAIN disk.imports
        /\ Reads(new.sel) \subseteq disk.env
        /\ "database" \in new.sel.modules => disk.deps \cap Driver # {}
=============================================================================
