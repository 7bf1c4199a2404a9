SPECIFICATION Spec
CONSTANTS
    Caller = {c1, c2}
    Data = {user, plan}
    Counter = {hits}
    Ttl = {1, 2}
    MaxEntries = 2
    Horizon = 2
    MaxSource = 1
    MaxCount = 2
    Key = {"K", "L", "R"}
    Value <- Values
    Real <- Environment
    Default <- Defaults
    MaxLines = 2
    Token = {"Db", "Repo"}
    Needs <- Graph
    Tolerant = {"tryRepo"}
    Factories <- Bindings
    Fragile = {"makeDb"}
    Scopes = 2
    MaxMade = 2
    AskedModules <- Modules
    AskedSecurity <- Stacks
    AskedDb <- Databases
    Name <- Names
    Kind = {"Event", "Job"}
    Adapter = {"drizzle", "prisma", "none"}
    Seeders <- SeederFiles
    Callable = {"Admins"}
    MaxFiles = 2
INVARIANTS
    MadeMigrationsAreApplied
CHECK_DEADLOCK FALSE
