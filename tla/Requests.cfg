SPECIFICATION Spec
CONSTANTS
    ann = ann
    bob = bob
    r1 = r1
    User = {ann, bob}
    Request = {r1}
    None = None
    ApiLives = {1}
    Seconds = 1
    Granted <- Abilities
    Ability = {"admin", "read", "typo"}
    MaxTokens = 2
    Horizon = 3
    Method = {"GET", "POST"}
    Pattern <- Patterns
    GroupPrefix <- Groups
    Path <- Paths
    Pipes <- NoPipes
    GroupPipes <- Guarded
    MaxRoutes = 2
    Form <- Forms
    Served <- DocsPage
    MaxHidden = 1
    Origin = {app, shop}
    NoOrigin = NoOrigin
    MaxShelf = 2
    Char <- Chars
    Text <- Texts
    Secret = {1, 2}
    Hmac <- Mac
    MaxSigned = 2
INVARIANTS
    DeadTokensStayOut
    
    MatchesFirstRoute
    DocumentedCallsValidate
    ReadersAreAllowed
    CookiesReadBack
PROPERTIES
    GoodTokensGetIn
CHECK_DEADLOCK FALSE
