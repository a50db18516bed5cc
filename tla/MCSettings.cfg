SPECIFICATION SettingsSpec
CONSTANTS
    q1 = q1
    q2 = q2
    plain = plain
    bearer = bearer
    gitMcp = gitMcp
    notesMcp = notesMcp
    ask = ask
    auto = auto
    slack = slack
    ana = ana
    ben = ben
    atlas = atlas
    odd = odd
    text = text
    bullets = bullets
    old = old
    neutral = neutral
    formal = formal
    Skill <- MCSkill
    Tool <- MCTool
    Builtin <- MCBuiltin
    Documented <- MCConfigured
    Configured <- MCConfigured
    Home <- MCHome
    Token <- MCToken
    Url = {gitMcp, notesMcp}
    Auth = {plain, bearer}
    Key <- MCKey
    Stateful = {gitMcp}
    Catalogue <- MCCatalogue
    Request = {q1, q2}
    Boot = Boot
    Asked <- MCAsked
    MaxRestarts <- MCRestarts
    MaxCrashes = 1
    Command = {q1, q2}
    Mode = {ask, auto}
    DefaultMode = ask
    Entry = {slack}
    Absent = Absent
    Empty = Empty
    Damaged = Damaged
    Invalid = Invalid
    Typed <- MCTyped
    MaxCommands = 3
    User = {ana, ben}
    Name = {Assistant, Agent, Blank, atlas, odd}
    Assistant = Assistant
    Agent = Agent
    Blank = Blank
    Personality = {NoText, text, bullets, old}
    NoText = NoText
    Tone = {neutral, formal}
    DefaultTone = neutral
    Unknown = Unknown
    Yaml <- MCYaml
    Trimmed <- MCTrimmed
    Custom <- MCCustom
    Client = {q1, q2}
    Change <- MCChange
    NoFile = NoFile
    MaxWrites = 3
    FactKey = {k1, k2}
    Tags = {"pets"}
    NoTags = NoTags
    Search = {"pet"}
    Like <- MCLike
    ListLimit = 1
    Storing = {s1, s2}
    NoFact = NoFact
    MaxMillis = 2
    Caller = {c1, c2}
    Replacement <- MCReplacement
    Written <- MCWritten
    NotThere = NotThere
    MaxFileCalls = 3
INVARIANTS
    SettingsTypeOK
    OfferedToolsAnswer
    RecentIsListed
PROPERTIES
    StartupRegisters FocusedStartupServes
    ImplementsAtomicFile
    ChangesAreEdits
    WritesKeepTheRest
    ReportedIsDone
CHECK_DEADLOCK FALSE
