\* Two repositories at three places, two requests at once, one of the dashboard's two
\* requests cut short or one stop of the server.
SPECIFICATION FairSpec
CONSTANTS
    github = github
    codeberg = codeberg
    second = codebergSlash
    Places <- MCPlaces
    GitHubPlaces <- MCGitHub
    Bare <- MCBare
    MaxRepositories = 2
    Slots = {s1, s2}
    MaxRequests = 2
    Installed = {codeberg}
    MaxFaults = 1
    Keys = {"theme", "health"}
    FilterKeys = {"health"}
    Values = {"other"}
    Editors = {s1, s2}
    LineSizes = {1, 2}
    MaxLines = 3
    Cap = 4
INVARIANTS
    TypeOK
    TokensStayHome
    PendingIsExplained
    ActiveHasHook
    NoOrphanRuns
    OfferedActionsAreTaken
    LogTailIsItsEnd
    DeliveriesFindTheirRepository
PROPERTIES
    PatchIsExact
    EveryRepositoryPolled
CHECK_DEADLOCK FALSE
