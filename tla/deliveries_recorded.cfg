\* A repository of the same name tracked on two Forgejo instances; no fault.
SPECIFICATION Spec
CONSTANTS
    github = github
    codeberg = codeberg
    second = disroot
    Places <- MCPlaces
    GitHubPlaces <- MCGitHub
    Bare <- MCOtherBare
    MaxRepositories = 2
    Slots = {s1}
    MaxRequests = 2
    Installed = {codeberg}
    MaxFaults = 0
    Keys = {"theme", "health"}
    FilterKeys = {"health"}
    Values = {"other"}
    Editors = {s1}
    LineSizes = {1}
    MaxLines = 1
    Cap = 1
INVARIANTS
    DeliveriesRecorded
CHECK_DEADLOCK FALSE
