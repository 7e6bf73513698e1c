SPECIFICATION Spec
CONSTANTS
    war3 = war3
    patch = patch
    share = share
    bare = bare
    Archives = {war3, patch}
    Directories = {share}
    Content <- MCContent
    Defaults <- MCDefaults
    BareDefaults <- MCBareDefaults
    FirstDefault = 1
    Priorities = {1}
    MaxSources = 2
INVARIANTS
    HighestPriorityServes
PROPERTIES
    RestartKeepsSources
    DialogKeepsOrder
