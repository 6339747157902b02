SPECIFICATION FairSpec
CONSTANTS
    a1 = a1
    c1 = c1
    p1 = p1
    watcher = watcher
    updater = updater
    manager = manager
    nobody = nobody
    Skill <- MCSkill
    Custom <- MCCustom
    Prompt <- MCPrompt
    Watcher = watcher
    Updater = updater
    Manager = manager
    Nobody = nobody
    MaxVersion = 2
    MaxEvents = 3
CHECK_DEADLOCK FALSE
INVARIANT EmptyOnlyInReload
INVARIANT FreshAtRest
INVARIANT NeverLost
PROPERTY StaleRepaired
