\* Two actions, both bound; two changes and one event; three panes, three screens.
SPECIFICATION KeptSpec
CONSTANTS
    Actions = {"search", "cut"}
    Defaults <- MCDefaults
    KeyFiles <- MCKeyFiles
    Listed = {"theme", "color_depth", "indent_width", "adapt", "language"}
    KeyEdits <- MCKeyEdits
    SettingFiles <- MCSettingFiles
    SettingEdits <- MCSettingEdits
    MaxKeySteps = 2
    MaxSettingSteps = 2
    Regions <- MCRegions
    Targets <- MCTargets
    MaxIds = 3
INVARIANTS
    FilesInForce
    LayoutSound
PROPERTIES
    ChangesAreExact
    RuleMovesAlone
CHECK_DEADLOCK FALSE
