\* A keys.toml that becomes unreadable, as UTF-16 is.
SPECIFICATION KeptSpec
CONSTANTS
    Actions = {"search", "cut"}
    Defaults <- MCDefaults
    KeyFiles <- MCKeyFiles
    Listed = {"theme", "color_depth", "indent_width", "adapt", "language"}
    KeyEdits <- MCKeyEdits
    SettingFiles <- MCSettingFiles
    SettingEdits <- MCSettingEdits
    MaxKeySteps = 2
    MaxSettingSteps = 2
    Regions <- MCRegions
    Targets <- MCTargets
    MaxIds = 3
PROPERTY
    RefusedNotReplaced
CHECK_DEADLOCK FALSE
