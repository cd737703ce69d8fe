\* Two files in two panes; three panes and a way back so short that it
\* overflows; docks of two rows.
SPECIFICATION PanesSpec
CONSTANTS
    Files = {f, g}
    MaxTabs = 3
    MaxPanes = 2
    StackDepth = 2
    WayPanes = 3
    DockRows = {2}
SYMMETRY FileSymmetry
INVARIANTS
    TabsSound
    FocusSound
    DocksFit
PROPERTY
    NothingIsTaken
