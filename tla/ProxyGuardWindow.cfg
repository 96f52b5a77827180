SPECIFICATION GuardSpec
CONSTANTS
    UserSettings = {corp}
    Off = off
    Pce = pce
    Modes = {"panel"}
PROPERTIES
    SnapshotOutlivesTakeOver
