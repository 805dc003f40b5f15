SPECIFICATION FileSpec
CONSTANTS
    Processes = {p1}
    Settings = {s1, s2}
    Default = Default
    Partial = Partial
    Tries = 6
    MaxSaves = 3
    MaxKills = 3
INVARIANTS
    FileTypeOK
    OneRetryIsEnough
    SettingsSurvive
PROPERTY
    ConstructorSucceeds
