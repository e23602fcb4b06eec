\* Two sessions save, erase, reload; the process is killed
SPECIFICATION Spec
CONSTANTS
    Session = {a, b}
    Port = {p1}
    Vsan = {1, 2}
    MaxOps = 3
    MaxSaves = 3
    MaxCrashes = 2
INVARIANTS TypeOK SavedStays SettingsSurvive
CHECK_DEADLOCK FALSE
SYMMETRY Sessions
