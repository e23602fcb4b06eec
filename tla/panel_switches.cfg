\* A panel moves between a switch with WebSockets and one without
SPECIFICATION Spec
CONSTANTS
    Switch = {a, b}
    Upgrades = {a}
    MaxEffects = 3
    MaxDrops = 1
    MaxOutages = 1
INVARIANTS TypeOK NeverGivesUp OneLateWrite
PROPERTIES Recovers OldEffectsEnd OldEffectsWindDown
CHECK_DEADLOCK FALSE
