\* CLI, instructor and one bus connection at the same port
SPECIFICATION Spec
CONSTANTS
    VSAN = {1, 2}
    Generation = {8, 16}
    Cli = {cli}
    Instructor = {instructor}
    Bus = {bus}
    Boot <- BootAny
    Domain = {11}
    MaxCalls = 4
INVARIANTS TypeOK TrunkResultsMatch MergeEnds
PROPERTIES CallsAddUp
CHECK_DEADLOCK FALSE
