\* Two students, one of whom is a script and an instructor besides
SPECIFICATION Spec
CONSTANTS
    Port = {p1}
    Vsan = {1, 2}
    Zone = {z1}
    Zoneset = {s1}
    Pwwn = {w1}
    None = None
    Student = {a, b}
    Automation = {b}
    Instructor = {b}
    Script <- Scripts
    MaxRequests = 4
INVARIANTS TypeOK InterfaceKnown ZoneKnown VsanListsPort ActiveExists
CHECK_DEADLOCK FALSE
