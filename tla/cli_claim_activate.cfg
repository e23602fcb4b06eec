\* lab 1: zoneset activate
SPECIFICATION Spec
CONSTANTS
    Port = {p1}
    Vsan = {1, 2}
    Zone = {z1}
    Zoneset = {s1}
    Pwwn = {w1}
    None = None
    Student = {a}
    Automation = {}
    Instructor = {}
    Script <- Scripts
    MaxRequests = 5
PROPERTIES LabActivates
CHECK_DEADLOCK FALSE
