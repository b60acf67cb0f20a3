\* Line 158: "Evita double free".
SPECIFICATION Spec
CONSTANTS
    Pcb = {p1, p2}
    MaxRequests = 2
    MaxFaults = 1
INVARIANTS
    NoDoubleFree
