\* Two clients, two slots, leases that end with their block in a clock of four
\* blocks, and one restart of the machine.
SPECIFICATION FairSpec
CONSTANTS
    Client = {laptop, phone}
    NumSlots = 2
    Wrap = 4
    LeaseTime = 0
    MaxRestarts = 1
    MaxInFlight = 1
    NoMac = NoMac
    NoAddr = NoAddr
INVARIANTS
    TypeOK
    UniqueAddress
PROPERTIES
    EachClientIsServed
