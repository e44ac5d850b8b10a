\* One client and the front panel edit and apply the tables.
CONSTANTS
    Clients = {a}
    Configs = {c1, c2}
    HeartTimeout = 0
    MaxVarBinds = 1
    MaxVersion = 2
SPECIFICATION Spec
SYMMETRY Symmetry
INVARIANTS MibFollowsEeprom
