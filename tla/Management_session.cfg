\* Two clients compete for the session; the tables have one value.  No
\* symmetry, for the liveness property.
CONSTANTS
    Clients = {a, b}
    Configs = {c1}
    HeartTimeout = 1
    MaxVarBinds = 2
    MaxVersion = 1
SPECIFICATION FairSpec
INVARIANTS TypeOK SingleManager FpExclusive
PROPERTIES SessionExpires
