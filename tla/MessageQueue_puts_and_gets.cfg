\* Two producers and two consumers, with every timeout.
CONSTANTS
    Producers = {p1, p2}
    Consumers = {c1, c2}
    Messages = {m1, m2}
    NoMessage = NoMessage
    Nobody = Nobody
    Modes = {"poll", "forever", "timed"}
    MaxPolls = 1
SPECIFICATION FairSpec
INVARIANTS BlocksKept NoLostWakeup
PROPERTIES IsMailbox EveryBlockGot
