------------------------------ MODULE MCCiCard ------------------------------
EXTENDS CiCard

D(hi, lo) == [sys |-> <<hi, lo>>]
\* Own and foreign systems in programs and streams, with and without a low byte,
\* and a data stream.
MCPmt == <<
  [saved |-> TRUE, desc |-> <<D(1, 0), D(6, 2)>>, es |-> <<[type |-> 2, desc |-> <<D(1, 0), D(5, 0)>>]>>],
  [saved |-> TRUE, desc |-> <<D(6, 1)>>, es |-> <<[type |-> 27, desc |-> <<>>], [type |-> 4, desc |-> <<D(6, 1)>>]>>] >>
MCCardIds == {<<1, 0>>, <<6, 1>>}
MCSelections == {{1}, {1, 2}}
=============================================================================
