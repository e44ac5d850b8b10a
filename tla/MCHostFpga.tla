----------------------------- MODULE MCHostFpga -----------------------------
EXTENDS HostFpga

\* A generated packet is a record like one that was read; x tells them apart.
Pkts(xs) == [i \in 1..Len(xs) |-> [chan |-> -1, pid |-> xs[i], n |-> 0]]
Download(g0, g1, g3) ==
  [h \in Howtos |-> Pkts(CASE h = 0 -> g0 [] h = 1 -> g1 [] h = 3 -> g3 [] OTHER -> <<>>)]

\* A 40 ms group that fills its area, one that is too long, an empty one.
MCDownloads ==
  { Download(<<60, 61>>, <<62>>, <<63>>), Download(<<60, 64, 65>>, <<66>>, <<>>),
    Download(<<>>, <<67>>, <<>>) }

MCMaps == {[c \in Channels |-> <<40 + c>>], [c \in Channels |-> <<50>>]}
MCRates == {<<1, 2>>, <<3, 4>>}
=============================================================================
