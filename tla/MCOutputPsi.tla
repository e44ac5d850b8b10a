----------------------------- MODULE MCOutputPsi -----------------------------
EXTENDS OutputPsi

Sec(pid, len) == [pid |-> pid, len |-> len]
Prog(num, pid) == [num |-> num, pid |-> pid]
Req(pat, pmt, cat, sdt, nit) ==
  [ty \in PsiTypes |-> CASE ty = PSI_TYPE_PAT -> pat [] ty = PSI_TYPE_PMT -> pmt
                         [] ty = PSI_TYPE_CAT -> cat [] ty = PSI_TYPE_SDT -> sdt
                         [] ty = PSI_TYPE_NIT -> nit]

\* Lengths at the edges of a packet, empty and over-long sections, tables not
\* flagged, PMTs that share a pid next to each other or not, more runs than
\* groups, a container that is exactly full and one that is too large.
MCRequests ==
  { Req(<<Sec(0, 184)>>, <<Sec(40, 184), Sec(41, 184), Sec(42, 367), Sec(43, 184)>>,
        <<Sec(1, 0)>>, <<Sec(17, 0), Sec(17, 0)>>, <<>>),
    Req(<<>>, <<Sec(40, 183), Sec(40, 60), Sec(41, 60), Sec(40, 60)>>, <<Sec(1, 200)>>,
        <<Sec(17, 0), Sec(17, 90)>>, <<Sec(16, 0)>>),
    Req(<<Sec(0, 0)>>, <<>>, <<>>, <<Sec(17, 2000), Sec(17, 900)>>, <<Sec(16, 200)>>) }

\* Inputs that number their programs alike, and one program too many.
MCSelections == {<<Prog(1, 50), Prog(1, 51), Prog(2, 52), Prog(7, 53)>>}
==============================================================================
