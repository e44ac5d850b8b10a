--------------------------- MODULE PsiParseProofs ---------------------------
(***************************************************************************)
(* Proofs about PsiParse, for any number of channels, programs, sections   *)
(* and parses: what the status of a channel promises a client that reads   *)
(* the sections while the worker runs, and what g_chan_num promises the    *)
(* front panel. At the end, the same of PsiWorker, which starts the parses.*)
(***************************************************************************)
EXTENDS PsiParse, PsiWorker, TLAPS

\* The worker is inside a channel of the SNMP parse, or of the front panel's.
InChannel   == pc \in {"pat", "pmt", "cat", "sdt", "nit", "done"}
InFpChannel == pc \in {"fp_pmt", "fp_sdt", "fp_num"}

\* Between channels, and before the first of them.
Phase ==
    /\ InChannel \/ InFpChannel => k < N
    /\ pc \in {"clear", "fp_clear", "fp_sections"} => k = 0
    /\ InChannel \/ pc \in {"clear", "channel", "rest"} => parse > 0
    /\ pc = "fp_clear" => parse < MaxParses
    /\ pc \in {"pmt", "fp_pmt"} => cnt + pid_num <= P

\* Which channels the status names: none while the sections are cleared and
\* throughout a front panel parse, the ones below k during an SNMP parse.
StatusSoFar ==
    /\ pc \in {"clear", "fp_sections", "fp_channel"} \/ InFpChannel => ch_s = {}
    /\ pc \in {"channel", "rest"} \/ InChannel => ch_s = 0 .. k - 1

\* A channel the parse has not come to, and a result of this parse.
Untouched(c) ==
    /\ pat[c] = 0 /\ cat[c] = 0 /\ nit[c] = 0
    /\ \A p \in Programs : pmt[c][p] = 0
    /\ tbl_s[c] = {}

Fresh(c) ==
    /\ {pat[c], cat[c], nit[c]} \subseteq {0, parse}
    /\ \A p \in Programs : pmt[c][p] \in {0, parse}

Sections(c) == {p \in Programs : pmt[c][p] # 0}

\* What the parse knows of the channel it is at and of the ones after it.
Working ==
    /\ pc \in {"clear", "fp_sections"} => \A c \in Channels : tbl_s[c] = {}
    /\ pc \in {"channel", "rest"} => \A c \in Channels : c >= k => Untouched(c)
    /\ InChannel => Fresh(k) /\ \A c \in Channels : c > k => Untouched(c)
    /\ pc = "pat" => Untouched(k)
    /\ pc = "pmt" => pmt_state = Sections(k)
    /\ pc \in {"cat", "sdt", "nit", "done"} => tbl_s[k] = Sections(k)

\* The program table of the channels that fp_psi_parse has not come to is
\* empty, and that of its channel is as long as its count.
FpWorking ==
    /\ pc = "fp_clear" => \A c \in Channels : chan_num[c] = 0
    /\ pc \in {"fp_sections", "fp_channel"} =>
            \A c \in Channels : c >= k => prog_table[c] = 0
    /\ InFpChannel => \A c \in Channels : c > k => prog_table[c] = 0
    /\ pc \in {"fp_pmt", "fp_sdt"} => prog_table[k] = cnt
    /\ pc = "fp_num" => cnt <= prog_table[k]

\* The parts of TypeOK: the worker's place, the sections, the flags and the
\* front panel's tables.
CtrlOK ==
    /\ pc \in {"idle", "clear", "channel", "pat", "pmt", "cat", "sdt", "nit",
               "done", "rest", "end", "fp_clear", "fp_sections", "fp_channel",
               "fp_pmt", "fp_sdt", "fp_num"}
    /\ k \in 0 .. N /\ parse \in 0 .. MaxParses /\ ts \subseteq Channels
    /\ ch_s \subseteq Channels /\ pid_num \in 0 .. P /\ cnt \in 0 .. P

SectionsOK ==
    /\ pat \in [Channels -> Content] /\ cat \in [Channels -> Content]
    /\ nit \in [Channels -> Content]
    /\ pmt \in [Channels -> [Programs -> Content]]
    /\ sdt \in [0 .. N -> [Sdts -> Content]]
    /\ tbl_s \in [Channels -> SUBSET Programs] /\ pmt_state \subseteq Programs

FlagsOK == request_stop_parse \in BOOLEAN /\ had_nit \in BOOLEAN

FpOK == prog_table \in [Channels -> 0 .. P] /\ chan_num \in [Channels -> 0 .. P]

Exact == ReportedIsFresh /\ BitmapNamesSections
Frame == CtrlOK /\ SectionsOK /\ FpOK /\ Phase /\ StatusSoFar
IInv  == Frame /\ FlagsOK /\ Working /\ Exact /\ FpWorking /\ ListedIsComplete

-----------------------------------------------------------------------------
\* The three ways on from the head of the channel loop.
LEMMA ChannelCases ==
    ASSUME Channel
    PROVE  /\ pc = "channel"
           /\ UNCHANGED <<parse, ts, pid_num, cnt, pmt_state, tbl_s>>
           /\ UNCHANGED <<pat, cat, nit, pmt, sdt, prog_table, chan_num>>
           /\ \/ pc' = "rest" /\ k' = k /\ ch_s' = ch_s
              \/ k \in ts /\ pc' = "pat" /\ k' = k /\ ch_s' = ch_s
              \/ k # N /\ ch_s' = ch_s \cup {k} /\ k' = k + 1 /\ pc' = "channel"
  BY Zenon DEF Channel, sections, locals, fptables

\* The effect of a decoded PAT, apart from the flag had_nit.
LEMMA PatCases ==
    ASSUME ParsePat
    PROVE  /\ pc = "pat" /\ pc' = "pmt"
           /\ pat' = [pat EXCEPT ![k] = parse]
           /\ pid_num' \in 0 .. P /\ cnt' = 0 /\ pmt_state' = {}
           /\ UNCHANGED <<k, parse, ts, cat, nit, pmt, sdt, ch_s, tbl_s>>
           /\ UNCHANGED <<prog_table, chan_num>>
  BY Zenon DEF ParsePat, status, fptables

\* The phases of the two parses.
LEMMA PhaseStep == ASSUME Frame, [Next]_vars PROVE Phase'
<1> USE PsiParseAssumption
    DEF Frame, CtrlOK, Phase, InChannel, InFpChannel, Channels, sections, status,
        locals, fptables
<1>1. CASE Stop
  BY <1>1 DEF Stop
<1>2. CASE ParseBegin
  BY <1>2 DEF ParseBegin, Dispatched, ClearStatus
<1>3. CASE Clear
  BY <1>3 DEF Clear, ClearSections, ClearSdt
<1>4. CASE Channel
  BY <1>4, ChannelCases
<1>5. CASE ParsePatFails
  BY <1>5 DEF ParsePatFails
<1>6. CASE ParsePat
  BY <1>6, PatCases
<1>7. CASE PmtFails
  BY <1>7 DEF PmtFails
<1>8. CASE PmtNoSection
  BY <1>8 DEF PmtNoSection
<1>9. CASE PmtSection
  BY <1>9 DEF PmtSection
<1>10. CASE PmtEnd
  BY <1>10 DEF PmtEnd
<1>11. CASE ParseCat
  BY <1>11 DEF ParseCat
<1>12. CASE ParseSdt
  BY <1>12 DEF ParseSdt, SdtGot
<1>13. CASE ParseNit
  BY <1>13 DEF ParseNit
<1>14. CASE ChannelDone
  BY <1>14 DEF ChannelDone
<1>15. CASE Rest
  BY <1>15 DEF Rest
<1>16. CASE ParseEnd
  BY <1>16 DEF ParseEnd
<1>17. CASE FpBegin
  BY <1>17 DEF FpBegin, Dispatched
<1>18. CASE FpClear
  BY <1>18 DEF FpClear, ClearStatus
<1>19. CASE FpClearSections
  BY <1>19 DEF FpClearSections, ClearSections, ClearSdt
<1>20. CASE FpChannel
  BY <1>20 DEF FpChannel
<1>21. CASE FpPmt
  BY <1>21 DEF FpPmt
<1>22. CASE FpChannelFails
  BY <1>22 DEF FpChannelFails
<1>23. CASE FpPmtEnd
  BY <1>23 DEF FpPmtEnd
<1>24. CASE FpSdt
  BY <1>24 DEF FpSdt, SdtGot
<1>25. CASE FpNum
  BY <1>25 DEF FpNum
<1>26. CASE UNCHANGED vars
  BY <1>26 DEF vars
<1>27. QED
  BY <1>1, <1>2, <1>3, <1>4, <1>5, <1>6, <1>7, <1>8, <1>9, <1>10, <1>11, <1>12,
     <1>13, <1>14, <1>15, <1>16, <1>17, <1>18, <1>19, <1>20, <1>21, <1>22, <1>23,
     <1>24, <1>25, <1>26 DEF Next, SnmpParse, FpParse

\* Which channels the status names.
LEMMA StatusStep == ASSUME Frame, [Next]_vars PROVE StatusSoFar'
<1> USE PsiParseAssumption
    DEF Frame, CtrlOK, Phase, StatusSoFar, InChannel, InFpChannel, Channels,
        sections, status, locals, fptables
<1>1. CASE Stop
  BY <1>1 DEF Stop
<1>2. CASE ParseBegin
  BY <1>2 DEF ParseBegin, Dispatched, ClearStatus
<1>3. CASE Clear
  BY <1>3 DEF Clear, ClearSections, ClearSdt
<1>4. CASE Channel
  <2>1. pc = "channel" /\ ch_s = 0 .. k - 1
    BY <1>4, ChannelCases
  <2>2. ch_s' = 0 .. k' - 1 /\ pc' \in {"rest", "pat", "channel"}
    <3>1. CASE k' = k /\ ch_s' = ch_s
      BY <1>4, <2>1, <3>1, ChannelCases
    <3>2. CASE k' = k + 1 /\ ch_s' = ch_s \cup {k}
      BY <1>4, <2>1, <3>2, ChannelCases
    <3>3. QED
      BY <1>4, <3>1, <3>2, ChannelCases
  <2>3. QED
    BY <2>2
<1>5. CASE ParsePatFails
  BY <1>5 DEF ParsePatFails
<1>6. CASE ParsePat
  BY <1>6, PatCases
<1>7. CASE PmtFails
  BY <1>7 DEF PmtFails
<1>8. CASE PmtNoSection
  BY <1>8 DEF PmtNoSection
<1>9. CASE PmtSection
  BY <1>9 DEF PmtSection
<1>10. CASE PmtEnd
  BY <1>10 DEF PmtEnd
<1>11. CASE ParseCat
  BY <1>11 DEF ParseCat
<1>12. CASE ParseSdt
  BY <1>12 DEF ParseSdt, SdtGot
<1>13. CASE ParseNit
  BY <1>13 DEF ParseNit
<1>14. CASE ChannelDone
  BY <1>14 DEF ChannelDone
<1>15. CASE Rest
  BY <1>15 DEF Rest
<1>16. CASE ParseEnd
  BY <1>16 DEF ParseEnd
<1>17. CASE FpBegin
  BY <1>17 DEF FpBegin, Dispatched
<1>18. CASE FpClear
  BY <1>18 DEF FpClear, ClearStatus
<1>19. CASE FpClearSections
  BY <1>19 DEF FpClearSections, ClearSections, ClearSdt
<1>20. CASE FpChannel
  BY <1>20 DEF FpChannel
<1>21. CASE FpPmt
  BY <1>21 DEF FpPmt
<1>22. CASE FpChannelFails
  BY <1>22 DEF FpChannelFails
<1>23. CASE FpPmtEnd
  BY <1>23 DEF FpPmtEnd
<1>24. CASE FpSdt
  BY <1>24 DEF FpSdt, SdtGot
<1>25. CASE FpNum
  BY <1>25 DEF FpNum
<1>26. CASE UNCHANGED vars
  BY <1>26 DEF vars
<1>27. QED
  BY <1>1, <1>2, <1>3, <1>4, <1>5, <1>6, <1>7, <1>8, <1>9, <1>10, <1>11, <1>12,
     <1>13, <1>14, <1>15, <1>16, <1>17, <1>18, <1>19, <1>20, <1>21, <1>22, <1>23,
     <1>24, <1>25, <1>26 DEF Next, SnmpParse, FpParse

\* Types of the worker's place.
LEMMA CtrlStep == ASSUME Frame, [Next]_vars PROVE CtrlOK'
<1> USE PsiParseAssumption
    DEF Frame, CtrlOK, Phase, InChannel, InFpChannel, Channels, sections, status,
        locals, fptables
<1>1. CASE Stop
  BY <1>1 DEF Stop
<1>2. CASE ParseBegin
  BY <1>2 DEF ParseBegin, Dispatched, ClearStatus
<1>3. CASE Clear
  BY <1>3 DEF Clear, ClearSections, ClearSdt
<1>4. CASE Channel
  <2>1. /\ parse' = parse /\ ts' = ts /\ cnt' = cnt /\ pid_num' = pid_num
        /\ pc' \in {"rest", "pat", "channel"}
        /\ \/ k' = k /\ ch_s' = ch_s
           \/ k # N /\ ch_s' = ch_s \cup {k} /\ k' = k + 1
    BY <1>4, ChannelCases, Zenon
  <2>2. k' \in 0 .. N /\ ch_s' \subseteq Channels
    <3>1. CASE k' = k /\ ch_s' = ch_s
      BY <3>1
    <3>2. CASE k # N /\ ch_s' = ch_s \cup {k} /\ k' = k + 1
      BY <3>2
    <3>3. QED
      BY <2>1, <3>1, <3>2
  <2>3. QED
    BY <2>1, <2>2
<1>5. CASE ParsePatFails
  BY <1>5 DEF ParsePatFails
<1>6. CASE ParsePat
  <2>1. /\ pc' = "pmt" /\ k' = k /\ parse' = parse /\ ts' = ts /\ ch_s' = ch_s
        /\ pid_num' \in 0 .. P /\ cnt' = 0
    BY <1>6, PatCases, Zenon
  <2>2. QED
    BY <2>1
<1>7. CASE PmtFails
  BY <1>7 DEF PmtFails
<1>8. CASE PmtNoSection
  BY <1>8 DEF PmtNoSection
<1>9. CASE PmtSection
  BY <1>9 DEF PmtSection
<1>10. CASE PmtEnd
  BY <1>10 DEF PmtEnd
<1>11. CASE ParseCat
  BY <1>11 DEF ParseCat
<1>12. CASE ParseSdt
  BY <1>12 DEF ParseSdt, SdtGot
<1>13. CASE ParseNit
  BY <1>13 DEF ParseNit
<1>14. CASE ChannelDone
  BY <1>14 DEF ChannelDone
<1>15. CASE Rest
  BY <1>15 DEF Rest
<1>16. CASE ParseEnd
  BY <1>16 DEF ParseEnd
<1>17. CASE FpBegin
  BY <1>17 DEF FpBegin, Dispatched
<1>18. CASE FpClear
  BY <1>18 DEF FpClear, ClearStatus
<1>19. CASE FpClearSections
  BY <1>19 DEF FpClearSections, ClearSections, ClearSdt
<1>20. CASE FpChannel
  BY <1>20 DEF FpChannel
<1>21. CASE FpPmt
  BY <1>21 DEF FpPmt
<1>22. CASE FpChannelFails
  BY <1>22 DEF FpChannelFails
<1>23. CASE FpPmtEnd
  BY <1>23 DEF FpPmtEnd
<1>24. CASE FpSdt
  BY <1>24 DEF FpSdt, SdtGot
<1>25. CASE FpNum
  BY <1>25 DEF FpNum
<1>26. CASE UNCHANGED vars
  BY <1>26 DEF vars
<1>27. QED
  BY <1>1, <1>2, <1>3, <1>4, <1>5, <1>6, <1>7, <1>8, <1>9, <1>10, <1>11, <1>12,
     <1>13, <1>14, <1>15, <1>16, <1>17, <1>18, <1>19, <1>20, <1>21, <1>22, <1>23,
     <1>24, <1>25, <1>26 DEF Next, SnmpParse, FpParse

\* Types of the sections.
LEMMA SectionsStep == ASSUME Frame, [Next]_vars PROVE SectionsOK'
<1> USE PsiParseAssumption DEF Frame, CtrlOK, SectionsOK, sections, status, locals
<1>1. 0 \in Content /\ parse \in Content
  BY DEF Content, Output
<1>2. CASE \/ Stop \/ Channel \/ ParsePatFails \/ PmtNoSection \/ ChannelDone
           \/ Rest \/ ParseEnd \/ FpBegin \/ FpChannel \/ FpPmt
           \/ FpChannelFails \/ FpPmtEnd \/ FpNum \/ UNCHANGED vars
  <2>1. UNCHANGED <<pat, cat, nit, pmt, sdt, tbl_s, pmt_state>>
    BY <1>2, Zenon
    DEF Stop, Channel, ParsePatFails, PmtNoSection, ChannelDone, Rest, ParseEnd,
        FpBegin, FpChannel, FpPmt, FpChannelFails, FpPmtEnd, FpNum, vars
  <2>2. QED
    BY <2>1
<1>3. CASE ParseBegin \/ FpClear
  BY <1>3 DEF ParseBegin, FpClear, ClearStatus
<1>4. CASE Clear \/ FpClearSections
  BY <1>1, <1>4 DEF Clear, FpClearSections, ClearSections, ClearSdt
<1>5. CASE ParsePat
  BY <1>1, <1>5, PatCases
<1>6. CASE PmtFails \/ PmtEnd
  BY <1>6 DEF PmtFails, PmtEnd
<1>7. CASE PmtSection
  <2>1. k \in Channels /\ cnt \in Programs
    BY <1>7 DEF PmtSection, Phase, InChannel, Channels, Programs
  <2>2. QED
    BY <1>1, <1>7, <2>1 DEF PmtSection
<1>8. CASE ParseCat
  BY <1>1, <1>8 DEF ParseCat
<1>9. CASE ParseSdt \/ FpSdt
  <2>1. PICK n \in 0 .. S : sdt' = SdtGot(n)
    BY <1>9 DEF ParseSdt, FpSdt
  <2>2. k \in 0 .. N /\ [i \in Sdts |-> IF i < n THEN parse ELSE sdt[k][i]]
                            \in [Sdts -> Content]
    BY <1>1
  <2>3. sdt' \in [0 .. N -> [Sdts -> Content]]
    BY <2>1, <2>2 DEF SdtGot
  <2>4. QED
    BY <1>9, <2>3 DEF ParseSdt, FpSdt
<1>10. CASE ParseNit
  BY <1>1, <1>10 DEF ParseNit
<1>11. QED
  BY <1>2, <1>3, <1>4, <1>5, <1>6, <1>7, <1>8, <1>9, <1>10
  DEF Next, SnmpParse, FpParse

\* Types of the front panel's tables.
LEMMA FpTypeStep == ASSUME Frame, FpWorking, [Next]_vars PROVE FpOK'
<1> USE PsiParseAssumption DEF Frame, CtrlOK, FpOK, fptables
<1>1. CASE FpBegin \/ FpClear
  BY <1>1 DEF FpBegin, FpClear
<1>2. CASE FpPmt
  <2>1. k \in Channels /\ prog_table[k] + 1 \in 0 .. P
    BY <1>2 DEF FpPmt, FpWorking, Phase, InFpChannel, Channels
  <2>2. QED
    BY <1>2, <2>1 DEF FpPmt
<1>3. CASE FpNum
  BY <1>3 DEF FpNum
<1>4. CASE \/ Stop \/ ParseBegin \/ SnmpParse \/ FpClearSections \/ FpChannel
           \/ FpChannelFails \/ FpPmtEnd \/ FpSdt \/ UNCHANGED vars
  <2>1. UNCHANGED <<prog_table, chan_num>>
    BY <1>4, Zenon
    DEF Stop, ParseBegin, SnmpParse, Clear, Channel, ParsePatFails, ParsePat,
        PmtFails, PmtNoSection, PmtSection, PmtEnd, ParseCat, ParseSdt, ParseNit,
        ChannelDone, Rest, ParseEnd, FpClearSections, FpChannel, FpChannelFails,
        FpPmtEnd, FpSdt, vars
  <2>2. QED
    BY <2>1
<1>5. QED
  BY <1>1, <1>2, <1>3, <1>4 DEF Next, FpParse

-----------------------------------------------------------------------------
(* What the status of a channel promises                                   *)

\* A step that leaves the results of a channel alone.
SameChannel(c) ==
    /\ pat'[c] = pat[c] /\ cat'[c] = cat[c] /\ nit'[c] = nit[c]
    /\ pmt'[c] = pmt[c] /\ tbl_s'[c] = tbl_s[c]

\* A channel the step leaves alone stays what it is to the parse.
LEMMA SameIsSame ==
    ASSUME NEW c \in Channels, SameChannel(c), parse' = parse
    PROVE  /\ Untouched(c) => Untouched(c)'
           /\ Fresh(c) => Fresh(c)'
           /\ Sections(c)' = Sections(c)
           /\ tbl_s[c] = Sections(c) => tbl_s'[c] = Sections(c)'
  BY DEF SameChannel, Untouched, Fresh, Sections

\* A channel the parse has not come to has a true, empty, bitmap.
LEMMA UntouchedIsExact ==
    ASSUME NEW c \in Channels, Untouched(c)
    PROVE  Fresh(c) /\ tbl_s[c] = Sections(c)
  BY DEF Untouched, Fresh, Sections

\* Exact, channel by channel.
LEMMA ExactEach ==
    Exact <=> \A c \in ch_s : Fresh(c) /\ tbl_s[c] = Sections(c)
  BY DEF Exact, ReportedIsFresh, BitmapNamesSections, Fresh, Sections

\* A channel that is reported was right before, or is right when reported.
LEMMA ExactKept ==
    ASSUME Exact, parse' = parse, ch_s' \subseteq Channels,
           \A c \in ch_s' : \/ c \in ch_s /\ SameChannel(c)
                            \/ Fresh(c)' /\ tbl_s'[c] = Sections(c)'
    PROVE  Exact'
<1>1. \A c \in ch_s' : Fresh(c)' /\ tbl_s'[c] = Sections(c)'
  <2> SUFFICES ASSUME NEW c \in ch_s' PROVE Fresh(c)' /\ tbl_s'[c] = Sections(c)'
    OBVIOUS
  <2>1. CASE c \in ch_s /\ SameChannel(c)
    BY <2>1, SameIsSame, ExactEach
  <2>2. QED
    BY <2>1
<1>2. QED
  BY <1>1 DEF Exact, ReportedIsFresh, BitmapNamesSections, Fresh, Sections

\* A step of the SNMP parse inside channel k that writes to that channel only.
LEMMA InsideStep ==
    ASSUME Frame, Working, Exact, InChannel, InChannel', parse' = parse, k' = k,
           ch_s' = ch_s, \A c \in Channels \ {k} : SameChannel(c)
    PROVE  /\ Exact'
           /\ k \in Channels
           /\ \A c \in Channels : c > k => Untouched(c)'
<1>1. k \in Channels /\ k \notin ch_s /\ ch_s \subseteq Channels
  BY PsiParseAssumption
  DEF Frame, CtrlOK, Phase, StatusSoFar, InChannel, Channels
<1>2. Exact'
  BY <1>1, ExactKept
<1>3. \A c \in Channels : c > k => Untouched(c)'
  <2> SUFFICES ASSUME NEW c \in Channels, c > k PROVE Untouched(c)'
    OBVIOUS
  <2>1. c # k /\ Untouched(c)
    BY <1>1 DEF Working, Channels
  <2>2. QED
    BY <2>1, SameIsSame
<1>4. QED
  BY <1>1, <1>2, <1>3

\* Every step of both parses keeps the results of the reported channels exact.
LEMMA ResultStep ==
    ASSUME Frame, Frame', Working, Exact, [Next]_vars
    PROVE  Working' /\ Exact'
<1> USE PsiParseAssumption DEF InChannel
<1>a. /\ ch_s' \subseteq Channels /\ k \in Nat
      /\ InChannel => k \in Channels
  BY DEF Frame, CtrlOK, Phase, Channels
<1>1. CASE Stop \/ UNCHANGED vars
  <2>1. UNCHANGED <<pc, k, parse, pat, cat, nit, pmt, ch_s, tbl_s, pmt_state>>
    BY <1>1, Zenon DEF Stop, vars, sections, status, locals
  <2>2. QED
    BY <2>1 DEF Working, Untouched, Fresh, Sections, Exact, ReportedIsFresh,
                BitmapNamesSections
<1>2. CASE ParseBegin \/ FpClear
  <2>1. /\ pc' \in {"clear", "fp_sections"} /\ ch_s' = {}
        /\ \A c \in Channels : tbl_s'[c] = {}
    BY <1>2 DEF ParseBegin, FpClear, ClearStatus, Dispatched
  <2>2. QED
    BY <2>1 DEF Working, Exact, ReportedIsFresh, BitmapNamesSections
<1>3. CASE Clear
  <2>1. /\ pc' = "channel" /\ ch_s' = {} /\ tbl_s' = tbl_s
        /\ \A c \in Channels : pat'[c] = 0 /\ cat'[c] = 0 /\ nit'[c] = 0
        /\ \A c \in Channels : \A p \in Programs : pmt'[c][p] = 0
    BY <1>3 DEF Clear, ClearSections, status, Frame, StatusSoFar
  <2>2. \A c \in Channels : Untouched(c)'
    BY <1>3, <2>1 DEF Clear, Working, Untouched
  <2>3. QED
    BY <2>1, <2>2 DEF Working, Exact, ReportedIsFresh, BitmapNamesSections
<1>4. CASE FpClearSections
  <2>1. pc' = "fp_channel" /\ ch_s' = {}
    BY <1>4 DEF FpClearSections, status, Frame, StatusSoFar
  <2>2. QED
    BY <2>1 DEF Working, Exact, ReportedIsFresh, BitmapNamesSections
<1>5. CASE Channel
  <2>1. \A c \in Channels : SameChannel(c)
    BY <1>5, ChannelCases DEF SameChannel
  <2>2. \A c \in Channels : c >= k => Untouched(c) /\ Untouched(c)'
    BY <1>5, <2>1, ChannelCases, SameIsSame DEF Working
  <2>3. Exact'
    <3>1. \A c \in ch_s' : c \in Channels /\ (c \in ch_s \/ c = k)
      BY <1>5, <1>a, ChannelCases
    <3>2. \A c \in Channels : c >= k => Fresh(c)' /\ tbl_s'[c] = Sections(c)'
      <4> SUFFICES ASSUME NEW c \in Channels, c >= k
                   PROVE  Fresh(c)' /\ tbl_s'[c] = Sections(c)'
        OBVIOUS
      <4>1. Fresh(c) /\ tbl_s[c] = Sections(c)
        BY <2>2, UntouchedIsExact
      <4>2. QED
        BY <1>5, <2>1, <4>1, ChannelCases, SameIsSame
    <3>3. \A c \in ch_s' : \/ c \in ch_s /\ SameChannel(c)
                           \/ Fresh(c)' /\ tbl_s'[c] = Sections(c)'
      BY <1>a, <2>1, <3>1, <3>2
    <3>4. parse' = parse
      BY <1>5, ChannelCases
    <3>5. QED
      BY <1>a, <3>3, <3>4, ExactKept
  <2>4. CASE pc' \in {"rest", "channel"}
    <3>1. k' \in {k, k + 1}
      BY <1>5, ChannelCases
    <3>2. \A c \in Channels : c >= k' => Untouched(c)'
      BY <1>a, <2>2, <3>1 DEF Channels
    <3>3. QED
      BY <2>3, <2>4, <3>2 DEF Working
  <2>5. CASE pc' = "pat"
    <3>1. k' = k /\ k \in Channels
      BY <1>5, <2>5, ChannelCases DEF Frame, CtrlOK
    <3>2. Untouched(k)' /\ Fresh(k)'
      BY <1>a, <1>5, <2>1, <2>2, <3>1, ChannelCases, SameIsSame,
         UntouchedIsExact DEF Channels
    <3>3. \A c \in Channels : c > k => Untouched(c)'
      BY <1>a, <2>2 DEF Channels
    <3>4. QED
      BY <2>3, <2>5, <3>1, <3>2, <3>3 DEF Working
  <2>6. QED
    BY <1>5, <2>4, <2>5, ChannelCases
<1>6. CASE ParsePatFails
  <2>1. /\ pc = "pat" /\ pc' = "done"
        /\ UNCHANGED <<k, parse, pat, cat, nit, pmt, ch_s, tbl_s>>
    BY <1>6, Zenon DEF ParsePatFails, sections, status
  <2>2. \A c \in Channels : SameChannel(c)
    BY <2>1 DEF SameChannel
  <2>3. /\ Exact' /\ k \in Channels
        /\ \A c \in Channels : c > k => Untouched(c)'
    BY <2>1, <2>2, InsideStep
  <2>4. Fresh(k) /\ tbl_s[k] = Sections(k)
    BY <2>1, <2>3, UntouchedIsExact DEF Working
  <2>5. Fresh(k)' /\ tbl_s'[k'] = Sections(k)'
    BY <2>1, <2>4 DEF Fresh, Sections
  <2>6. QED
    BY <2>1, <2>3, <2>5 DEF Working
<1>7. CASE ParsePat
  <2>1. \A c \in Channels \ {k} : SameChannel(c)
    BY <1>7, PatCases DEF SameChannel, Frame, SectionsOK
  <2>2. /\ Exact' /\ k \in Channels
        /\ \A c \in Channels : c > k => Untouched(c)'
    BY <1>7, <2>1, PatCases, InsideStep
  <2>3. /\ pc' = "pmt" /\ pmt_state' = {} /\ k' = k /\ parse' = parse
        /\ cat' = cat /\ nit' = nit /\ pmt' = pmt /\ pat'[k] = parse
    BY <1>7, <2>2, PatCases DEF Frame, SectionsOK
  <2>4. Untouched(k)
    BY <1>7, PatCases DEF Working
  <2>5. Fresh(k)' /\ pmt_state' = Sections(k)'
    BY <2>3, <2>4 DEF Untouched, Fresh, Sections
  <2>6. QED
    BY <2>2, <2>3, <2>5 DEF Working
<1>8. CASE PmtFails \/ PmtNoSection
  <2>1. /\ pc = "pmt" /\ pc' = "pmt" /\ pmt_state' = pmt_state
        /\ UNCHANGED <<k, parse, pat, cat, nit, pmt, ch_s>>
        /\ \/ tbl_s' = tbl_s
           \/ tbl_s' = [tbl_s EXCEPT ![k] = pmt_state]
    BY <1>8, Zenon DEF PmtFails, PmtNoSection, sections, status
  <2>2. \A c \in Channels \ {k} : SameChannel(c)
    BY <2>1 DEF SameChannel, Frame, SectionsOK
  <2>3. /\ Exact' /\ k \in Channels
        /\ \A c \in Channels : c > k => Untouched(c)'
    BY <2>1, <2>2, InsideStep
  <2>4. Fresh(k)' /\ pmt_state' = Sections(k)'
    BY <2>1 DEF Working, Fresh, Sections
  <2>5. QED
    BY <2>1, <2>3, <2>4 DEF Working
<1>9. CASE PmtSection
  <2>1. /\ pc = "pmt" /\ pc' = "pmt" /\ pmt_state' = pmt_state \cup {cnt}
        /\ UNCHANGED <<k, parse, pat, cat, nit, tbl_s, ch_s>>
        /\ pmt' = [pmt EXCEPT ![k][cnt] = parse]
    BY <1>9, Zenon DEF PmtSection, status
  <2>2. \A c \in Channels \ {k} : SameChannel(c)
    BY <2>1 DEF SameChannel, Frame, SectionsOK
  <2>3. /\ Exact' /\ k \in Channels
        /\ \A c \in Channels : c > k => Untouched(c)'
    BY <2>1, <2>2, InsideStep
  <2>4. cnt \in Programs /\ parse # 0
    BY <1>9 DEF PmtSection, Frame, CtrlOK, Phase, Programs
  <2>5. \A p \in Programs : pmt'[k][p] = IF p = cnt THEN parse ELSE pmt[k][p]
    BY <2>1, <2>3, <2>4 DEF Frame, SectionsOK
  <2>6. Fresh(k)' /\ pmt_state' = Sections(k)'
    BY <2>1, <2>4, <2>5 DEF Working, Fresh, Sections
  <2>7. QED
    BY <2>1, <2>3, <2>6 DEF Working
<1>10. CASE PmtEnd
  <2>1. /\ pc = "pmt" /\ pc' = "cat"
        /\ UNCHANGED <<k, parse, pat, cat, nit, pmt, ch_s>>
        /\ tbl_s' = [tbl_s EXCEPT ![k] = pmt_state]
    BY <1>10, Zenon DEF PmtEnd, sections
  <2>2. \A c \in Channels \ {k} : SameChannel(c)
    BY <2>1 DEF SameChannel, Frame, SectionsOK
  <2>3. /\ Exact' /\ k \in Channels
        /\ \A c \in Channels : c > k => Untouched(c)'
    BY <2>1, <2>2, InsideStep
  <2>4. tbl_s'[k] = pmt_state
    BY <2>1, <2>3 DEF Frame, SectionsOK
  <2>5. Fresh(k)' /\ tbl_s'[k'] = Sections(k)'
    BY <2>1, <2>4 DEF Working, Fresh, Sections
  <2>6. QED
    BY <2>1, <2>3, <2>5 DEF Working
<1>11. CASE ParseCat \/ ParseSdt \/ ParseNit
  <2>1. /\ pc \in {"cat", "sdt", "nit"} /\ pc' \in {"sdt", "nit", "done"}
        /\ UNCHANGED <<k, parse, pat, pmt, tbl_s, ch_s>>
        /\ cat' = cat \/ cat' = [cat EXCEPT ![k] = parse]
        /\ nit' = nit \/ nit' = [nit EXCEPT ![k] = parse]
    BY <1>11, Zenon DEF ParseCat, ParseSdt, ParseNit, status
  <2>2. \A c \in Channels \ {k} : SameChannel(c)
    BY <2>1 DEF SameChannel, Frame, SectionsOK
  <2>3. /\ Exact' /\ k \in Channels
        /\ \A c \in Channels : c > k => Untouched(c)'
    BY <2>1, <2>2, InsideStep
  <2>4. cat'[k] \in {cat[k], parse} /\ nit'[k] \in {nit[k], parse}
    BY <2>1, <2>3 DEF Frame, SectionsOK
  <2>5. Fresh(k)' /\ tbl_s'[k'] = Sections(k)'
    BY <2>1, <2>4 DEF Working, Fresh, Sections
  <2>6. QED
    BY <2>1, <2>3, <2>5 DEF Working
<1>12. CASE ChannelDone
  <2>1. /\ pc = "done" /\ pc' = "channel" /\ k' = k + 1 /\ ch_s' = ch_s \cup {k}
        /\ UNCHANGED <<parse, pat, cat, nit, pmt, tbl_s>>
    BY <1>12, Zenon DEF ChannelDone, sections
  <2>2. \A c \in Channels : SameChannel(c)
    BY <2>1 DEF SameChannel
  <2>3. \A c \in ch_s' : \/ c \in ch_s /\ SameChannel(c)
                         \/ Fresh(c)' /\ tbl_s'[c] = Sections(c)'
    <3> SUFFICES ASSUME NEW c \in Channels, c = k
                 PROVE  Fresh(c)' /\ tbl_s'[c] = Sections(c)'
      BY <1>a, <2>1, <2>2
    <3>1. Fresh(c) /\ tbl_s[c] = Sections(c)
      BY <2>1 DEF Working
    <3>2. QED
      BY <2>1, <2>2, <3>1, SameIsSame
  <2>4. Exact'
    BY <1>a, <2>1, <2>3, ExactKept
  <2>5. \A c \in Channels : c >= k + 1 => Untouched(c)'
    BY <1>a, <2>1, <2>2, SameIsSame DEF Working, Channels
  <2>6. QED
    BY <2>1, <2>4, <2>5 DEF Working
<1>13. CASE Rest
  <2>1. /\ pc = "rest" /\ pc' = "end" /\ ch_s' = ch_s \cup k .. N - 1
        /\ UNCHANGED <<parse, pat, cat, nit, pmt, tbl_s>>
    BY <1>13, Zenon DEF Rest, sections
  <2>2. \A c \in Channels : SameChannel(c)
    BY <2>1 DEF SameChannel
  <2>3. \A c \in ch_s' : \/ c \in ch_s /\ SameChannel(c)
                         \/ Fresh(c)' /\ tbl_s'[c] = Sections(c)'
    <3> SUFFICES ASSUME NEW c \in Channels, c >= k
                 PROVE  Fresh(c)' /\ tbl_s'[c] = Sections(c)'
      BY <1>a, <2>1, <2>2
    <3>1. Fresh(c) /\ tbl_s[c] = Sections(c)
      BY <2>1, UntouchedIsExact DEF Working
    <3>2. QED
      BY <2>1, <2>2, <3>1, SameIsSame
  <2>4. QED
    BY <1>a, <2>1, <2>3, ExactKept DEF Working
<1>14. CASE \/ ParseEnd \/ FpBegin \/ FpChannel \/ FpPmt \/ FpChannelFails
            \/ FpPmtEnd \/ FpSdt \/ FpNum
  <2>1. /\ UNCHANGED <<parse, pat, cat, nit, pmt, ch_s, tbl_s>>
        /\ pc' \in {"idle", "fp_clear", "fp_channel", "fp_pmt", "fp_sdt",
                    "fp_num"}
    BY <1>14, Zenon
    DEF ParseEnd, FpBegin, Dispatched, FpChannel, FpPmt, FpChannelFails,
        FpPmtEnd, FpSdt, FpNum, sections, status
  <2>2. Exact'
    BY <2>1 DEF Exact, ReportedIsFresh, BitmapNamesSections
  <2>3. QED
    BY <2>1, <2>2 DEF Working
<1>15. QED
  BY <1>1, <1>2, <1>3, <1>4, <1>5, <1>6, <1>7, <1>8, <1>9, <1>10, <1>11, <1>12,
     <1>13, <1>14 DEF Next, SnmpParse, FpParse

-----------------------------------------------------------------------------
(* What g_chan_num promises, and what is final                             *)

\* The front panel's tables: a program is counted after its entry is written.
LEMMA FpStep ==
    ASSUME Frame, FpWorking, ListedIsComplete, [Next]_vars
    PROVE  FpWorking' /\ ListedIsComplete'
<1> USE PsiParseAssumption
    DEF Frame, CtrlOK, FpOK, Phase, FpWorking, ListedIsComplete, InFpChannel,
        InChannel, Channels, fptables
<1>1. CASE \/ Stop \/ ParseBegin \/ SnmpParse \/ UNCHANGED vars
  <2>1. /\ UNCHANGED <<prog_table, chan_num>>
        /\ \/ UNCHANGED <<pc, k, cnt>>
           \/ pc' \in {"idle", "clear", "channel", "pat", "pmt", "cat", "sdt",
                       "nit", "done", "rest", "end"}
    BY <1>1, ChannelCases, Zenon
    DEF Stop, ParseBegin, Dispatched, SnmpParse, Clear, ParsePatFails, ParsePat,
        PmtFails, PmtNoSection, PmtSection, PmtEnd, ParseCat, ParseSdt, ParseNit,
        ChannelDone, Rest, ParseEnd, vars, locals, fptables
  <2>2. QED
    BY <2>1
<1>2. CASE FpBegin
  BY <1>2 DEF FpBegin, Dispatched
<1>3. CASE FpClear
  BY <1>3 DEF FpClear
<1>4. CASE FpClearSections
  BY <1>4 DEF FpClearSections
<1>5. CASE FpChannel
  BY <1>5 DEF FpChannel, locals
<1>6. CASE FpPmt
  BY <1>6 DEF FpPmt
<1>7. CASE FpChannelFails
  BY <1>7 DEF FpChannelFails
<1>8. CASE FpPmtEnd
  BY <1>8 DEF FpPmtEnd, locals
<1>9. CASE FpSdt
  BY <1>9 DEF FpSdt, locals
<1>10. CASE FpNum
  BY <1>10 DEF FpNum, locals
<1>11. QED
  BY <1>1, <1>2, <1>3, <1>4, <1>5, <1>6, <1>7, <1>8, <1>9, <1>10 DEF Next, FpParse

\* The two flags.
LEMMA FlagsStep == ASSUME FlagsOK, [Next]_vars PROVE FlagsOK'
  BY Zenon
  DEF FlagsOK, Next, SnmpParse, FpParse, Stop, ParseBegin, Clear, Channel,
      ParsePatFails, ParsePat, PmtFails, PmtNoSection, PmtSection, PmtEnd,
      ParseCat, ParseSdt, ParseNit, ChannelDone, Rest, ParseEnd, FpBegin, FpClear,
      FpClearSections, FpChannel, FpPmt, FpChannelFails, FpPmtEnd, FpSdt, FpNum,
      locals, vars

\* The initial state.
LEMMA InitInv == ASSUME Init PROVE IInv
<1> USE PsiParseAssumption DEF Init
<1>1. Frame
  BY DEF Frame, CtrlOK, SectionsOK, FpOK, Phase, StatusSoFar, InChannel,
         InFpChannel, Channels, Content, Output
<1>2. FlagsOK
  BY Zenon DEF FlagsOK
<1>3. Working /\ Exact
  BY DEF Working, Exact, ReportedIsFresh, BitmapNamesSections, InChannel
<1>4. FpWorking /\ ListedIsComplete
  BY DEF FpWorking, ListedIsComplete, InFpChannel
<1>5. QED
  BY <1>1, <1>2, <1>3, <1>4 DEF IInv

\* The invariant of the two parses.
THEOREM Inductive == Spec => []IInv
<1>1. Init => IInv
  BY InitInv
<1>2. IInv /\ [Next]_vars => IInv'
  <2> SUFFICES ASSUME IInv, [Next]_vars PROVE IInv'
    OBVIOUS
  <2>1. Frame'
    BY PhaseStep, StatusStep, CtrlStep, SectionsStep, FpTypeStep DEF IInv, Frame
  <2>2. Working' /\ Exact'
    BY <2>1, ResultStep DEF IInv
  <2>3. FlagsOK' /\ FpWorking' /\ ListedIsComplete'
    BY FpStep, FlagsStep DEF IInv
  <2>4. QED
    BY <2>1, <2>2, <2>3 DEF IInv
<1>3. QED
  BY <1>1, <1>2, PTL DEF Spec

\* A reported channel shows the outcome of this parse and nothing of an earlier
\* one, and its bitmap names exactly its PMT sections: for any number of
\* channels and programs, whichever decodes fail and wherever it is stopped.
THEOREM ReportedExact == Spec => []ReportedIsExact
<1>1. IInv => ReportedIsExact
  BY Zenon DEF IInv, Frame, CtrlOK, SectionsOK, FpOK, FlagsOK, Exact,
               ReportedIsExact, TypeOK
<1>2. QED
  BY <1>1, Inductive, PTL

\* Every program below g_chan_num has a complete entry at all times of a
\* front panel parse, and of the SNMP parses in between.
THEOREM ListedComplete == Spec => []ListedIsComplete
<1>1. IInv => ListedIsComplete
  BY DEF IInv
<1>2. QED
  BY <1>1, Inductive, PTL

\* A step leaves the results of every channel but its own alone, unless no
\* channel is reported before it or after it.
LEMMA FinalStep ==
    ASSUME Frame, [Next]_vars, NEW c \in ch_s \cap ch_s'
    PROVE  SameChannel(c) /\ sdt'[c] = sdt[c]
<1> USE PsiParseAssumption
    DEF Frame, CtrlOK, SectionsOK, StatusSoFar, SameChannel, InChannel,
        InFpChannel, Channels
<1>a. c \in Channels
  OBVIOUS
<1>1. CASE ParseBegin \/ FpClear \/ Clear \/ FpClearSections \/ FpSdt
  <2>1. ch_s = {} \/ ch_s' = {}
    BY <1>1 DEF ParseBegin, FpClear, Clear, FpClearSections, FpSdt, ClearStatus
  <2>2. QED
    BY <2>1
<1>2. CASE \/ Stop \/ Channel \/ ParsePatFails \/ PmtNoSection \/ ChannelDone
           \/ Rest \/ ParseEnd \/ FpBegin \/ FpChannel \/ FpPmt
           \/ FpChannelFails \/ FpPmtEnd \/ FpNum \/ UNCHANGED vars
  <2>1. UNCHANGED <<pat, cat, nit, pmt, sdt, tbl_s>>
    BY <1>2, Zenon
    DEF Stop, Channel, ParsePatFails, PmtNoSection, ChannelDone, Rest, ParseEnd,
        FpBegin, FpChannel, FpPmt, FpChannelFails, FpPmtEnd, FpNum, vars,
        sections, status
  <2>2. QED
    BY <2>1
<1>3. CASE \/ ParsePat \/ PmtFails \/ PmtSection \/ PmtEnd \/ ParseCat
           \/ ParseSdt \/ ParseNit
  <2>1. InChannel
    BY <1>3 DEF ParsePat, PmtFails, PmtSection, PmtEnd, ParseCat, ParseSdt,
                ParseNit
  <2>2. c # k
    BY <2>1
  <2>3. CASE ParsePat
    BY <2>2, <2>3, PatCases
  <2>4. CASE PmtFails \/ PmtEnd
    BY <1>a, <2>2, <2>4 DEF PmtFails, PmtEnd, sections
  <2>5. CASE PmtSection
    BY <1>a, <2>2, <2>5 DEF PmtSection, status
  <2>6. CASE ParseCat
    BY <1>a, <2>2, <2>6 DEF ParseCat, status
  <2>7. CASE ParseSdt
    BY <1>a, <2>2, <2>7 DEF ParseSdt, SdtGot, status
  <2>8. CASE ParseNit
    <3>1. /\ UNCHANGED <<pat, cat, pmt, sdt, tbl_s>>
          /\ nit' = nit \/ nit' = [nit EXCEPT ![k] = parse]
      BY <2>8, Zenon DEF ParseNit, status
    <3>2. QED
      BY <1>a, <2>2, <3>1
  <2>9. QED
    BY <1>3, <2>3, <2>4, <2>5, <2>6, <2>7, <2>8
<1>4. QED
  BY <1>1, <1>2, <1>3 DEF Next, SnmpParse, FpParse

\* What a client reads of a reported channel does not change before the next
\* parse takes the report back.
THEOREM ReportedFinal == Spec => ReportedIsFinal
<1> DEFINE Kept == \A c \in ch_s \cap ch_s' :
                    /\ pat'[c] = pat[c] /\ cat'[c] = cat[c] /\ nit'[c] = nit[c]
                    /\ pmt'[c] = pmt[c] /\ sdt'[c] = sdt[c]
                    /\ tbl_s'[c] = tbl_s[c]
<1>1. IInv /\ [Next]_vars => [Kept]_vars
  BY FinalStep DEF IInv, SameChannel
<1>2. QED
  BY <1>1, Inductive, PTL DEF Spec, ReportedIsFinal
-----------------------------------------------------------------------------
(* PsiWorker has the threads that ask for parses and the worker that runs     *)
(* them. What it promises holds for a queue of any length.                    *)

\* The steps of the requesters and of the worker, one per action of Next.
LEMMA WorkerNextCases ==
    ASSUME [WorkerNext]_WorkerVars
    PROVE  \/ \E t \in Requesters :
                \/ \E m \in Managers : Check(t, m)
                \/ AllocFails(t) \/ Alloc(t) \/ SetManager(t) \/ PutMessage(t)
           \/ GetMessage \/ Dispatch \/ ParseDone \/ ClearManager
           \/ UNCHANGED WorkerVars
  BY DEF WorkerNext, RequestStep, WorkerStep, Refuse, Asks, Managers

\* Type correctness.
LEMMA WorkerTypeStep == ASSUME WorkerTypeOK, [WorkerNext]_WorkerVars PROVE WorkerTypeOK'
<1> USE DEF WorkerTypeOK, requests, worker
<1>1. ASSUME NEW t \in Requesters, NEW m \in Managers, Check(t, m)
      PROVE  WorkerTypeOK'
  <2>1. overlap' \in BOOLEAN
    BY <1>1, Zenon DEF Check
  <2>2. QED
    BY <1>1, <2>1 DEF Check
<1>2. ASSUME NEW t \in Requesters, AllocFails(t) PROVE WorkerTypeOK'
  BY <1>2 DEF AllocFails
<1>3. ASSUME NEW t \in Requesters, Alloc(t) PROVE WorkerTypeOK'
  BY <1>3 DEF Alloc
<1>4. ASSUME NEW t \in Requesters, SetManager(t) PROVE WorkerTypeOK'
  BY <1>4 DEF SetManager
<1>5. ASSUME NEW t \in Requesters, PutMessage(t) PROVE WorkerTypeOK'
  BY <1>5 DEF PutMessage
<1>6. CASE GetMessage
  BY <1>6 DEF GetMessage
<1>7. CASE Dispatch
  BY <1>7 DEF Dispatch, Managers
<1>8. CASE ParseDone
  BY <1>8 DEF ParseDone
<1>9. CASE ClearManager
  BY <1>9 DEF ClearManager
<1>10. CASE UNCHANGED WorkerVars
  BY <1>10 DEF WorkerVars
<1>11. QED
  BY <1>1, <1>2, <1>3, <1>4, <1>5, <1>6, <1>7, <1>8, <1>9, <1>10, WorkerNextCases

\* The flag is passed on from a requester to the queue to the worker.
LEMMA WorkerBusyStep == ASSUME WorkerTypeOK, BusyHasCause, [WorkerNext]_WorkerVars PROVE BusyHasCause'
<1> USE DEF WorkerTypeOK, BusyHasCause, WorkerBusy, requests, worker
<1>1. ASSUME NEW t \in Requesters, NEW m \in Managers, Check(t, m)
      PROVE  BusyHasCause'
  BY <1>1 DEF Check
<1>2. ASSUME NEW t \in Requesters, AllocFails(t) PROVE BusyHasCause'
  BY <1>2 DEF AllocFails
<1>3. ASSUME NEW t \in Requesters, Alloc(t) PROVE BusyHasCause'
  BY <1>3 DEF Alloc
<1>4. ASSUME NEW t \in Requesters, SetManager(t) PROVE BusyHasCause'
  BY <1>4 DEF SetManager
<1>5. ASSUME NEW t \in Requesters, PutMessage(t) PROVE BusyHasCause'
  <2>1. mblist' # <<>>
    BY <1>5 DEF PutMessage
  <2>2. QED
    BY <2>1
<1>6. CASE GetMessage
  BY <1>6 DEF GetMessage
<1>7. CASE Dispatch
  BY <1>7 DEF Dispatch
<1>8. CASE ParseDone
  BY <1>8 DEF ParseDone
<1>9. CASE ClearManager
  BY <1>9 DEF ClearManager
<1>10. CASE UNCHANGED WorkerVars
  BY <1>10 DEF WorkerVars
<1>11. QED
  BY <1>1, <1>2, <1>3, <1>4, <1>5, <1>6, <1>7, <1>8, <1>9, <1>10, WorkerNextCases

\* Without an overlap the one request moves on; a check that passes finds
\* nothing of an earlier request.
LEMMA WorkerOneRequestStep ==
    ASSUME WorkerTypeOK, ~overlap => OneRequest, [WorkerNext]_WorkerVars
    PROVE  ~overlap' => OneRequest'
<1> USE DEF WorkerTypeOK, OneRequest, InRequest, WorkerBusy, requests, worker
<1>1. ASSUME NEW t \in Requesters, NEW m \in Managers, Check(t, m), ~overlap'
      PROVE  OneRequest'
  <2>1. Quiet
    <3> SUFFICES ASSUME ~Quiet PROVE FALSE
      OBVIOUS
    <3>1. ~overlap /\ InRequest = {} /\ manager = "none"
      BY <1>1, Zenon DEF Check
    <3>2. mblist = <<>> /\ worker_pc = "get"
      BY <3>1 DEF Managers
    <3>3. QED
      BY <3>1, <3>2 DEF Quiet
  <2>2. QED
    BY <1>1, <2>1 DEF Check, Quiet
<1>2. ASSUME NEW t \in Requesters, AllocFails(t), ~overlap' PROVE OneRequest'
  BY <1>2 DEF AllocFails
<1>3. ASSUME NEW t \in Requesters, Alloc(t), ~overlap' PROVE OneRequest'
  BY <1>3 DEF Alloc
<1>4. ASSUME NEW t \in Requesters, SetManager(t), ~overlap' PROVE OneRequest'
  BY <1>4 DEF SetManager
<1>5. ASSUME NEW t \in Requesters, PutMessage(t), ~overlap' PROVE OneRequest'
  <2>1. mblist' = <<req_mgr[t]>> /\ req_mgr[t] \in Managers
    <3>1. mblist = <<>>
      BY <1>5 DEF PutMessage
    <3>2. mblist' = <<req_mgr[t]>> \o <<>>
      BY <1>5, <3>1 DEF PutMessage
    <3>3. QED
      BY <3>2
  <2>2. ~overlap /\ manager = req_mgr[t] /\ worker_pc = "get"
        /\ \A u \in Requesters : u # t => req_pc[u] = "idle"
    BY <1>5 DEF PutMessage
  <2>3. manager' = req_mgr[t] /\ worker_pc' = "get"
        /\ \A u \in Requesters : req_pc'[u] = "idle"
    BY <1>5, <2>2 DEF PutMessage
  <2> HIDE DEF WorkerTypeOK
  <2>4. QED
    BY <2>1, <2>3
<1>6. ASSUME GetMessage, ~overlap' PROVE OneRequest'
  <2>1. PICK m \in Managers : mblist = <<m>> /\ manager = m
    BY <1>6 DEF GetMessage
  <2>2. mblist' = <<>> /\ job' = manager /\ manager # "none"
    BY <1>6, <2>1 DEF GetMessage, Managers
  <2>3. QED
    BY <1>6, <2>2 DEF GetMessage
<1>7. ASSUME Dispatch, ~overlap' PROVE OneRequest'
  BY <1>7 DEF Dispatch, Managers
<1>8. ASSUME ParseDone, ~overlap' PROVE OneRequest'
  BY <1>8 DEF ParseDone
<1>9. ASSUME ClearManager, ~overlap' PROVE OneRequest'
  BY <1>9 DEF ClearManager
<1>10. ASSUME UNCHANGED WorkerVars, ~overlap' PROVE OneRequest'
  BY <1>10 DEF WorkerVars
<1>11. QED
  BY <1>1, <1>2, <1>3, <1>4, <1>5, <1>6, <1>7, <1>8, <1>9, <1>10, WorkerNextCases

\* The three parts hold in every reachable state.
LEMMA WorkerInductive == WorkerSpec => []WorkerIInv
<1>1. WorkerInit => WorkerIInv
  <2> SUFFICES ASSUME WorkerInit PROVE WorkerIInv
    OBVIOUS
  <2>1. WorkerTypeOK
    <3>1. req_pc \in [Requesters -> {"idle", "alloc", "set", "put"}]
      BY DEF WorkerInit
    <3>2. req_mgr \in [Requesters -> Managers]
      BY DEF WorkerInit, Managers
    <3>3. mblist \in Seq(Managers)
      BY DEF WorkerInit
    <3>4. QED
      BY <3>1, <3>2, <3>3 DEF WorkerInit, WorkerTypeOK, Managers
  <2>2. BusyHasCause /\ OneRequest
    <3>1. InRequest = {}
      BY DEF WorkerInit, InRequest
    <3>2. QED
      BY <3>1 DEF WorkerInit, BusyHasCause, OneRequest, WorkerBusy
  <2>3. QED
    BY <2>1, <2>2 DEF WorkerIInv
<1>2. WorkerIInv /\ [WorkerNext]_WorkerVars => WorkerIInv'
  BY WorkerTypeStep, WorkerBusyStep, WorkerOneRequestStep DEF WorkerIInv
<1>3. QED
  BY <1>1, <1>2, PTL DEF WorkerSpec

\* Every variable of the worker protocol keeps its type.
THEOREM WorkerTypeCorrect == WorkerSpec => []WorkerTypeOK
<1>1. WorkerIInv => WorkerTypeOK
  BY DEF WorkerIInv
<1>2. QED
  BY <1>1, WorkerInductive, PTL

\* psi_parsing_active_manager is never left set without a message that will
\* make the worker clear it.
THEOREM BusyFlagHasCause == WorkerSpec => []BusyHasCause
<1>1. WorkerIInv => BusyHasCause
  BY DEF WorkerIInv
<1>2. QED
  BY <1>1, WorkerInductive, PTL

\* Requests that do not overlap are served one at a time by the parse of the
\* manager that asked.
THEOREM RequestsServedInOrder == WorkerSpec => []RequestsServed
<1>1. WorkerIInv => RequestsServed
  <2> SUFFICES ASSUME WorkerIInv, ~overlap
               PROVE  /\ Len(mblist) <= IF WorkerBusy THEN 0 ELSE 1
                      /\ worker_pc \in {"parse", "clear"} => run = job
    BY DEF RequestsServed, OneRequestAtATime
  <2>1. CASE mblist = <<>>
    BY <2>1 DEF WorkerIInv, OneRequest
  <2>2. CASE mblist # <<>>
    <3>1. PICK m \in Managers : mblist = <<m>>
      BY <2>2 DEF WorkerIInv, OneRequest
    <3>2. Len(mblist) = 1 /\ ~WorkerBusy
      BY <2>2, <3>1 DEF WorkerIInv, OneRequest
    <3>3. QED
      BY <3>2 DEF WorkerIInv, OneRequest
  <2>3. QED
    BY <2>1, <2>2
<1>2. QED
  BY <1>1, WorkerInductive, PTL
=============================================================================
