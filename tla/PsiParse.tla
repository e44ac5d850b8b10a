------------------------------ MODULE PsiParse ------------------------------
(***************************************************************************)
(* The two parses the psi worker runs: uvSI_psi_parse fills the sections   *)
(* that SNMP clients read, fp_psi_parse the program table of the front     *)
(* panel.  Both start from clear_section_data.  SNMP clients read the      *)
(* sections and All_Channel_Psi_Status while the parse runs, and may ask   *)
(* it to stop at any time.  A section is abstracted to the number of the   *)
(* parse that wrote it, 0 for a section of length 0.                       *)
(***************************************************************************)
EXTENDS Naturals

CONSTANTS
    N,          \* CHANNEL_MAX_NUM; channel N is the output
    P,          \* PROGRAM_MAX_NUM
    S,          \* SDT_SECTION_NUM
    MaxParses   \* bound: parses

ASSUME PsiParseAssumption ==
    N \in Nat \ {0} /\ P \in Nat \ {0} /\ S \in Nat \ {0} /\ MaxParses \in Nat

Channels == 0 .. N - 1
Programs == 0 .. P - 1
Sdts     == 0 .. S - 1
Output   == MaxParses + 1      \* what the EEPROM holds for the output
Content  == 0 .. Output

VARIABLES
    pc, k,          \* of the worker: where it is, the channel it works on
    parse,          \* number of parses so far
    ts,             \* channels that carry a transport stream
    request_stop_parse,
    \* parse results
    pat, cat, nit,  \* sg_mib_pat, sg_mib_cat, sg_mib_nit of the channels
    pmt, sdt,       \* sg_mib_pmt, sg_mib_sdt; sdt has the output channel too
    ch_s,           \* All_Channel_Psi_Status: the channels done
    tbl_s,          \* and the programs whose pmt section was got
    \* locals of parse_pat and parse_pmt
    pid_num,        \* programs of the channel's PAT not yet looked at
    had_nit, cnt, pmt_state,
    \* the front panel's tables
    prog_table,     \* complete entries of g_prog_info_table, by channel
    chan_num        \* g_chan_num

sections == <<pat, cat, nit, pmt, sdt>>
status   == <<ch_s, tbl_s>>
locals   == <<pid_num, had_nit, cnt, pmt_state>>
fptables == <<prog_table, chan_num>>
vars == <<pc, k, parse, ts, request_stop_parse, sections, status, locals,
          fptables>>

\* Every variable has its type.
TypeOK ==
    /\ pc \in {"idle", "clear", "channel", "pat", "pmt", "cat", "sdt", "nit",
               "done", "rest", "end", "fp_clear", "fp_sections", "fp_channel",
               "fp_pmt", "fp_sdt", "fp_num"}
    /\ k \in 0 .. N /\ parse \in 0 .. MaxParses /\ ts \subseteq Channels
    /\ request_stop_parse \in BOOLEAN
    /\ pat \in [Channels -> Content] /\ cat \in [Channels -> Content]
    /\ nit \in [Channels -> Content]
    /\ pmt \in [Channels -> [Programs -> Content]]
    /\ sdt \in [0 .. N -> [Sdts -> Content]]
    /\ ch_s \subseteq Channels /\ tbl_s \in [Channels -> SUBSET Programs]
    /\ pid_num \in 0 .. P /\ had_nit \in BOOLEAN /\ cnt \in 0 .. P
    /\ pmt_state \subseteq Programs
    /\ prog_table \in [Channels -> 0 .. P] /\ chan_num \in [Channels -> 0 .. P]

\* The output channel's sections come from the EEPROM (output_psi_2_snmp_section).
Init ==
    /\ pc = "idle" /\ k = 0 /\ parse = 0
    /\ ts \in SUBSET Channels
    /\ request_stop_parse = FALSE
    /\ pat = [c \in Channels |-> 0] /\ cat = pat /\ nit = pat
    /\ pmt = [c \in Channels |-> [p \in Programs |-> 0]]
    /\ sdt = [c \in 0 .. N |-> [i \in Sdts |-> IF c = N THEN Output ELSE 0]]
    /\ ch_s = {} /\ tbl_s = [c \in Channels |-> {}]
    /\ pid_num = 0 /\ had_nit = FALSE /\ cnt = 0 /\ pmt_state = {}
    /\ prog_table = pat /\ chan_num = pat

-----------------------------------------------------------------------------
(* clear_section_data: first the status, then the sections.  The sdt       *)
(* memset names section SDT_SECTION_NUM of the channel, which is section 0 *)
(* of the next one.                                                        *)

ClearStatus ==
    /\ ch_s' = {}
    /\ tbl_s' = [c \in Channels |-> {}]

ClearSdt == [c \in 0 .. N |-> [i \in Sdts |->
                IF c > 0 /\ i = 0 THEN 0 ELSE sdt[c][i]]]

\* Mutant: the nit is not cleared.
ClearSectionsButNit ==
    /\ pat' = [c \in Channels |-> 0] /\ cat' = pat' /\ UNCHANGED nit
    /\ pmt' = [c \in Channels |-> [p \in Programs |-> 0]]
    /\ sdt' = ClearSdt

ClearSections ==
    /\ pat' = [c \in Channels |-> 0] /\ cat' = pat' /\ nit' = pat'
    /\ pmt' = [c \in Channels |-> [p \in Programs |-> 0]]
    /\ sdt' = ClearSdt

-----------------------------------------------------------------------------
(* The environment                                                         *)

\* An SNMP client asks to stop, whether or not a parse is running.
Stop ==
    /\ request_stop_parse' = TRUE
    /\ UNCHANGED <<pc, k, parse, ts, sections, status, locals, fptables>>

\* The worker takes a request up (PsiWorker); streams come and go meanwhile.
Dispatched(l) ==
    /\ pc = "idle" /\ parse < MaxParses
    /\ ts' \in SUBSET Channels
    /\ k' = 0
    /\ pc' = l

-----------------------------------------------------------------------------
(* uvSI_psi_parse                                                          *)

ParseBegin ==
    /\ Dispatched("clear")
    /\ ClearStatus
    /\ parse' = parse + 1
    /\ UNCHANGED <<request_stop_parse, sections, locals, fptables>>

Clear ==
    /\ pc = "clear"
    /\ ClearSections
    /\ pc' = "channel"
    /\ UNCHANGED <<k, parse, ts, request_stop_parse, status, locals, fptables>>

\* Mutant: the channel is reported when its parse starts.
ChannelReportedFirst ==
    /\ pc = "channel"
    /\ IF k = N \/ request_stop_parse
       THEN pc' = "rest" /\ UNCHANGED <<k, ch_s>>
       ELSE /\ ch_s' = ch_s \cup {k}
            /\ pc' = IF k \in ts THEN "pat" ELSE pc
            /\ k' = IF k \in ts THEN k ELSE k + 1
    /\ UNCHANGED <<parse, ts, request_stop_parse, sections, tbl_s, locals,
                   fptables>>

\* The head of the channel loop.
Channel ==
    /\ pc = "channel"
    /\ IF k = N \/ request_stop_parse
       THEN pc' = "rest" /\ UNCHANGED <<k, ch_s>>
       ELSE IF k \in ts
            THEN pc' = "pat" /\ UNCHANGED <<k, ch_s>>
            ELSE /\ ch_s' = ch_s \cup {k}
                 /\ k' = k + 1
                 /\ UNCHANGED pc
    /\ UNCHANGED <<parse, ts, request_stop_parse, sections, tbl_s, locals,
                   fptables>>

\* A decode fails when its timer expires or a stop is asked for.
ParsePatFails ==
    /\ pc = "pat"
    /\ pc' = "done"
    /\ pid_num' = 0
    /\ UNCHANGED <<k, parse, ts, request_stop_parse, sections, status, had_nit,
                   cnt, pmt_state, fptables>>

ParsePat ==
    /\ pc = "pat"
    /\ pat' = [pat EXCEPT ![k] = parse]
    /\ pid_num' \in 0 .. P
    /\ had_nit' \in BOOLEAN
    /\ cnt' = 0 /\ pmt_state' = {}
    /\ pc' = "pmt"
    /\ UNCHANGED <<k, parse, ts, request_stop_parse, cat, nit, pmt, sdt, status,
                   fptables>>

\* parse_pmt: a failed decode publishes the bitmap and does not use up the
\* slot, a decode without section does.
PmtFails ==
    /\ pc = "pmt" /\ pid_num > 0
    /\ pid_num' = pid_num - 1
    /\ tbl_s' = [tbl_s EXCEPT ![k] = pmt_state]
    /\ UNCHANGED <<pc, k, parse, ts, request_stop_parse, sections, ch_s,
                   had_nit, cnt, pmt_state, fptables>>

PmtNoSection ==
    /\ pc = "pmt" /\ pid_num > 0
    /\ pid_num' = pid_num - 1
    /\ cnt' = cnt + 1
    /\ UNCHANGED <<pc, k, parse, ts, request_stop_parse, sections, status,
                   had_nit, pmt_state, fptables>>

PmtSection ==
    /\ pc = "pmt" /\ pid_num > 0
    /\ pid_num' = pid_num - 1
    /\ pmt' = [pmt EXCEPT ![k][cnt] = parse]
    /\ pmt_state' = pmt_state \cup {cnt}
    /\ cnt' = cnt + 1
    /\ UNCHANGED <<pc, k, parse, ts, request_stop_parse, pat, cat, nit, sdt,
                   status, had_nit, fptables>>

PmtEnd ==
    /\ pc = "pmt" /\ pid_num = 0
    /\ tbl_s' = [tbl_s EXCEPT ![k] = pmt_state]
    /\ pc' = "cat"
    /\ UNCHANGED <<k, parse, ts, request_stop_parse, sections, ch_s, locals,
                   fptables>>

\* The parse goes on whatever became of the cat and of the sdt.
ParseCat ==
    /\ pc = "cat"
    /\ cat' \in {cat, [cat EXCEPT ![k] = parse]}
    /\ pc' = "sdt"
    /\ UNCHANGED <<k, parse, ts, request_stop_parse, pat, nit, pmt, sdt, status,
                   locals, fptables>>

\* The decoder fills the first n section buffers, in place.
SdtGot(n) == [sdt EXCEPT ![k] =
                [i \in Sdts |-> IF i < n THEN parse ELSE sdt[k][i]]]

ParseSdt ==
    /\ pc = "sdt"
    /\ \E n \in 0 .. S : sdt' = SdtGot(n)
    /\ pc' = "nit"
    /\ UNCHANGED <<k, parse, ts, request_stop_parse, pat, cat, nit, pmt, status,
                   locals, fptables>>

ParseNit ==
    /\ pc = "nit"
    /\ \/ UNCHANGED nit
       \/ had_nit /\ nit' = [nit EXCEPT ![k] = parse]
    /\ pc' = "done"
    /\ UNCHANGED <<k, parse, ts, request_stop_parse, pat, cat, pmt, sdt, status,
                   locals, fptables>>

ChannelDone ==
    /\ pc = "done"
    /\ ch_s' = ch_s \cup {k}
    /\ k' = k + 1
    /\ pc' = "channel"
    /\ UNCHANGED <<parse, ts, request_stop_parse, sections, tbl_s, locals,
                   fptables>>

\* Mutant: the channels that a stop left out are not reported.
RestUnreported ==
    /\ pc = "rest"
    /\ pc' = "end"
    /\ UNCHANGED <<k, parse, ts, request_stop_parse, sections, status, locals,
                   fptables>>

\* The channels that a stop left out are reported too.
Rest ==
    /\ pc = "rest"
    /\ ch_s' = ch_s \cup k .. N - 1
    /\ pc' = "end"
    /\ UNCHANGED <<k, parse, ts, request_stop_parse, sections, tbl_s, locals,
                   fptables>>

ParseEnd ==
    /\ pc = "end"
    /\ request_stop_parse' = FALSE
    /\ pc' = "idle"
    /\ UNCHANGED <<k, parse, ts, sections, status, locals, fptables>>

-----------------------------------------------------------------------------
(* fp_psi_parse: it clears request_stop_parse nowhere.                     *)

\* Mutant: g_chan_num is not cleared.
FpBeginKeepsNum ==
    /\ Dispatched("fp_clear")
    /\ UNCHANGED <<parse, request_stop_parse, sections, status, locals,
                   fptables>>

FpBegin ==
    /\ Dispatched("fp_clear")
    /\ chan_num' = [c \in Channels |-> 0]
    /\ UNCHANGED <<parse, request_stop_parse, sections, status, locals,
                   prog_table>>

FpClear ==
    /\ pc = "fp_clear"
    /\ prog_table' = [c \in Channels |-> 0]
    /\ ClearStatus
    /\ parse' = parse + 1
    /\ pc' = "fp_sections"
    /\ UNCHANGED <<k, ts, request_stop_parse, sections, locals, chan_num>>

FpClearSections ==
    /\ pc = "fp_sections"
    /\ ClearSections
    /\ pc' = "fp_channel"
    /\ UNCHANGED <<k, parse, ts, request_stop_parse, status, locals, fptables>>

FpChannel ==
    /\ pc = "fp_channel"
    /\ IF k = N
       THEN pc' = "idle" /\ UNCHANGED <<k, locals>>
       ELSE IF k \in ts
            THEN /\ pc' = "fp_pmt"
                 /\ pid_num' \in 0 .. P
                 /\ cnt' = 0
                 /\ UNCHANGED <<k, had_nit, pmt_state>>
            ELSE k' = k + 1 /\ UNCHANGED <<pc, locals>>
    /\ UNCHANGED <<parse, ts, request_stop_parse, sections, status, fptables>>

\* A program's PMT: its entry is complete once it is decoded.
FpPmt ==
    /\ pc = "fp_pmt" /\ pid_num > 0
    /\ pid_num' = pid_num - 1
    /\ prog_table' = [prog_table EXCEPT ![k] = @ + 1]
    /\ cnt' = cnt + 1
    /\ UNCHANGED <<pc, k, parse, ts, request_stop_parse, sections, status,
                   had_nit, pmt_state, chan_num>>

\* No PAT, or a PMT that fails: the channel is given up, with no programs.
FpChannelFails ==
    /\ pc = "fp_pmt"
    /\ cnt' = 0
    /\ pc' = "fp_num"
    /\ UNCHANGED <<k, parse, ts, request_stop_parse, sections, status, pid_num,
                   had_nit, pmt_state, fptables>>

FpPmtEnd ==
    /\ pc = "fp_pmt" /\ pid_num = 0
    /\ pc' = "fp_sdt"
    /\ UNCHANGED <<k, parse, ts, request_stop_parse, sections, status, locals,
                   fptables>>

FpSdt ==
    /\ pc = "fp_sdt"
    /\ \E n \in 0 .. S : sdt' = SdtGot(n)
    /\ pc' = "fp_num"
    /\ UNCHANGED <<k, parse, ts, request_stop_parse, pat, cat, nit, pmt, status,
                   locals, fptables>>

\* parse_channel publishes the number of programs last.
FpNum ==
    /\ pc = "fp_num"
    /\ chan_num' = [chan_num EXCEPT ![k] = cnt]
    /\ k' = k + 1
    /\ pc' = "fp_channel"
    /\ UNCHANGED <<parse, ts, request_stop_parse, sections, status, locals,
                   prog_table>>

-----------------------------------------------------------------------------
SnmpParse ==
    \/ Clear \/ Channel \/ ParsePatFails \/ ParsePat \/ PmtFails
    \/ PmtNoSection \/ PmtSection \/ PmtEnd \/ ParseCat \/ ParseSdt \/ ParseNit
    \/ ChannelDone \/ Rest \/ ParseEnd

FpParse ==
    \/ FpClear \/ FpClearSections \/ FpChannel \/ FpPmt \/ FpChannelFails
    \/ FpPmtEnd \/ FpSdt \/ FpNum

Next == Stop \/ ParseBegin \/ FpBegin \/ SnmpParse \/ FpParse

Spec == Init /\ [][Next]_vars

\* The worker runs; the decode timers end every decode.
FairSpec == Spec /\ WF_vars(SnmpParse) /\ WF_vars(FpParse)

-----------------------------------------------------------------------------
(* Properties                                                              *)

\* A channel is reported when its results are final: no later step of the
\* parse changes a section or the bitmap of a channel that ch_s names.
ReportedIsFinal ==
    [][\A c \in ch_s \cap ch_s' :
        /\ pat'[c] = pat[c] /\ cat'[c] = cat[c] /\ nit'[c] = nit[c]
        /\ pmt'[c] = pmt[c] /\ sdt'[c] = sdt[c]
        /\ tbl_s'[c] = tbl_s[c]]_vars

\* A reported channel shows nothing of an earlier parse in its pat, cat, nit
\* and pmt sections, whichever decodes failed and wherever it was stopped.
ReportedIsFresh ==
    \A c \in ch_s :
        /\ {pat[c], cat[c], nit[c]} \subseteq {0, parse}
        /\ \A p \in Programs : pmt[c][p] \in {0, parse}

\* The bitmap of a reported channel names exactly the slots with a section.
BitmapNamesSections ==
    \A c \in ch_s : tbl_s[c] = {p \in Programs : pmt[c][p] # 0}

\* cmd_program_info_handler may read every program below g_chan_num, at any
\* time: its entry is complete.
ListedIsComplete == \A c \in Channels : chan_num[c] <= prog_table[c]

\* A client that polls the status of an SNMP parse sees every channel done,
\* stopped or not, and the worker is free again after either parse.
EveryChannelReported ==
    /\ pc = "channel" ~> (pc = "idle" /\ ch_s = Channels)
    /\ pc # "idle" ~> pc = "idle"

\* What a client reads of a reported channel is the outcome of this parse: its
\* sections, and the bitmap that names them (snmp_psi_parse).
ReportedIsExact == TypeOK /\ ReportedIsFresh /\ BitmapNamesSections
=============================================================================
