------------------------------- MODULE CiCard -------------------------------
(* The common interface library of the one channel product (src/libci). The   *)
(* query thread polls a conditional access card: each TPDU it writes is       *)
(* answered by one message, and the handling of a message writes the next     *)
(* TPDU. Between two reads it takes the next PMT of cur_section, which        *)
(* loadPMT fills from the agent's or the front panel's thread, and sends it   *)
(* to the card as a CA PMT. No lock protects cur_section.                     *)
(* The card is external. It may be absent, hang in its reset, not answer the  *)
(* link's creation, be slow, or fail to take a TPDU.                          *)
EXTENDS Integers, SequencesExt, FiniteSetsExt

CONSTANTS
  Pmt,       \* the saved input PMT section of each program, in program order
  MaxCnts,   \* values of ci_max_descramble_num a client may set
  CardIds,   \* the card's CA system ids
  CardMsgs,  \* what the card has to say, each message once
  CardKinds, \* what the card in the slot may be
  Selections, \* sets of selected programs
  MaxEvents  \* bound on the calls of loadPMT and set_ci_max_cnt and on the faults

Byte == 0..255
Descriptor == [sys : Byte \X Byte]
Stream == [type : Byte, desc : Seq(Descriptor)]
Opens == {"open_rm", "open_app", "open_ca", "open_host", "open_time", "open_mmi", "open_other"}
Silent == {"profile_chg", "ca_pmt_reply", "menu_input", "close_response"}
Apdus == {"profile_enq", "profile", "application", "time_enq", "menu_last", "ca_info",
          "display_ctrl"} \cup Silent
Progs == DOMAIN Pmt
Loader == {"agent", "fp"}
NoProg == 0

ASSUME CiAssumption ==
  /\ Pmt \in Seq([saved : BOOLEAN, desc : Seq(Descriptor), es : Seq(Stream)])
  /\ CardIds \subseteq Byte \X Byte
  /\ CardMsgs \subseteq Opens \cup {"close_request"} \cup Apdus
  /\ MaxCnts \subseteq Nat /\ MaxEvents \in Nat

VARIABLES
  cur_section,               \* index, programtotal and the sections
  send_pmt_en0, send_pmt_status0, init_pmt_setA, cardasend,
  card_status, sys_ids, ci_max_cnt, ci_in_busy_sending,
  query,                     \* the query thread
  loader,                    \* the callers of loadPMT
  boot,                      \* where main's call of CIStart is
  card, c2h,                 \* the card, and its messages not yet read
  events,                    \* number of calls, reads timed out and writes given up
  want, sent, hist           \* history: the list of the last load, the CA PMTs sent since

flags == <<send_pmt_en0, send_pmt_status0, init_pmt_setA, cardasend>>
state == <<card_status, sys_ids, ci_max_cnt, ci_in_busy_sending>>
calls == <<loader, boot>>
wire == <<card, c2h, events>>
record == <<want, sent, hist>>
vars == <<cur_section, flags, state, query, calls, wire, record>>
-----------------------------------------------------------------------------
(* The CA PMT (cipmt.c). A descriptor is the system id's two bytes, a         *)
(* stream its type and its descriptors.                                       *)

\* The elements of s that are in S, in their order: those of its first n elements,
\* for every n, and of all of it. (SelectSeq says the same, but nothing could be
\* proved of it.)
Kept(s, S) ==
  LET kept[n \in 0..Len(s)] ==
        IF n = 0 THEN <<>>
        ELSE IF s[n] \in S THEN Append(kept[n - 1], s[n]) ELSE kept[n - 1]
  IN  kept
Within(s, S) == Kept(s, S)[Len(s)]

IsCASysIdInList(id) == id \in sys_ids

\* A descriptor of the program is kept when the card knows its system. In the
\* loop over the streams the parenthesis closes early: the id tested is the high
\* byte alone, and the low byte is or-ed to the result.
InProgram(d) == IsCASysIdInList(d.sys)
InStream(d) == IsCASysIdInList(<<d.sys[1], 0>>) \/ d.sys[2] # 0

\* The streams of a type a card has to know of.
Coded(es) == Within(es, {e \in Range(es) : e.type < 15})

\* What the caller's mark becomes: its CA_PMT_LIST_* are not Generate_CA_PMT's
\* PROG*, so that FIRST is sent as MORE and ADD as no byte at all.
ListManagement(mark) ==
  CASE mark = "CA_PMT_LIST_FIRST" -> "more"
    [] mark = "CA_PMT_LIST_LAST" -> "last"
    [] mark = "CA_PMT_LIST_ONLY" -> "only"
    [] mark = "CA_PMT_LIST_ADD" -> "missing"

Generate_CA_PMT(p, mark) ==
  [prog |-> p, mark |-> ListManagement(mark),
   desc |-> Within(Pmt[p].desc, {d \in Range(Pmt[p].desc) : InProgram(d)}),
   es |-> LET kept == Coded(Pmt[p].es)
          IN  [i \in DOMAIN kept |->
                 [kept[i] EXCEPT !.desc = Within(@, {d \in Range(@) : InStream(d)})]]]

-----------------------------------------------------------------------------
(* The protocol: what the host writes when it has read a message (query_ci.c, *)
(* send_xpdu.c). "drop" reads a message and leaves it, "answer" reads one and *)
(* writes only if it is a status (parse_readci).                              *)

SB == {"sb_idle", "sb_data"}
Poll(m) == IF m = "sb_idle" THEN "data_last" ELSE "rcv"
Polls == {"data_last", "rcv"}
SessionTpdus == {"open_resp", "close_resp"}
Enquiries == {"profile_enq", "app_enq", "ca_enq"}
Replies == {"profile", "profile_chg", "display_reply"}

handle_open_session(res) ==
  CASE res = "open_rm" -> <<"open_resp", "drop", "profile_enq">>
    [] res = "open_app" -> <<"open_resp", "drop", "app_enq">>
    [] res = "open_ca" -> <<"open_resp", "drop", "ca_enq">>
    [] res = "open_host" -> <<"open_resp", "answer", "answer">>
    [] res = "open_time" -> <<"open_resp", "answer">>
    [] res = "open_mmi" -> <<"open_resp">>
    [] OTHER -> <<"close_resp">>

handle_apdu(tag) ==
  CASE tag = "profile_enq" -> <<"profile">>
    [] tag = "profile" -> <<"profile_chg">>
    [] tag \in {"application", "time_enq", "menu_last"} -> <<"data_last">>
    [] tag = "ca_info" -> <<"ready", "data_last", "enable">>
    [] tag = "display_ctrl" -> <<"display_reply">>
    [] tag \in Silent -> <<>>

Handle(m) ==
  CASE m \in SB -> <<Poll(m)>>
    [] m \in Opens -> handle_open_session(m)
    [] m = "close_request" -> <<"close_resp", "answer">>
    [] OTHER -> handle_apdu(m)

\* The card says what it has to in any order, but answers an enquiry only when it
\* has heard it. Data comes in answer to T_RCV, a status to everything else.
Due(c) == {m \in CardMsgs \ c.said :
             CASE m = "profile" -> "profile_enq" \in c.heard
               [] m = "application" -> "app_enq" \in c.heard
               [] m = "ca_info" -> "ca_enq" \in c.heard
               [] OTHER -> TRUE}
CardAnswer(t) ==
  LET c == [card EXCEPT !.heard = @ \cup ({t} \cap Enquiries)] IN
  \/ /\ t = "rcv"
     /\ \E m \in Due(c) : card' = [c EXCEPT !.said = @ \cup {m}] /\ c2h' = Append(c2h, m)
  \/ /\ t # "rcv" \/ Due(c) = {}
     /\ card' = c
     /\ c2h' = Append(c2h, IF Due(c) = {} THEN "sb_idle" ELSE "sb_data")
-----------------------------------------------------------------------------
(* Start: main applies the saved programs and calls CIStart. *)

Idle == [pc |-> "off", idx |-> -1, script |-> <<>>, prog |-> NoProg, mark |-> "none"]
NoLoad == [pc |-> "idle", list |-> <<>>, k |-> 0]

\* xmux_ci_apply: the selected programs whose saved section has a length.
AppliedList(sel) == Within([i \in 1..Len(Pmt) |-> i], {p \in Progs \cap sel : Pmt[p].saved})

AtLeastOne(n) == IF n < 1 THEN 1 ELSE n

Init ==
  /\ cur_section = [index |-> 0, programtotal |-> 0, section |-> [i \in Progs |-> NoProg]]
  /\ send_pmt_en0 = FALSE /\ send_pmt_status0 = FALSE /\ init_pmt_setA = FALSE
  /\ cardasend = FALSE
  /\ card_status = "none" /\ sys_ids = {} /\ ci_in_busy_sending = FALSE
  /\ \E n \in MaxCnts : ci_max_cnt = AtLeastOne(n)
  /\ query = Idle
  /\ loader = [t \in Loader |-> NoLoad]
  /\ boot = "apply"
  /\ \E k \in CardKinds : card = [kind |-> k, heard |-> {}, said |-> {}]
  /\ c2h = <<>> /\ events = 0
  /\ want = <<>> /\ sent = <<>> /\ hist = {}

\* Nothing else runs yet: loadPMT is one step.
BootApply ==
  /\ boot = "apply" /\ boot' = "detect"
  /\ \E sel \in Selections : LET list == AppliedList(sel) IN
       /\ cur_section' = [cur_section EXCEPT !.programtotal = Len(list),
                            !.section = [i \in Progs |-> IF i <= Len(list) THEN list[i] ELSE @[i]]]
       /\ want' = list
  /\ send_pmt_en0' = TRUE
  /\ UNCHANGED <<send_pmt_status0, init_pmt_setA, cardasend, state, query, loader,
                 wire, sent, hist>>

\* init_ci. The waits of init_card_buff_size and set_ci_buff_size have no limit,
\* the wait for the answer to T_CREATE has one.
BootDetect ==
  /\ boot = "detect"
  /\ boot' = IF card.kind = "absent" THEN "done" ELSE "size"
  /\ card_status' = IF card.kind = "absent" THEN card_status ELSE "exist"
  /\ UNCHANGED <<cur_section, flags, sys_ids, ci_max_cnt, ci_in_busy_sending, query, loader,
                 wire, record>>

BootSize ==
  /\ boot = "size" /\ card.kind # "hangs"
  /\ boot' = "link"
  /\ UNCHANGED <<cur_section, flags, state, query, loader, wire, record>>

BootLink ==
  /\ boot = "link" /\ boot' = "done"
  /\ IF card.kind = "mute" THEN UNCHANGED <<cur_section, query>>
     ELSE /\ cur_section' = [cur_section EXCEPT !.index = 0]
          /\ query' = [Idle EXCEPT !.pc = "start"]
  /\ UNCHANGED <<flags, state, loader, wire, record>>
-----------------------------------------------------------------------------
(* loadPMT and the maximum, called by the agent and the front panel. *)

\* hist is empty as long as nothing has happened to the current list that keeps
\* it from the card: "raced", a load came while the query thread had a program in
\* hand; "torn", it came while the thread was inside get_pmt; "early", a
\* program was taken before the card was ready; "moved", the maximum was changed;
\* "failed", the write of a CA PMT was given up. "dropped" and "lost" are about
\* the polling and stay: a message of the card was left unanswered, a write given up;
\* and so does "undefined", a torn load put a section in hand that was never filled.
Lasting == {"dropped", "lost", "undefined"}
InGetPmt == query.pc \in {"get", "inc", "got"}
Holding == InGetPmt \/ (query.idx # -1)
Alone(t) == \A u \in Loader \ {t} : loader[u].pc \in {"idle", "stop"}
LoadUnderWay == \E t \in Loader : loader[t].pc \notin {"idle", "stop"}
Disturbed(t) == (IF Holding THEN {"raced"} ELSE {})
           \cup (IF InGetPmt \/ ~Alone(t) THEN {"raced", "torn"} ELSE {})

LoadTo(t, pc) == loader' = [loader EXCEPT ![t].pc = pc]

\* apply_psi_set refuses while the thread sends, the front panel does not look.
LoadCall(t) ==
  /\ boot = "done" /\ loader[t].pc = "idle" /\ events < MaxEvents
  /\ t = "agent" => ~ci_in_busy_sending
  /\ events' = events + 1
  /\ \E sel \in Selections :
       loader' = [loader EXCEPT ![t] = [pc |-> "stop", list |-> AppliedList(sel), k |-> 1]]
  /\ UNCHANGED <<cur_section, flags, state, query, boot, card, c2h, record>>

LoadStop(t) ==
  /\ loader[t].pc = "stop" /\ LoadTo(t, "clear")
  /\ send_pmt_en0' = FALSE
  /\ want' = loader[t].list /\ sent' = <<>>
  /\ hist' = (hist \cap Lasting) \cup Disturbed(t)
  /\ UNCHANGED <<cur_section, send_pmt_status0, init_pmt_setA, cardasend, state, query,
                 boot, wire>>

\* clean_ci_dcas_list
LoadClear(t) ==
  /\ loader[t].pc = "clear" /\ LoadTo(t, "set")
  /\ cur_section' = [cur_section EXCEPT !.index = 0, !.programtotal = 0]
  /\ hist' = hist \cup Disturbed(t)
  /\ UNCHANGED <<flags, state, query, boot, wire, want, sent>>

LoadSet(t) ==
  /\ loader[t].pc = "set" /\ LoadTo(t, IF loader[t].list = <<>> THEN "start" ELSE "copy")
  /\ cur_section' = [cur_section EXCEPT !.index = 0, !.programtotal = Len(loader[t].list)]
  /\ hist' = hist \cup Disturbed(t)
  /\ UNCHANGED <<flags, state, query, boot, wire, want, sent>>

LoadCopy(t) ==
  /\ loader[t].pc = "copy"
  /\ LET l == loader[t] IN
       /\ cur_section' = [cur_section EXCEPT !.section[l.k] = l.list[l.k]]
       /\ loader' = [loader EXCEPT ![t].pc = IF l.k = Len(l.list) THEN "start" ELSE "copy",
                                   ![t].k = l.k + 1]
  /\ hist' = hist \cup Disturbed(t)
  /\ UNCHANGED <<flags, state, query, boot, wire, want, sent>>

LoadStartNoEnable(t) ==
  /\ loader[t].pc = "start"
  /\ loader' = [loader EXCEPT ![t] = NoLoad]
  /\ UNCHANGED <<cur_section, flags, state, query, boot, wire, record>>
\* start_send_pmt
LoadStart(t) ==
  /\ loader[t].pc = "start"
  /\ loader' = [loader EXCEPT ![t] = NoLoad]
  /\ send_pmt_en0' = TRUE
  /\ UNCHANGED <<cur_section, send_pmt_status0, init_pmt_setA, cardasend, state, query,
                 boot, wire, record>>

\* ci_info_set, cmd_ci_info_handler
InfoUpdate ==
  /\ boot = "done" /\ events < MaxEvents /\ events' = events + 1
  /\ \E n \in MaxCnts : ci_max_cnt' = AtLeastOne(n)
  /\ hist' = hist \cup {"moved"}
  /\ UNCHANGED <<cur_section, flags, card_status, sys_ids, ci_in_busy_sending, query, loader,
                 boot, card, c2h, want, sent>>
-----------------------------------------------------------------------------
(* The query thread. *)

At(pc) == query.pc = pc
QueryTo(pc) == query' = [query EXCEPT !.pc = pc]
ToPoll == IF cardasend THEN "read" ELSE "poll"
ToTop == query' = [Idle EXCEPT !.pc = "top"]

\* write_card_io: the card takes the TPDU, which it will answer, or is not ready
\* for it ten times.
Write(t) == CardAnswer(t) /\ UNCHANGED events
GiveUp == events < MaxEvents /\ events' = events + 1 /\ UNCHANGED <<card, c2h>>
Written(t) == \/ Write(t) /\ UNCHANGED hist
              \/ GiveUp /\ hist' = hist \cup {"lost"}

\* read_ci: a message, or nothing for two and a half seconds, because nothing is
\* under way or because the card is slow.
ReadMsg(m) == c2h # <<>> /\ m = Head(c2h) /\ c2h' = Tail(c2h) /\ UNCHANGED <<card, events>>
ReadNothing ==
  /\ \/ c2h = <<>> /\ UNCHANGED events
     \/ c2h # <<>> /\ events < MaxEvents /\ events' = events + 1
  /\ UNCHANGED <<card, c2h>>
Unanswered(m) == hist' = IF m \in SB THEN hist ELSE hist \cup {"dropped"}

Start ==
  /\ At("start") /\ QueryTo("top")
  /\ send_pmt_en0' = FALSE
  /\ UNCHANGED <<cur_section, send_pmt_status0, init_pmt_setA, cardasend, state, calls, wire, record>>

\* The head of the loop: is there a list, and may it be sent?
Top ==
  /\ At("top")
  /\ init_pmt_setA' = (init_pmt_setA \/ cur_section.programtotal > 0)
  /\ send_pmt_status0' = (send_pmt_status0 \/ (init_pmt_setA' /\ send_pmt_en0))
  /\ QueryTo(IF send_pmt_status0' /\ send_pmt_en0 THEN "get" ELSE ToPoll)
  /\ UNCHANGED <<cur_section, send_pmt_en0, cardasend, state, calls, wire, record>>

\* get_pmt: the test and the copy, the read and the store of the index + 1.
GetPmt ==
  /\ At("get")
  /\ LET i == cur_section.index IN
     IF i < cur_section.programtotal
     THEN /\ query' = [query EXCEPT !.pc = "inc", !.prog = cur_section.section[i + 1]]
          /\ UNCHANGED send_pmt_status0
     ELSE QueryTo(ToPoll) /\ send_pmt_status0' = FALSE
  /\ hist' = hist \cup (IF LoadUnderWay THEN {"torn", "raced"} ELSE {})
                  \cup (IF query'.pc = "inc" /\ query'.prog = NoProg THEN {"undefined"} ELSE {})
  /\ UNCHANGED <<cur_section, send_pmt_en0, init_pmt_setA, cardasend, state, calls, wire, want, sent>>

GetPmtIndex ==
  /\ At("inc") /\ query' = [query EXCEPT !.pc = "got", !.idx = cur_section.index]
  /\ UNCHANGED <<cur_section, flags, state, calls, wire, record>>

GotPmt ==
  /\ At("got") /\ QueryTo(ToPoll)
  /\ cur_section' = [cur_section EXCEPT !.index = query.idx + 1]
  /\ UNCHANGED <<flags, state, calls, wire, record>>

\* The first time round the thread starts the polling.
FirstPoll ==
  /\ At("poll") /\ QueryTo("read")
  /\ cardasend' = TRUE
  /\ Written("data_last")
  /\ UNCHANGED <<cur_section, send_pmt_en0, send_pmt_status0, init_pmt_setA, state, calls, want, sent>>

\* What is left to do of a handler; then the thread goes on to send.
ToDo(script) == query' = [query EXCEPT !.script = script, !.pc = IF script = <<>> THEN "send" ELSE "handle"]
Doing(s) == At("handle") /\ s = Head(query.script)
Rest == Tail(query.script)

Read ==
  /\ At("read")
  /\ \/ \E m \in Range(c2h) : /\ ReadMsg(m) /\ ToDo(Handle(m))
                              /\ IF Handle(m) = <<>> THEN Unanswered(m) ELSE UNCHANGED hist
     \/ ReadNothing /\ QueryTo("send") /\ UNCHANGED hist
  /\ UNCHANGED <<cur_section, flags, state, calls, want, sent>>

HandleWrite ==
  /\ \E t \in Polls \cup SessionTpdus \cup Enquiries \cup Replies : Doing(t) /\ Written(t)
  /\ ToDo(Rest)
  /\ UNCHANGED <<cur_section, flags, state, calls, want, sent>>

HandleRead ==
  /\ Doing("drop") \/ Doing("answer")
  /\ \/ \E m \in Range(c2h) :
          /\ ReadMsg(m)
          /\ IF Doing("answer") /\ m \in SB
             THEN ToDo(<<Poll(m)>> \o Rest) /\ UNCHANGED hist
             ELSE ToDo(Rest) /\ Unanswered(m)
     \/ ReadNothing /\ ToDo(Rest) /\ UNCHANGED hist
  /\ UNCHANGED <<cur_section, flags, state, calls, want, sent>>

HandleNotReady ==
  /\ Doing("ready") /\ ToDo(Rest)
  /\ sys_ids' = CardIds
  /\ UNCHANGED <<cur_section, flags, card_status, ci_max_cnt, ci_in_busy_sending, calls, wire, record>>
\* CA_INFO: the card's systems, and it is ready.
HandleReady ==
  /\ Doing("ready") /\ ToDo(Rest)
  /\ card_status' = "ready" /\ sys_ids' = CardIds
  /\ UNCHANGED <<cur_section, flags, ci_max_cnt, ci_in_busy_sending, calls, wire, record>>

HandleEnable ==
  /\ Doing("enable") /\ ToDo(Rest)
  /\ send_pmt_en0' = TRUE
  /\ UNCHANGED <<cur_section, send_pmt_status0, init_pmt_setA, cardasend, state, calls, wire, record>>

\* Is the program in hand to be sent?
Send ==
  /\ At("send")
  /\ IF send_pmt_en0 /\ query.idx # -1 /\ card_status = "ready"
     THEN IF query.idx < ci_max_cnt /\ query.idx < cur_section.programtotal
          THEN QueryTo("dcas") /\ ci_in_busy_sending' = TRUE
          ELSE ToTop /\ ci_in_busy_sending' = FALSE
     ELSE ToTop /\ UNCHANGED ci_in_busy_sending
  /\ hist' = IF send_pmt_en0 /\ query.idx # -1 /\ card_status # "ready" THEN hist \cup {"early"} ELSE hist
  /\ UNCHANGED <<cur_section, flags, card_status, sys_ids, ci_max_cnt, calls, wire, want, sent>>

ListMark(i, total) ==
  CASE i = 0 /\ (total = 1 \/ ci_max_cnt = 1) -> "CA_PMT_LIST_ONLY"
    [] i = 0 /\ total # 1 /\ ci_max_cnt # 1 -> "CA_PMT_LIST_FIRST"
    [] i # 0 /\ (i + 1 = ci_max_cnt \/ i + 1 = total) -> "CA_PMT_LIST_LAST"
    [] OTHER -> "CA_PMT_LIST_ADD"

\* try_to_dcas: the program that would reach the maximum is not sent.
TryToDcasAll ==
  /\ At("dcas")
  /\ IF send_pmt_en0
     THEN /\ query' = [query EXCEPT !.pc = "frame", !.mark = ListMark(query.idx, cur_section.programtotal)]
          /\ UNCHANGED ci_in_busy_sending
     ELSE ToTop /\ ci_in_busy_sending' = FALSE
  /\ UNCHANGED <<cur_section, flags, card_status, sys_ids, ci_max_cnt, calls, wire, record>>
TryToDcas ==
  /\ At("dcas")
  /\ IF send_pmt_en0 /\ query.idx + 1 < ci_max_cnt
     THEN /\ query' = [query EXCEPT !.pc = "frame", !.mark = ListMark(query.idx, cur_section.programtotal)]
          /\ UNCHANGED ci_in_busy_sending
     ELSE ToTop /\ ci_in_busy_sending' = FALSE
  /\ UNCHANGED <<cur_section, flags, card_status, sys_ids, ci_max_cnt, calls, wire, record>>

\* SendTransportPacket reads whatever the card says next before it writes.
DropBeforeFrame ==
  /\ At("frame") /\ QueryTo("write")
  /\ \/ \E m \in Range(c2h) : ReadMsg(m) /\ Unanswered(m)
     \/ ReadNothing /\ UNCHANGED hist
  /\ UNCHANGED <<cur_section, flags, state, calls, want, sent>>

\* What becomes of a section that was never filled is undefined and not followed:
\* its streams have no end.
WriteFrame ==
  /\ At("write") /\ query.prog # NoProg /\ ToTop
  /\ ci_in_busy_sending' = FALSE
  /\ \/ /\ Write("ca_pmt") /\ sent' = Append(sent, Generate_CA_PMT(query.prog, query.mark))
        /\ UNCHANGED hist
     \/ GiveUp /\ hist' = hist \cup {"lost", "failed"} /\ UNCHANGED sent
  /\ UNCHANGED <<cur_section, flags, card_status, sys_ids, ci_max_cnt, calls, want>>

QueryStep ==
  \/ Start \/ Top \/ GetPmt \/ GetPmtIndex \/ GotPmt \/ FirstPoll \/ Read
  \/ HandleWrite \/ HandleRead \/ HandleReady \/ HandleEnable
  \/ Send \/ TryToDcas \/ DropBeforeFrame \/ WriteFrame
BootStep == BootApply \/ BootDetect \/ BootSize \/ BootLink
LoadStep(t) == LoadStop(t) \/ LoadClear(t) \/ LoadSet(t) \/ LoadCopy(t) \/ LoadStart(t)

Next == \/ BootStep \/ QueryStep \/ InfoUpdate
        \/ \E t \in Loader : LoadCall(t) \/ LoadStep(t)

\* The threads run and the calls of loadPMT return.
Fairness == WF_vars(BootStep \/ QueryStep) /\ WF_vars(\E t \in Loader : LoadStep(t))

Spec == Init /\ [][Next]_vars /\ Fairness
-----------------------------------------------------------------------------
(* Properties *)

\* Types; the index never passes the end of the section table.
TypeOK ==
  /\ cur_section.index \in 0..Len(Pmt) /\ cur_section.programtotal \in 0..Len(Pmt)
  /\ cur_section.section \in [Progs -> Progs \cup {NoProg}]
  /\ send_pmt_en0 \in BOOLEAN /\ send_pmt_status0 \in BOOLEAN /\ init_pmt_setA \in BOOLEAN
  /\ cardasend \in BOOLEAN /\ ci_in_busy_sending \in BOOLEAN
  /\ card_status \in {"none", "exist", "ready"} /\ sys_ids \subseteq CardIds
  /\ ci_max_cnt \in Nat \ {0}
  /\ query.idx \in -1..(Len(Pmt) - 1) /\ query.prog \in Progs \cup {NoProg}
  /\ \A i \in DOMAIN c2h : c2h[i] \in SB \cup CardMsgs

\* The polling keeps itself alive: as long as no write was given up and no message
\* of the card was left without an answer, the thread only waits for a message
\* while one is on its way (loop_query_ci, handle_open_session, parse_readci).
PollAlive == At("read") /\ hist \cap Lasting = {} => c2h # <<>>

Limited == SubSeq(want, 1, Min({Len(want), ci_max_cnt - 1}))
SentProgs == [i \in DOMAIN sent |-> sent[i].prog]

\* The card gets the programs of the last load and of no other, in order and each
\* once, unless a load came while the query thread had a program in hand, or a
\* program was lost or the maximum moved under the list (loadPMT, get_pmt).
SentInOrder ==
  hist \cap {"raced", "early", "moved", "failed"} = {} => IsPrefix(SentProgs, Limited)

\* Every program of the last load that the maximum allows reaches a ready card, and
\* the last one of a whole list is marked as such, even when the load raced with
\* the sending of the list before, unless it hit the thread inside get_pmt, where
\* at most a program of the earlier list is sent in front (loadPMT, loop_query_ci).
ListReachesCard ==
  <>[](card_status = "ready" /\ hist \cap {"torn", "early", "moved", "failed", "undefined"} = {}
       => /\ IsSuffix(Limited, SentProgs) /\ Len(SentProgs) <= Len(Limited) + 1
          /\ want # <<>> /\ Limited = want => Last(sent).mark \in {"last", "only"})

\* A card that is present and answers gets ready, and without one the device starts
\* all the same, unless a write was given up or a message left unanswered, or the
\* card hangs in its reset (init_ci, handle_apdu).
CardGetsReady ==
  <>[](\/ card.kind = "hangs" \/ hist \cap Lasting # {}
       \/ boot = "done" /\ (card.kind = "works" => card_status = "ready"))

\* The filter of the CA descriptors never takes one of the card's own systems from
\* a program or a stream that is sent (Generate_CA_PMT).
Own(ds) == Within(ds, {d \in Range(ds) : d.sys \in CardIds})
OwnOfStreams(es) == [k \in DOMAIN es |-> [es[k] EXCEPT !.desc = Own(@)]]
OwnOfPmt == [p \in Progs |-> [desc |-> Own(Pmt[p].desc), es |-> OwnOfStreams(Coded(Pmt[p].es))]]
DescriptorsKept ==
  \A i \in DOMAIN sent : LET c == sent[i] IN
    [desc |-> c.desc, es |-> OwnOfStreams(c.es)] = OwnOfPmt[c.prog]

\* The card is served: it is polled on, and gets the programs of the last load in
\* order with all the descriptors of its own systems (loop_query_ci, loadPMT,
\* Generate_CA_PMT).
CardIsServed == TypeOK /\ PollAlive /\ SentInOrder /\ DescriptorsKept
=============================================================================
