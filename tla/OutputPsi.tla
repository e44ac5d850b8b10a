----------------------------- MODULE OutputPsi -----------------------------
(* The generated PSI of the multiplex: sections cut into transport packets   *)
(* (section.c), the container that holds them (output_psi_data.c), the two   *)
(* generators, SNMP's from the sections of the manager and the front panel's *)
(* from the selected programs (psi_gen.c, front_panel_psi_gen.c), the load   *)
(* into the FPGA, the save by the main loop and the reload after a restart.  *)
EXTENDS Integers, Sequences, FiniteSets, SequencesExt

CONSTANTS
  OUTPUT_PSI_PACKET_MAX_NUM, \* packets of the container
  PROGRAM_MAX_NUM,           \* programs of the multiplex
  Requests,    \* what a manager may ask for: psi type -> sequence of sections
  Selections,  \* what the front panel may have selected
  FpLens,      \* lengths of the sections the SI library makes for the panel
  HeapBufs,    \* temporary packet buffers the heap can hold
  MaxApplies   \* bound on the applies


PSI_TYPE_PAT == 0
PSI_TYPE_PMT == 1
PSI_TYPE_CAT == 2
PSI_TYPE_SDT == 3
PSI_TYPE_NIT == 4
PsiTypes == PSI_TYPE_PAT .. PSI_TYPE_NIT
PAT_PID == 0
SDT_PID == 17
NIT_PID == 16

PSISI_40MS == 0
PSISI_2SEC == 1
PSISI_NIT == 2
PSISI_MUL_PKT_0 == 3
PSISI_MUL_PKT_3 == 6
Howtos == PSISI_40MS .. PSISI_MUL_PKT_3

SECTION_MAX_SIZE == 1024
TsBufPackets == 7   \* the generator's ts_buf
Thread == {"agent", "fp"}

VARIABLES
  ents, pkts, pkt_offset, \* the container: entries, packets, next free packet
  request_save,           \* request_save_output_psi
  saved,                  \* the container in the EEPROM
  fpga,                   \* the packets loaded, each with its group
  heap,                   \* temporary buffers not freed
  pc, job,                \* per thread: where it is, and what it generates
  sel,                    \* selected programs, in table order
  prog_num_table,         \* the output program numbers
  announced,              \* psi type -> pairs <<program number, PMT pid>>
  garbled,                \* history: both threads wrote the container, or more packets
                          \* than the bytes of an entry count (also kept in saved)
  cleared,                \* history: a parse cleared sel under an apply
  lost,                   \* history: an apply found no memory
  applies

vars == <<ents, pkts, pkt_offset, request_save, saved, fpga, heap, pc, job, sel,
          prog_num_table, announced, garbled, cleared, lost, applies>>
container == <<ents, pkts, pkt_offset>>
panel == <<sel, prog_num_table, announced, cleared>>

NoEntry == [offset |-> 0, nr |-> 0]
NoEnts == [ty \in PsiTypes |-> NoEntry]
Section == [pid : Nat, len : Nat]
Packet == [pid : Nat, pusi : BOOLEAN, cc : 0..15]
Program == [num : Nat, pid : Nat]

\* A start finds memory for one apply.
ASSUME OutputPsiAssumption ==
  /\ OUTPUT_PSI_PACKET_MAX_NUM \in 1..255 /\ PROGRAM_MAX_NUM \in Nat
  /\ HeapBufs \in Nat /\ HeapBufs >= Cardinality(Howtos) /\ MaxApplies \in Nat
  /\ Requests \subseteq [PsiTypes -> Seq(Section)]
  /\ Selections \subseteq Seq(Program) /\ FpLens \subseteq Nat
-----------------------------------------------------------------------------
(* section.c *)

\* What sg_mib_xxx_len makes of the length the manager wrote.
SectionLen(len) == IF len < SECTION_MAX_SIZE THEN len ELSE SECTION_MAX_SIZE

\* The first packet carries a pointer byte and 183 bytes, the others 184.
PacketCount(len) == IF len = 0 THEN 0 ELSE 1 + len \div 184

section_to_ts(sec, cc) ==
  [i \in 1..PacketCount(SectionLen(sec.len)) |->
     [pid |-> sec.pid, pusi |-> i = 1, cc |-> (cc + i - 1) % 16]]

\* The packets of the first n sections of a table, with one continuity counter.
PacketsUpTo(secs) ==
  LET ts[n \in 0..Len(secs)] ==
        IF n = 0 THEN <<>> ELSE ts[n - 1] \o section_to_ts(secs[n], Len(ts[n - 1]))
  IN  ts
TablePackets(secs) == PacketsUpTo(secs)[Len(secs)]
-----------------------------------------------------------------------------
(* output_psi_data.c *)

output_psi_data_validate(es) ==
  LET used == {ty \in PsiTypes : es[ty] # NoEntry}
      before(ty) == {u \in used : u < ty}
  IN  \A ty \in used :
        /\ es[ty].offset =
             (IF before(ty) = {} THEN 0
              ELSE LET u == CHOOSE u \in before(ty) : \A w \in before(ty) : w <= u
                   IN  es[u].offset + es[u].nr)
        /\ es[ty].offset + es[ty].nr < OUTPUT_PSI_PACKET_MAX_NUM

\* A save is cut at the end of the area. Beyond it lie the program tables,
\* which a longer fill overwrites in memory.
AreaOf(ts) == IF Len(ts) <= OUTPUT_PSI_PACKET_MAX_NUM THEN ts
              ELSE SubSeq(ts, 1, OUTPUT_PSI_PACKET_MAX_NUM)

\* The old packets stay in memory, but no entry names them any more.
begin_fill_output_psi_data ==
  /\ ents' = NoEnts
  /\ pkt_offset' = 0
  /\ pkts' = <<>>

fill_without_offset(ty, secs) ==
  \E ts \in {TablePackets(secs)} :
    /\ ents' = [ents EXCEPT ![ty].nr = (@ + Len(ts)) % 256]
    /\ pkts' = SubSeq(pkts, 1, pkt_offset) \o ts
    /\ pkt_offset' = pkt_offset + Len(ts)

\* The calls of fill_output_psi_data for the sections of one table.
fill_output_psi_data(ty, secs) ==
  \E ts \in {TablePackets(secs)} :
    /\ ents' = IF secs = <<>> THEN ents
               ELSE [ents EXCEPT ![ty] =
                       [offset |-> IF @.nr = 0 THEN pkt_offset % 256 ELSE @.offset,
                        nr |-> (@.nr + Len(ts)) % 256]]
    /\ pkts' = SubSeq(pkts, 1, pkt_offset) \o ts
    /\ pkt_offset' = pkt_offset + Len(ts)

psi_type_2_howto(ty) ==
  CASE ty = PSI_TYPE_NIT -> PSISI_NIT [] ty <= PSI_TYPE_CAT -> PSISI_40MS [] OTHER -> PSISI_2SEC

\* Packet i of the table with entry e, among the packets ps.
PacketOf(ps, e, i) == ps[e.offset + i]

\* Neighbours of one pid form a run; RunStarts counts the runs begun by packet n.
InRun(ps, e, i) == \/ i > 1 /\ PacketOf(ps, e, i - 1).pid = PacketOf(ps, e, i).pid
                   \/ i < e.nr /\ PacketOf(ps, e, i + 1).pid = PacketOf(ps, e, i).pid
RunStarts(ps, e, n) ==
  Cardinality({i \in 1..n :
    InRun(ps, e, i) /\ (i = 1 \/ PacketOf(ps, e, i - 1).pid # PacketOf(ps, e, i).pid)})
Runs(es, ps, ty) == RunStarts(ps, es[ty], es[ty].nr)

\* mul_pkt_off when a table begins.
MulOff(es, ps, ty) ==
  PSISI_MUL_PKT_0 - 1 + (IF ty > PSI_TYPE_PAT THEN Runs(es, ps, PSI_TYPE_PAT) ELSE 0)
                      + (IF ty > PSI_TYPE_PMT THEN Runs(es, ps, PSI_TYPE_PMT) ELSE 0)

HowtoSharedGroup(es, ps, ty, i) ==
  IF psi_type_2_howto(ty) = PSISI_40MS /\ InRun(ps, es[ty], i)
  THEN PSISI_MUL_PKT_0 ELSE psi_type_2_howto(ty)

\* The group of packet i of a table: a run has one of its own while there are
\* any left.
HowtoOf(es, ps, ty, i) ==
  IF psi_type_2_howto(ty) = PSISI_40MS /\ InRun(ps, es[ty], i)
  THEN LET off == MulOff(es, ps, ty) + RunStarts(ps, es[ty], i)
       IN  IF off <= PSISI_MUL_PKT_3 THEN off ELSE PSISI_40MS
  ELSE psi_type_2_howto(ty)

\* What psi_apply_from_output_psi writes to the FPGA: each packet with its group,
\* the packets of one group in this order.
TableInfo(es, ps, ty) ==
  [i \in 1..es[ty].nr |-> <<HowtoOf(es, ps, ty, i), PacketOf(ps, es[ty], i)>>]
WriteInfo(es, ps) ==
  TableInfo(es, ps, PSI_TYPE_PAT) \o TableInfo(es, ps, PSI_TYPE_PMT)
  \o TableInfo(es, ps, PSI_TYPE_CAT) \o TableInfo(es, ps, PSI_TYPE_SDT)
  \o TableInfo(es, ps, PSI_TYPE_NIT)
-----------------------------------------------------------------------------
(* front_panel_psi_gen.c *)

pick_free_prog_num(table) ==
  CHOOSE n \in 1..(Len(table) + 1) :
    /\ n \notin Range(table)
    /\ \A m \in 1..(n - 1) : m \in Range(table)

fix_and_push_skips_first(table, num) ==
  Append(table, IF \E i \in 2..Len(table) : table[i] = num
                THEN pick_free_prog_num(table) ELSE num)

fix_and_push_program_number(table, num) ==
  Append(table, IF num \in Range(table) THEN pick_free_prog_num(table) ELSE num)

\* Every walk over the program table ends with the last program of the multiplex.
Walk(progs) == IF Len(progs) <= PROGRAM_MAX_NUM THEN progs
               ELSE SubSeq(progs, 1, PROGRAM_MAX_NUM)

NumbersUpTo(progs) ==
  LET table[n \in 0..Len(progs)] ==
        IF n = 0 THEN <<>> ELSE fix_and_push_program_number(table[n - 1], progs[n].num)
  IN  table
build_program_number_table(progs) == NumbersUpTo(Walk(progs))[Len(Walk(progs))]

\* gen_pat_from_fp, gen_pmt_from_fp and gen_sdt_from_fp walk the table again
\* and number the selected programs by their position.
Numbered == [i \in 1..Len(Walk(sel)) |-> <<prog_num_table[i], sel[i].pid>>]

FpSections(ty, len) ==
  CASE ty = PSI_TYPE_PAT -> <<[pid |-> PAT_PID, len |-> len]>>
    [] ty = PSI_TYPE_PMT -> [i \in 1..Len(Walk(sel)) |-> [pid |-> sel[i].pid, len |-> len]]
    [] ty = PSI_TYPE_SDT -> <<[pid |-> SDT_PID, len |-> len]>>
    [] ty = PSI_TYPE_NIT -> <<[pid |-> NIT_PID, len |-> len]>>
-----------------------------------------------------------------------------
Init ==
  /\ ents = NoEnts /\ pkts = <<>> /\ pkt_offset = 0
  /\ request_save = FALSE
  /\ saved = [ents |-> NoEnts, pkts |-> <<>>, garbled |-> FALSE]
  /\ fpga = <<>>
  /\ heap = 0
  /\ pc = [t \in Thread |-> "idle"]
  /\ job = [t \in Thread |-> [next |-> 0, what |-> <<>>]]
  /\ sel = <<>> /\ prog_num_table = <<>>
  /\ announced = [ty \in PsiTypes |-> {}]
  /\ garbled = FALSE /\ cleared = FALSE /\ lost = FALSE
  /\ applies = 0

Other(t) == CHOOSE u \in Thread : u # t

\* Both generators start with an empty container.
Begin(t, what) ==
  /\ pc[t] = "idle"
  /\ applies < MaxApplies /\ applies' = applies + 1
  /\ begin_fill_output_psi_data
  /\ pc' = [pc EXCEPT ![t] = "gen"]
  /\ job' = [job EXCEPT ![t] = [next |-> 0, what |-> what]]
  /\ garbled' = (pc[Other(t)] # "idle")
  /\ UNCHANGED <<request_save, saved, fpga, heap, lost>>

\* apply_psi_set of the agent.
SnmpBegin ==
  \E r \in Requests : Begin("agent", r) /\ UNCHANGED panel

\* psi_gen_and_apply_from_fp of the front panel's thread, for the programs the
\* user has selected by then.
FpBegin ==
  \E len \in FpLens, progs \in Selections :
    /\ Begin("fp", <<len>>)
    /\ sel' = progs
    /\ prog_num_table' = build_program_number_table(progs)
    /\ announced' = [ty \in PsiTypes |-> {}]
    /\ cleared' = FALSE

Generate(t, secs) ==
  /\ pc[t] = "gen" /\ job[t].next \in PsiTypes
  /\ fill_output_psi_data(job[t].next, secs)
  /\ job' = [job EXCEPT ![t].next = IF t = "fp" /\ @ = PSI_TYPE_PMT THEN PSI_TYPE_SDT ELSE @ + 1]
  /\ garbled' = (garbled \/ pkt_offset' > 255)
  /\ UNCHANGED <<request_save, saved, fpga, heap, pc, lost, applies>>

\* One table of psi_gen_output_psi_from_sections.
SnmpTable ==
  Generate("agent", job["agent"].what[job["agent"].next]) /\ UNCHANGED panel

\* One table of psi_gen_and_apply_from_fp, through the write hook.
FpTable ==
  LET ty == job["fp"].next IN
  /\ ty \in PsiTypes
  /\ Generate("fp", FpSections(ty, job["fp"].what[1]))
  /\ announced' = IF ty \in {PSI_TYPE_PAT, PSI_TYPE_PMT, PSI_TYPE_SDT}
                  THEN [announced EXCEPT ![ty] = Range(Numbered)] ELSE announced
  /\ UNCHANGED <<sel, prog_num_table, cleared>>

SaveNotRequested(t) ==
  /\ pc[t] = "gen" /\ job[t].next \notin PsiTypes
  /\ pc' = [pc EXCEPT ![t] = "apply"]
  /\ job' = [job EXCEPT ![t] = [next |-> 0, what |-> <<>>]]
  /\ UNCHANGED <<container, request_save, saved, fpga, heap, panel, garbled, lost, applies>>

\* xmux_config_save_output_psi_data.
RequestSave(t) ==
  /\ pc[t] = "gen" /\ job[t].next \notin PsiTypes
  /\ request_save' = TRUE
  /\ pc' = [pc EXCEPT ![t] = "apply"]
  /\ job' = [job EXCEPT ![t] = [next |-> 0, what |-> <<>>]]
  /\ UNCHANGED <<container, saved, fpga, heap, panel, garbled, lost, applies>>

\* psi_apply_from_output_psi: a buffer is freed only when its group was written.
Apply(t) ==
  /\ pc[t] = "apply"
  /\ heap + Cardinality(Howtos) <= HeapBufs
  /\ fpga' = WriteInfo(ents, pkts)
  /\ heap' = heap + Cardinality(Howtos \ {hp[1] : hp \in Range(fpga')})
  /\ pc' = [pc EXCEPT ![t] = "idle"]
  /\ lost' = FALSE
  /\ UNCHANGED <<container, request_save, saved, job, panel, garbled, applies>>

\* The same when malloc fails: the buffers it got are not freed.
ApplyNoMem(t) ==
  /\ pc[t] = "apply"
  /\ heap + Cardinality(Howtos) > HeapBufs
  /\ heap' = HeapBufs
  /\ pc' = [pc EXCEPT ![t] = "idle"]
  /\ lost' = TRUE
  /\ UNCHANGED <<container, request_save, saved, fpga, job, panel, garbled, applies>>

\* A parse of the worker clears the program table from its start, and the
\* panel's thread walks it when the first n selected programs are gone.
ClearProgInfo ==
  /\ pc["fp"] = "gen" /\ ~cleared
  /\ \E n \in 1..Len(sel) : sel' = SubSeq(sel, n + 1, Len(sel))
  /\ cleared' = TRUE
  /\ UNCHANGED <<container, request_save, saved, fpga, heap, pc, job,
                 prog_num_table, announced, garbled, lost, applies>>

\* check_and_save_output_psi_data of the main loop.
Save ==
  /\ request_save
  /\ request_save' = FALSE
  /\ saved' = [ents |-> ents, pkts |-> AreaOf(pkts), garbled |-> garbled]
  /\ UNCHANGED <<container, fpga, heap, pc, job, panel, garbled, lost, applies>>

\* Power off, and the start that loads, checks and applies what was saved.
Restart ==
  /\ IF output_psi_data_validate(saved.ents)
     THEN ents' = saved.ents /\ pkts' = saved.pkts
     ELSE ents' = NoEnts /\ pkts' = <<>>
  /\ pkt_offset' = 0
  /\ fpga' = WriteInfo(ents', pkts')
  /\ heap' = Cardinality(Howtos \ {hp[1] : hp \in Range(fpga')})
  /\ request_save' = FALSE
  /\ pc' = [t \in Thread |-> "idle"]
  /\ job' = [t \in Thread |-> [next |-> 0, what |-> <<>>]]
  /\ sel' = <<>> /\ prog_num_table' = <<>>
  /\ announced' = [ty \in PsiTypes |-> {}]
  /\ garbled' = saved.garbled /\ cleared' = FALSE /\ lost' = FALSE
  /\ UNCHANGED <<saved, applies>>

Next ==
  \/ SnmpBegin \/ FpBegin \/ SnmpTable \/ FpTable
  \/ \E t \in Thread : RequestSave(t) \/ Apply(t) \/ ApplyNoMem(t)
  \/ ClearProgInfo \/ Save \/ Restart

Spec == Init /\ [][Next]_vars
-----------------------------------------------------------------------------
\* Every variable has its type, and the entries name packets that are there.
TypeOK ==
  /\ ents \in [PsiTypes -> [offset : 0..255, nr : 0..255]]
  /\ pkts \in Seq(Packet) /\ pkt_offset \in 0..Len(pkts)
  /\ \A ty \in PsiTypes : ents[ty].offset + ents[ty].nr <= Len(pkts)
  /\ request_save \in BOOLEAN
  /\ saved.ents \in [PsiTypes -> [offset : 0..255, nr : 0..255]]
  /\ saved.pkts \in Seq(Packet)
  /\ fpga \in Seq(Nat \X Packet)
  /\ heap \in 0..HeapBufs
  /\ pc \in [Thread -> {"idle", "gen", "apply"}]
  /\ \A t \in Thread : job[t].next \in 0..(PSI_TYPE_NIT + 1)
  /\ sel \in Seq(Program) /\ prog_num_table \in Seq(Nat)
  /\ announced \in [PsiTypes -> SUBSET (Nat \X Nat)]
  /\ garbled \in BOOLEAN /\ cleared \in BOOLEAN /\ lost \in BOOLEAN
  /\ applies \in 0..MaxApplies

Idle == \A t \in Thread : pc[t] = "idle"
Total == ents[0].nr + ents[1].nr + ents[2].nr + ents[3].nr + ents[4].nr

\* No section of the container is longer than ts_buf, which section_to_ts
\* fills without a bound: only the clipped length keeps it inside.
TsBufHolds ==
  \A i \in 1..Len(pkts) : \E j \in 0..(TsBufPackets - 1) : i - j >= 1 /\ pkts[i - j].pusi

\* A container that leaves room in the area is accepted by the check at the
\* next start, whatever tables were flagged and however empty they were.
Reloadable ==
  Idle /\ ~garbled /\ Total < OUTPUT_PSI_PACKET_MAX_NUM => output_psi_data_validate(ents)

\* Packets of one pid that follow each other in a table count on.
ContinuityKept ==
  ~garbled => \A e \in Range(ents) : \A i \in 1..(e.nr - 1) :
    PacketOf(pkts, e, i).pid = PacketOf(pkts, e, i + 1).pid
      => PacketOf(pkts, e, i + 1).cc = (PacketOf(pkts, e, i).cc + 1) % 16

\* An apply loads every packet of the container to a group the FPGA has, also
\* when more tables need a group of their own than there are.
AllLoaded ==
  Idle /\ ~lost => /\ Len(fpga) = Total
                   /\ \A i \in 1..Len(fpga) : fpga[i][1] \in Howtos

\* Packet j is the next one after packet i in its group.
Succeeds(j, i) == /\ i < j /\ fpga[j][1] = fpga[i][1]
                  /\ \A k \in (i + 1)..(j - 1) : fpga[k][1] # fpga[i][1]

\* A group for a table of several packets is not shared between pids and
\* holds its packets in order.
GroupOfOnePid ==
  Idle /\ ~lost /\ ~garbled =>
    \A i, j \in 1..Len(fpga) :
      fpga[i][1] \in PSISI_MUL_PKT_0 .. PSISI_MUL_PKT_3 /\ Succeeds(j, i) =>
        /\ fpga[j][2].pid = fpga[i][2].pid
        /\ fpga[j][2].cc = (fpga[i][2].cc + 1) % 16

\* Unless a parse cleared programs under the apply, a program number stands for
\* the same PMT pid in PAT, PMT and SDT, although inputs use the same numbers.
NumbersIdentify ==
  ~cleared =>
    \A a, b \in UNION {announced[ty] : ty \in PsiTypes} : a[1] = b[1] => a[2] = b[2]

\* A restart with nothing left to save gives the FPGA what it had.
RestartKeepsOutput ==
  [][Restart /\ Idle /\ ~request_save /\ ~garbled /\ ~lost
       /\ output_psi_data_validate(ents) => fpga' = fpga]_vars

\* The container is sound whatever a manager sends: sections fit the buffer, the
\* entries name its packets, and the next start accepts it (fill_output_psi_data,
\* output_psi_data_validate).
ContainerSound == TypeOK /\ TsBufHolds /\ Reloadable

\* The FPGA is given every packet, those of a table in order and the groups for
\* long tables unmixed (section_to_ts, output_psi_data_apply).
LoadedInGroups == AllLoaded /\ ContinuityKept /\ GroupOfOnePid
=============================================================================
