--------------------------- MODULE ProgramSelect ---------------------------
(***************************************************************************)
(* The front panel's program table: reading a program, which offers output *)
(* pids for it (prepare_program_output_pid), selecting it with the pids    *)
(* the user left or changed (check_and_select_program), and deselecting    *)
(* it.  Sources: io_table.c, program_pid_validater.c, pid_map_rule.c,      *)
(* pid_map_table.c and cmd_program_info_handler of front_panel_process.c.  *)
(*                                                                         *)
(* The output stream is shared by all channels: two pids of the input that *)
(* are sent under one output pid garble each other.  io_table is rebuilt   *)
(* by every operation, hence an operator and not a variable; so is the pid *)
(* map an apply would send to the FPGA.  Pids are small numbers in their   *)
(* order: 0 is 0x0000, Pad 0x000F, the value of an unused entry, and 2 the *)
(* least legal one, 0x20.  The panel changes output pids of used entries   *)
(* only; the names, types and program numbers it also sends back do not    *)
(* take part in the checks.                                                *)
(***************************************************************************)
EXTENDS Integers, Sequences, FiniteSets, FiniteSetsExt

CONSTANTS
  Stream,     \* Stream[c] : the programs of channel c, each a sequence of
              \* input pids: the PMT's, the PCR's, then the data pids;
              \* CHANNEL_MAX_NUM is its length
  MaxPid,     \* defProgPidMax, the largest legal pid
  UserPids,   \* the pids the user of the panel tries
  ChanPids,   \* FPGA_PID_MAP_TABLE_CHAN_PIDS
  DataMax,    \* PROGRAM_DATA_PID_MAX_NUM, the data entries of a program
  ProgramMax, \* PROGRAM_MAX_NUM, for the programs selected in all channels
  RuleChan,   \* PID_MAP_MAX_PID_NUM_PER_CHAN
  RuleProg    \* PID_MAP_MAX_PID_NUM_PER_PROG

Channels == DOMAIN Stream
Programs == UNION {{c} \X DOMAIN Stream[c] : c \in Channels}
Ins(p) == Stream[p[1]][p[2]]
Pids == 2..MaxPid
NullPid == MaxPid + 1
Pad == 1
OneChannel == Len(Stream) = 1

(* Legal pids, and the two a data entry may be given although they are not. *)
OutPids == Pids \cup {0, Pad}

prog_pid_val_isvalid(pid) == pid \in Pids

(* No stream sends its PMTs on the pid of one of its elementary streams,   *)
(* and a PMT pid is legal.                                                 *)
ASSUME StreamAssumption ==
  /\ {MaxPid, ChanPids, DataMax, ProgramMax, RuleChan, RuleProg} \cup UserPids \subseteq Nat
  /\ MaxPid >= 2
  /\ Stream \in Seq(Seq(Seq(Nat)))
  /\ \A p \in Programs :
       /\ Len(Ins(p)) >= 2 /\ Len(Ins(p)) <= DataMax + 2
       /\ Ins(p)[1] \in Pids
       /\ \A q \in Programs, k \in 2..Len(Ins(p)) :
            q[1] = p[1] => Ins(q)[1] # Ins(p)[k]

VARIABLES
  table,    \* g_prog_info_table: sel is FP_STATUS_SELECTED, out the output pids
  old_prog, \* the program the last read answered, as it was answered
  taint     \* history, "none" | "stale": a write was checked against other
            \* pids than a read of its program answers | "refused": a write
            \* was refused after it had changed other programs

SelectVars == <<table, old_prog, taint>>

-----------------------------------------------------------------------------
(* The pids a parse proposes.                                              *)

(* The offset is 0 for the PMT, and for the others 1 more than the number  *)
(* of smaller ones in the program, the PCR's counted once.                 *)
pid_map_rule_map_psi_pid(p, k) ==
  LET smaller == {j \in 2..Len(Ins(p)) : /\ Ins(p)[j] < Ins(p)[k]
                                         /\ j = 2 \/ Ins(p)[j] # Ins(p)[2]}
      offset == IF k = 1 THEN 0 ELSE 1 + Cardinality(smaller)
  IN 2 + RuleChan * (p[1] - 1) + RuleProg * (p[2] - 1) + offset

(* What a parse leaves: every program unselected, with the rule's pids.    *)
Parsed ==
  [p \in Programs |->
     [sel |-> FALSE,
      out |-> [k \in DOMAIN Ins(p) |-> pid_map_rule_map_psi_pid(p, k)]]]

-----------------------------------------------------------------------------
(* io_table, as the relations its flags and fields stand for:              *)
(*   map     the triples <<channel, input pid, output pid>> of selected    *)
(*           programs, one output pid for an input pid of a channel        *)
(*   pmt     the pairs <<channel, pid>> of the input PMT pids              *)
(*   input   the pids that are an input in some channel                    *)
(*   pmtOut  the output pids of PMTs whose input pid is in map already     *)
(* The flags that only colour the dump are left out.                       *)

Mapped(io, c, in) == \E m \in io.map : m[1] = c /\ m[2] = in
OutPid(io, c, in) == (CHOOSE m \in io.map : m[1] = c /\ m[2] = in)[3]
IsOutput(io, out) == \E m \in io.map : m[3] = out

io_table_set_pid(io, c, in, out) ==
  [io EXCEPT !.map = {m \in @ : ~(m[1] = c /\ m[2] = in)} \cup {<<c, in, out>>}]

io_table_set_pmt_pid(io, c, in, out) ==
  IF Mapped(io, c, in) THEN [io EXCEPT !.pmtOut = @ \cup {out}]
                       ELSE io_table_set_pid(io, c, in, out)

(* The loops over a program's entries stop at the first illegal input pid. *)
Listed(p) ==
  {k \in DOMAIN Ins(p) : \A j \in 1..k : prog_pid_val_isvalid(Ins(p)[j])}

(* The entries the loops of build_io_table visit.                          *)
Entries == UNION {{p} \X Listed(p) : p \in Programs}
InPid(e) == Ins(e[1])[e[2]]
SameInput(e, f) == e[1][1] = f[1][1] /\ InPid(e) = InPid(f)
Precedes(e, f) == e[1][2] < f[1][2] \/ (e[1][2] = f[1][2] /\ e[2] < f[2])

(* Of the selected entries of an input pid, the table holds the first one  *)
(* if it is a PMT's, which may go out under several pids, else the last.   *)
build_io_table(t) ==
  LET used == {e \in Entries : t[e[1]].sel}
      held == {e \in used : \A f \in used \ {e} :
                 SameInput(e, f) => IF e[2] = 1 THEN Precedes(e, f) ELSE Precedes(f, e)}
      out(e) == t[e[1]].out[e[2]]
  IN [map    |-> {<<e[1][1], InPid(e), out(e)>> : e \in held},
      pmt    |-> {<<p[1], Ins(p)[1]>> : p \in Programs},
      input  |-> {InPid(e) : e \in Entries},
      pmtOut |-> {out(e) : e \in {f \in used \ held : f[2] = 1}}]

(* Mutant: forgets the pids given to PMTs of a shared input pid.           *)
UsableDespitePmtOut(io, c, in, out) ==
  IF <<c, in, out>> \in io.map THEN <<c, in>> \notin io.pmt
                                ELSE ~IsOutput(io, out)

is_out_pid_usable(io, c, in, out) ==
  /\ out \notin io.pmtOut
  /\ IF <<c, in, out>> \in io.map THEN <<c, in>> \notin io.pmt
                                  ELSE ~IsOutput(io, out)

pick_free_pid(io) ==
  LET used == io.input \cup io.pmtOut \cup UNION {{m[2], m[3]} : m \in io.map}
  IN IF Pids \subseteq used THEN NullPid ELSE Min(Pids \ used)

(* Mutant: a pid that is mapped already gets another output pid.           *)
GetOutPidAfresh(io, c, in) ==
  IF is_out_pid_usable(io, c, in, in) THEN in ELSE pick_free_pid(io)

io_table_get_out_pid(io, c, in) ==
  IF Mapped(io, c, in) THEN OutPid(io, c, in)
  ELSE IF is_out_pid_usable(io, c, in, in) THEN in
  ELSE pick_free_pid(io)

io_table_get_pmt_out_pid(io, c, in) ==
  IF ~Mapped(io, c, in) /\ is_out_pid_usable(io, c, in, in) THEN in
  ELSE pick_free_pid(io)

-----------------------------------------------------------------------------
(* What a read answers.                                                    *)

(* fix_selected_program_output_pid with do_fix_selected_programs false.    *)
(* The other mode belongs to fp_select_program, which only the simulator   *)
(* calls.                                                                  *)
(* FixUpTo(t, p)[n] is what it has done after the PMT and n more entries.  *)
FixUpTo(t, p) ==
  LET c == p[1]
      io0 == build_io_table(t)
      pmt == io_table_get_pmt_out_pid(io0, c, Ins(p)[1])
      Fix(acc, k) ==
        LET out == io_table_get_out_pid(acc.io, c, Ins(p)[k])
        IN IF ~prog_pid_val_isvalid(Ins(p)[k]) THEN acc
           ELSE [io |-> io_table_set_pid(acc.io, c, Ins(p)[k], out),
                 out |-> [acc.out EXCEPT ![k] = out]]
      after[n \in 0..(Len(Ins(p)) - 1)] ==
        IF n = 0 THEN [io |-> io_table_set_pmt_pid(io0, c, Ins(p)[1], pmt),
                       out |-> [t[p].out EXCEPT ![1] = pmt]]
        ELSE Fix(after[n - 1], n + 1)
  IN after
fix_selected_program_output_pid(t, p) == FixUpTo(t, p)[Len(Ins(p)) - 1].out

prepare_program_output_pid(t, p) ==
  IF t[p].sel THEN t[p].out ELSE fix_selected_program_output_pid(t, p)

-----------------------------------------------------------------------------
(* What a write checks.                                                    *)

(* An unused entry holds Pad on both sides.                                *)
HasUnused(p) == Len(Ins(p)) < DataMax + 2

(* The PMT and the PCR need a legal pid; a data entry may also have 0 or   *)
(* Pad.  The test of equal pids covers all entries, the unused ones too.   *)
valid_program_pids(p, out) ==
  /\ prog_pid_val_isvalid(out[1]) /\ prog_pid_val_isvalid(out[2])
  /\ \A k \in DOMAIN out : out[k] \in OutPids
  /\ \A j, k \in DOMAIN out : Ins(p)[j] = Ins(p)[k] <=> out[j] = out[k]
  /\ HasUnused(p) => \A k \in DOMAIN out : Ins(p)[k] = Pad <=> out[k] = Pad

(* The entries that count: the PCR's, and the data pids that are not its.  *)
Counted(p) ==
  {2} \cup {k \in 3..Len(Ins(p)) : /\ Ins(p)[k] # Ins(p)[2]
                                  /\ prog_pid_val_isvalid(Ins(p)[k])}
program_mapped_pid_count(p) == Cardinality(Counted(p))

Selected(t) == {p \in Programs : t[p].sel}

channel_mapped_pid_count(t, c) ==
  Cardinality(UNION {{p} \X Counted(p) : p \in {q \in Selected(t) : q[1] = c}})

(* Mutant: the other programs keep their pids.                             *)
OthersKeepPids(t, p, in, out) == t

(* The pids of the other selected programs of the channel that come from   *)
(* the same input pid are sent under the same output pid.                  *)
update_channel_other_program_out_pid(t, p, in, out) ==
  [q \in Programs |->
     IF q[1] # p[1] \/ q = p \/ ~t[q].sel THEN t[q]
     ELSE [t[q] EXCEPT !.out =
             [k \in DOMAIN @ |->
                IF /\ k > 1
                   /\ Ins(q)[k] = in
                   /\ \A j \in 2..k : prog_pid_val_isvalid(Ins(q)[j])
                THEN out ELSE @[k]]]]

(* The pid is compared with the one last read; a program read last may     *)
(* have fewer entries, and its unused ones hold Pad.                       *)
Changed(old, out, k) == out[k] # (IF k \in DOMAIN old THEN old[k] ELSE Pad)

(* The check changes the table as it goes. CheckUpTo(...)[n] is how far it *)
(* is after the PMT and n more entries.                                    *)
CheckUpTo(t, p, out, old) ==
  LET c == p[1]
      Usable(io, k) ==
        Changed(old, out, k) => is_out_pid_usable(io, c, Ins(p)[k], out[k])
      io0 == build_io_table(t)
      Check(acc, k) ==
        IF ~acc.ok \/ ~prog_pid_val_isvalid(Ins(p)[k]) THEN acc
        ELSE IF ~Usable(acc.io, k) THEN [acc EXCEPT !.ok = FALSE]
        ELSE [ok |-> TRUE,
              io |-> io_table_set_pid(acc.io, c, Ins(p)[k], out[k]),
              t |-> update_channel_other_program_out_pid(acc.t, p, Ins(p)[k], out[k])]
      after[n \in 0..(Len(Ins(p)) - 1)] ==
        IF n = 0 THEN [ok |-> Usable(io0, 1),
                       io |-> io_table_set_pmt_pid(io0, c, Ins(p)[1], out[1]),
                       t |-> t]
        ELSE Check(after[n - 1], n + 1)
  IN after
check_user_output_pid(t, p, out, old) == CheckUpTo(t, p, out, old)[Len(Ins(p)) - 1]

(* The answer to a write of program p with output pids out, and the table  *)
(* it leaves.                                                              *)
check_and_select_program(t, p, out, old) ==
  LET rest == [t EXCEPT ![p].sel = FALSE]
      fits == /\ Cardinality(Selected(rest)) + 1 <= ProgramMax
              /\ valid_program_pids(p, out)
              /\ channel_mapped_pid_count(rest, p[1]) + program_mapped_pid_count(p)
                   <= ChanPids
      check == check_user_output_pid(rest, p, out, old)
  IN IF t[p] = [sel |-> TRUE, out |-> out] THEN [ok |-> TRUE, t |-> t]
     ELSE IF ~fits THEN [ok |-> FALSE, t |-> t]
     ELSE IF ~check.ok
          THEN [ok |-> FALSE, t |-> [check.t EXCEPT ![p].sel = t[p].sel]]
     ELSE [ok |-> TRUE, t |-> [check.t EXCEPT ![p] = [sel |-> TRUE, out |-> out]]]

-----------------------------------------------------------------------------
(* The commands of cmd_program_info_handler, one at a time: they run in    *)
(* the front panel's thread.  Nothing is claimed of a tainted table: the   *)
(* model goes on with the next parse, which makes a new one.               *)

SelectInit ==
  /\ table = Parsed
  /\ old_prog = <<>>
  /\ taint = "none"

Read(p) ==
  /\ taint = "none"
  /\ old_prog' = prepare_program_output_pid(table, p)
  /\ UNCHANGED <<table, taint>>

(* The panel shows the pids of a read of p; the user keeps or changes each. *)
Write(p) ==
  /\ taint = "none"
  /\ \E shown \in {prepare_program_output_pid(table, p)} :
     \E kept \in SUBSET DOMAIN shown : \E typed \in [DOMAIN shown \ kept -> UserPids] :
       LET out == [k \in DOMAIN shown |-> IF k \in kept THEN shown[k] ELSE typed[k]]
           res == check_and_select_program(table, p, out, old_prog)
       IN /\ table' = res.t
          /\ taint' = IF res.t = table THEN "none"
                      ELSE IF old_prog # shown THEN "stale"
                      ELSE IF ~res.ok THEN "refused" ELSE "none"
  /\ UNCHANGED old_prog

(* A write whose program is not marked selected, and fp_deselect_program.  *)
Deselect(p) ==
  /\ taint = "none"
  /\ table' = [table EXCEPT ![p].sel = FALSE]
  /\ UNCHANGED <<old_prog, taint>>

(* A new parse of the same streams clears the table, not old_prog.         *)
Parse ==
  /\ table' = Parsed
  /\ taint' = "none"
  /\ UNCHANGED old_prog

SelectNext ==
  \/ \E p \in Programs : Read(p) \/ Write(p) \/ Deselect(p)
  \/ Parse

SelectSpec == SelectInit /\ [][SelectNext]_SelectVars

-----------------------------------------------------------------------------
(* The pid map an apply sends to the FPGA.                                 *)

(* pid_map_table_push_pid_pair drops the pairs beyond ChanPids, which are  *)
(* pushed in the order of their input pids.  PMTs are generated, not       *)
(* mapped; the product of one channel pushes the PMTs and nothing else.    *)
pid_map_table_gen(t, c) ==
  LET io == build_io_table(t)
      pushed == {m \in io.map : m[1] = c /\ (<<c, m[2]>> \in io.pmt <=> OneChannel)}
      pairs == {<<m[2], m[3]>> : m \in pushed}
  IN {a \in pairs : Cardinality({b \in pairs : b[1] <= a[1]}) <= ChanPids}

-----------------------------------------------------------------------------
(* Properties.                                                             *)

(* The entries of the selected programs that carry a legal pid.            *)
Sent ==
  UNION {{<<p, k>> : k \in {j \in DOMAIN Ins(p) : prog_pid_val_isvalid(Ins(p)[j])}}
           : p \in Selected(table)}

(* Every variable has its type.  A PMT is selected with a legal pid and    *)
(* offered one; the other entries have a legal pid, 0 or Pad, and so do    *)
(* the offers: a free pid is always found.  A PCR, too, may end on 0 or    *)
(* Pad: it follows the data entry of another program that has its stream.  *)
SelectTypeOK ==
  /\ DOMAIN table = Programs
  /\ \A p \in Programs :
       /\ table[p].sel \in BOOLEAN
       /\ DOMAIN table[p].out = DOMAIN Ins(p)
       /\ \A k \in DOMAIN Ins(p) :
            table[p].out[k] \in (IF ~table[p].sel THEN Nat ELSE IF k = 1 THEN Pids ELSE OutPids)
  /\ old_prog \in Seq(OutPids)
  /\ old_prog # <<>> => old_prog[1] \in Pids
  /\ taint \in {"none", "stale", "refused"}

(* What the properties below suppose: every pid of a program is a legal one. *)
(* A program without PCR has an illegal one, and build_io_table stops there. *)
LegalStreams ==
  \A p \in Programs : \A k \in DOMAIN Ins(p) : prog_pid_val_isvalid(Ins(p)[k])

(* And that pids do not run out: the input pids, the PMTs and the streams   *)
(* of each channel could have a pid each.  The code's limits leave no other *)
(* case: at most 2048 entries, and 8159 legal pids.                        *)
Outlet(e) == <<e[1][1], IF e[2] = 1 THEN e[1][2] ELSE 0, InPid(e)>>
EnoughPids ==
  Cardinality({InPid(e) : e \in Entries}) + Cardinality({Outlet(e) : e \in Entries})
    < Cardinality(Pids)

(* Two entries of selected programs share an output pid only if they are   *)
(* the same elementary stream, used by two programs of a channel or twice  *)
(* by one: whatever the user types, no stream and no PMT is mixed into     *)
(* another one on the output.                                              *)
OutPidsDistinct ==
  taint = "none" =>
    \A e, f \in Sent :
      LET p == e[1]  j == e[2]  q == f[1]  k == f[2] IN
      e # f /\ table[p].out[j] = table[q].out[k]
        => /\ p[1] = q[1]
           /\ Ins(p)[j] = Ins(q)[k]
           /\ j > 1 /\ k > 1

(* Of the selected programs of a channel with one PMT pid, the first.      *)
FirstOfPmt(t, c) ==
  {p \in Selected(t) :
     p[1] = c /\ \A q \in Selected(t) : q[1] = c /\ Ins(q)[1] = Ins(p)[1] => p[2] <= q[2]}

(* What the pid map of table t should hold of channel c.                   *)
MapHolds(t, c) ==
  pid_map_table_gen(t, c) =
    IF OneChannel THEN {<<Ins(p)[1], t[p].out[1]>> : p \in FirstOfPmt(t, c)}
    ELSE UNION {{<<Ins(p)[k], t[p].out[k]>> : k \in {j \in Listed(p) : j > 1}}
                  : p \in {q \in Selected(t) : q[1] = c}}

(* The pid map an apply generates sends every elementary stream of every   *)
(* selected program under the pid the program's entry names: no pair is    *)
(* discarded for want of room, and programs that share a stream agree.     *)
(* That of the one-channel product has no elementary stream: it has each   *)
(* PMT pid once, under the pid of the first selected program that uses it. *)
MapIsComplete == taint = "none" => \A c \in Channels : MapHolds(table, c)

(* The pids a read offers for a program are accepted when they are written *)
(* back unchanged, unless too many programs or pids are selected already,  *)
(* or it has a stream that the user sent under 0 or Pad for another        *)
(* program: as its PCR, or under Pad where unused entries have it, too.    *)
OfferIsAccepted ==
  taint = "none" =>
    \A p \in Programs \ Selected(table) :
      LET shown == prepare_program_output_pid(table, p) IN
      \/ check_and_select_program(table, p, shown, shown).ok
      \/ Cardinality(Selected(table)) = ProgramMax
      \/ channel_mapped_pid_count(table, p[1]) + program_mapped_pid_count(p) > ChanPids
      \/ shown[2] \in {0, Pad}
      \/ HasUnused(p) /\ \E k \in DOMAIN shown : shown[k] = Pad

(* Types, and distinct output pids, after every sequence of panel commands *)
(* (check_and_select_program, fp_deselect_program).                        *)
PidsSound == SelectTypeOK /\ OutPidsDistinct
=============================================================================
