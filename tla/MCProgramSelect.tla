-------------------------- MODULE MCProgramSelect --------------------------
(* Small streams for ProgramSelect.                                        *)
EXTENDS ProgramSelect

(* All programs of channel 1 have one stream, which is the PCR of two and  *)
(* data of the third; two have one PMT pid.  Channel 2 has the input pids  *)
(* of one of them.  Programs of three pids have no unused entries, the     *)
(* others have; with a table of three pids a channel, two programs of      *)
(* channel 1 may be selected, but not all of them.                         *)
SharedStream == <<<< <<2, 4, 4>>, <<2, 5, 4>>, <<3, 4>> >>, << <<3, 4>> >>>>

(* What the theorems about ProgramSelect suppose is so of these streams.   *)
ASSUME SharedStreamAssumption == LegalStreams /\ EnoughPids

(* The product of one channel, with the first channel of the two.          *)
OneStream == <<SharedStream[1]>>
One == INSTANCE ProgramSelect WITH
         Stream <- OneStream, table <- <<>>, old_prog <- <<>>, taint <- "none"

(* The tables that one accepted write makes of table t.                    *)
Written(t) ==
  UNION {LET shown == One!prepare_program_output_pid(t, p)
             outs == [DOMAIN shown -> UserPids \cup {shown[k] : k \in DOMAIN shown}]
             res == {One!check_and_select_program(t, p, out, shown) : out \in outs}
         IN  {r.t : r \in {q \in res : q.ok}} : p \in One!Programs}

(* MapIsComplete, for the one channel and up to three writes after a parse. *)
ASSUME OneChannelMap ==
  LET once == Written(One!Parsed)
      twice == UNION {Written(t) : t \in once}
  IN  \A t \in {One!Parsed} \cup once \cup twice \cup UNION {Written(u) : u \in twice} :
        One!MapHolds(t, 1)

(* What tells states apart. The output pids of a program that is not       *)
(* selected do not: when all its input pids are legal, a read or a write   *)
(* sets them all before anything uses them.  The comparisons are false,    *)
(* and make TLC evaluate the functions they compare.                       *)
Seen ==
  <<[p \in Programs |-> IF table[p].sel THEN table[p].out ELSE table[p].out = <<>>],
    table = <<>>, old_prog, taint>>
=============================================================================
