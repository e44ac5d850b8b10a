----------------------------- MODULE SavedConfig -----------------------------
(* The saved configuration: g_eeprom_param in memory, its areas in the       *)
(* EEPROM, and the three threads that save them (the main loop, the SNMP     *)
(* agent and the front panel) through eeprom_write, which is guarded by a    *)
(* plain busy flag, writes page by page (the driver i2c_s3c.c), reads back   *)
(* and retries. Pages may fail, and the power may be cut between any two     *)
(* steps. The flag is tested and set without a lock: when two threads pass   *)
(* it together they share one file position and one buffer, anything may be  *)
(* written anywhere, and the model ends there (race).                        *)
(* A saved value is abstract: which assignment made it (v), how many pages   *)
(* it takes (n), whether its last page is full, and whether it would pass    *)
(* the check of its area (ok).                                               *)
EXTENDS Integers, Sequences, Functions

CONSTANTS
  Products,  \* the values of CHANNEL_MAX_NUM the firmware is built for
  PsiPages,  \* pages of the output PSI's area
  Lengths,   \* the lengths, in pages, of the output PSI a thread may generate
  Rejected,  \* the channels whose table from a manager may fail its check
  Failing,   \* the areas whose pages may fail to be written
  TRY_MAX,   \* retries of a write (3 in the code)
  MaxOps,    \* bound on the operations
  MaxFaults  \* bound on the page writes that fail and the power cuts, together

ASSUME ConfigAssumption == /\ Products \subseteq Nat \ {0}
                           /\ PsiPages \in Nat \ {0}
                           /\ Lengths \in [{"agent", "fp"} -> SUBSET {1, PsiPages}]
                           /\ {TRY_MAX, MaxOps, MaxFaults} \subseteq Nat

Thread == {"main", "agent", "fp"}
Area(name) == <<name, 0>>
Sys == Area("sys")
Net == Area("net")
User == Area("user")
Misc == Area("misc")
Mux == Area("mux")
Map == Area("map")
Psi == Area("psi")
Pmt == Area("pmt")       \* raw input PMT sections, one channel product only
Tunner == Area("tunner") \* the same
Pad == Area("pad")       \* the tail page behind an area
Trans(c) == <<"trans", c>>
Flags == {"psi", "trans", "pmt"}

VARIABLES
  chans,    \* CHANNEL_MAX_NUM of this product
  dev,      \* the pages of the EEPROM
  busy,     \* eeprom_write's busy
  ram,      \* g_eeprom_param: area -> value
  flag,     \* request_save_output_psi, save_pid_trans_info, request_save_input_pmt_sec
  fpga,     \* the pid map in the FPGA
  script,   \* per thread: the steps its operation still has to do
  wr,       \* per thread: its call of eeprom_write
  buf,      \* per thread: the local copy it saves from
  up,       \* the threads have been started
  stamp,    \* per area: how many values it was given
  ops, faults,
  race,     \* two threads are inside eeprom_write
  crossed,  \* history: areas assigned by one thread while another was saving its own copy
  damaged   \* history: areas whose last write was cut or given up

vars == <<chans, dev, busy, ram, flag, fpga, script, wr, buf, up,
          stamp, ops, faults, race, crossed, damaged>>
history == <<race, crossed, damaged>>
counters == <<ops, faults>>
-----------------------------------------------------------------------------
(* struct xmux_eeprom_param *)

\* The channels' tables, each with its tail.
ChannelAreas(n) == [i \in 1..2 * n |-> IF i % 2 = 1 THEN Trans((i + 1) \div 2) ELSE Pad]
OneChannelAreas == <<Pmt, Pad, Tunner, Pad>>

LayoutNoTail ==
  [n \in Products |->
     <<Sys, Net, User, Misc, Mux, Pad, Map>> \o [i \in 1..PsiPages |-> Psi] \o <<Pad>>
     \o ChannelAreas(n) \o (IF n = 1 THEN OneChannelAreas ELSE <<>>)]

\* The area each page belongs to. Every area that may end with a full page has
\* a tail (Pad) behind it.
Layout ==
  [n \in Products |->
     <<Sys, Net, User, Misc, Mux, Pad, Map, Pad>> \o [i \in 1..PsiPages |-> Psi] \o <<Pad>>
     \o ChannelAreas(n) \o (IF n = 1 THEN OneChannelAreas ELSE <<>>)]

AreasOf == [n \in Products |-> Range(Layout[n]) \ {Pad}]
Offsets ==
  [n \in Products |-> [a \in AreasOf[n] |->
     CHOOSE p \in DOMAIN Layout[n] : Layout[n][p] = a /\ \A q \in 1..(p - 1) : Layout[n][q] # a]]
Areas == AreasOf[chans]
Offset(a) == Offsets[chans][a]
TransAreas == [c \in 1..chans |-> Trans(c)]

Value == [v : Nat \cup {-1}, n : 1..PsiPages, full : BOOLEAN, ok : BOOLEAN]
Factory(ok) == [v |-> 0, n |-> 1, full |-> FALSE, ok |-> ok]
Default == Factory(TRUE)  \* xxx_init_default, xxx_clear, memset 0
Torn == [v |-> -1, n |-> 1, full |-> FALSE, ok |-> TRUE]
Page == [area : {Pad} \cup Areas, i : 0..PsiPages, val : Value]
PageOf(a, i, x) == [area |-> a, i |-> i, val |-> x]
Garbage(a) == PageOf(a, 0, Torn)

\* What thread t may put in an area: the pid map is 1024 bytes, a whole number
\* of pages; an output PSI may be short or fill its area; a channel's table that
\* comes from a manager may fail its check, the front panel makes the checksums.
Fresh(t, a) == {x \in [v : {stamp[a] + 1}, n : IF a = Psi THEN Lengths[t] ELSE {1},
                        full : BOOLEAN,
                        ok : IF t = "agent" /\ a \in {Trans(c) : c \in Rejected} THEN BOOLEAN ELSE {TRUE}] :
                  x.full <=> a = Map \/ x.n > 1}
-----------------------------------------------------------------------------
(* Steps of operations *)

Clear(a) == [do |-> "clear", area |-> a]
Assign(a) == [do |-> "assign", area |-> a]        \* store into g_eeprom_param
AssignCopy(a) == [do |-> "assign_copy", area |-> a] \* the same, keeping a local copy
Save(a) == [do |-> "save", area |-> a]            \* eeprom_write from g_eeprom_param
SaveCopy(a) == [do |-> "save_copy", area |-> a]   \* eeprom_write from the local copy
SaveValid(a) == [do |-> "save_valid", area |-> a] \* skipped if the channel is not valid
Apply == [do |-> "apply", area |-> Map]           \* the local pid map to the FPGA
Request(f) == [do |-> "request", area |-> Area(f)]
Check(f) == [do |-> "check", area |-> Area(f)]

each(Op(_), areas) == [i \in DOMAIN areas |-> Op(areas[i])]

xmux_config_save_pid_map_table == <<AssignCopy(Map), SaveCopy(Map)>>
xmux_config_save_net_param == <<AssignCopy(Net), SaveCopy(Net)>>
set_output_bitrate == <<Assign(Sys), Save(Sys)>>
\* An unknown format is ignored.
set_packet_format(known) == IF known THEN <<Assign(Sys), Save(Sys)>> ELSE <<>>
xmux_config_save_pid_trans_info_all == each(SaveValid, TransAreas)
xmux_config_save_input_pmt_section == <<Assign(Pmt), Request("pmt")>>
psi_gen_requests_first == <<Request("psi"), Clear(Psi), Assign(Psi)>>
\* The container is cleared, filled, and its save requested.
psi_gen_output_psi == <<Clear(Psi), Assign(Psi), Request("psi")>>

pid_trans_set(known) ==
  xmux_config_save_pid_map_table \o <<Apply>> \o set_output_bitrate \o set_packet_format(known)
cmd_out_rate(known) == set_output_bitrate \o set_packet_format(known)
net_set == xmux_config_save_net_param
user_set == <<Assign(User), Save(User)>>
apply_psi_set ==
  (IF chans # 1 THEN psi_gen_output_psi ELSE <<>>)
  \o (each(Assign, TransAreas) \o <<Request("trans")>>)
  \o (IF chans = 1 THEN xmux_config_save_input_pmt_section ELSE <<>>)
mux_program_info_get == <<Save(Mux)>>
mux_program_info_set == <<Assign(Mux)>>
misc_set == <<Assign(Misc), Save(Misc)>>
tunner_param_set == IF chans = 1 THEN <<Assign(Tunner), Save(Tunner)>> ELSE <<>>

apply_pid_map_table_and_psi ==
  <<Clear(Mux), Assign(Mux)>> \o xmux_config_save_pid_map_table \o <<Apply>>
  \o (IF chans # 1 THEN psi_gen_output_psi ELSE <<>>)
  \o (each(Assign, TransAreas) \o xmux_config_save_pid_trans_info_all) \o <<Save(Mux)>>
  \o (IF chans = 1 THEN xmux_config_save_input_pmt_section ELSE <<>>)
reset_net == <<Assign(Net), Save(Net), Assign(User), Save(User), Assign(Sys), Save(Sys)>>

main_pass == <<Check("psi"), Check("trans")>> \o (IF chans = 1 THEN <<Check("pmt")>> ELSE <<>>)

\* What a check of the main loop does when its flag is set.
Deferred(f) == CASE f = "psi" -> <<Save(Psi)>>
                 [] f = "trans" -> xmux_config_save_pid_trans_info_all
                 [] f = "pmt" -> <<Save(Pmt)>>
-----------------------------------------------------------------------------
(* The threads *)

NoWrite == [at |-> "none", area |-> Sys, n |-> 0, full |-> FALSE, k |-> 1, try |-> 0,
            val |-> Default]
Inside(t) == wr[t].at \notin {"none", "poll", "set"}
Idle(t) == script[t] = <<>>

Init ==
  /\ chans \in Products
  /\ \E ok \in BOOLEAN : dev = [p \in DOMAIN Layout[chans] |->
       IF Layout[chans][p] = Pad THEN Garbage(Pad)
       ELSE PageOf(Layout[chans][p], 1, Factory(ok \/ Layout[chans][p] \notin {Sys, Net, User}))]
  /\ ram = [a \in Areas |-> Default]
  /\ fpga = Default
  /\ busy = FALSE /\ flag = [f \in Flags |-> FALSE]
  /\ script = [t \in Thread |-> <<>>] /\ wr = [t \in Thread |-> NoWrite]
  /\ buf = [t \in Thread |-> Default]
  /\ up = "off"
  /\ stamp = [a \in Areas |-> 0] /\ ops = 0 /\ faults = 0
  /\ race = FALSE /\ crossed = {} /\ damaged = {}

Start(t, steps) ==
  /\ up = "up" /\ Idle(t) /\ ops < MaxOps
  /\ script' = [script EXCEPT ![t] = steps]
  /\ ops' = ops + 1
  /\ UNCHANGED <<chans, dev, busy, ram, flag, fpga, wr, buf, up, stamp, faults, history>>

PidTransSet == \E known \in BOOLEAN : Start("agent", pid_trans_set(known))
NetSet == \E t \in {"agent", "fp"} : Start(t, net_set)
UserSet == Start("agent", user_set)
\* Refused while an earlier apply waits to be saved.
ApplyPsiSet ==
  /\ ~flag["trans"] /\ (chans = 1 => ~flag["pmt"])
  /\ Start("agent", apply_psi_set)
MuxProgramInfoGet == Start("agent", mux_program_info_get)
MuxProgramInfoSet == Start("agent", mux_program_info_set)
MiscSet == \E t \in {"agent", "fp"} : Start(t, misc_set)
TunnerParamSet == \E t \in {"agent", "fp"} : chans = 1 /\ Start(t, tunner_param_set)
FpApply == Start("fp", apply_pid_map_table_and_psi)
OutRate == \E known \in BOOLEAN : Start("fp", cmd_out_rate(known))
ResetNet == Start("fp", reset_net)

\* One turn of the main loop. A turn that finds no flag changes nothing.
MainPass ==
  /\ up = "up" /\ Idle("main")
  /\ \E f \in Flags : flag[f]
  /\ script' = [script EXCEPT !["main"] = main_pass]
  /\ UNCHANGED <<chans, dev, busy, ram, flag, fpga, wr, buf, up, stamp, counters, history>>

\* The next step of t's operation.
At(t, what) == wr[t].at = "none" /\ ~Idle(t) /\ Head(script[t]).do \in what
Target(t) == Head(script[t]).area
NextStep(t) == script' = [script EXCEPT ![t] = Tail(@)]

AssignRam(t) ==
  /\ At(t, {"clear", "assign", "assign_copy"})
  /\ \E x \in (IF At(t, {"clear"}) THEN {Default} ELSE Fresh(t, Target(t))) :
       /\ ram' = [ram EXCEPT ![Target(t)] = x]
       /\ buf' = IF At(t, {"assign_copy"}) THEN [buf EXCEPT ![t] = x] ELSE buf
  /\ stamp' = IF At(t, {"clear"}) THEN stamp ELSE [stamp EXCEPT ![Target(t)] = @ + 1]
  /\ crossed' = crossed \cup {a \in {Target(t)} : \E u \in Thread \ {t} : \E i \in DOMAIN script[u] :
                  script[u][i].do \in {"save_copy", "apply"} /\ script[u][i].area = a}
  /\ NextStep(t)
  /\ UNCHANGED <<chans, dev, busy, flag, fpga, wr, up, counters, race, damaged>>

ApplyMap(t) ==
  /\ At(t, {"apply"})
  /\ fpga' = buf[t]
  /\ NextStep(t)
  /\ UNCHANGED <<chans, dev, busy, ram, flag, wr, buf, up, stamp, counters, history>>

RequestSave(t) ==
  /\ At(t, {"request"})
  /\ flag' = [flag EXCEPT ![Target(t)[1]] = TRUE]
  /\ NextStep(t)
  /\ UNCHANGED <<chans, dev, busy, ram, fpga, wr, buf, up, stamp, counters, history>>

\* The flag is cleared before the area is written.
CheckRequest(t) ==
  /\ At(t, {"check"})
  /\ LET f == Target(t)[1]
     IN  /\ flag' = [flag EXCEPT ![f] = FALSE]
         /\ script' = [script EXCEPT ![t] = (IF flag[f] THEN Deferred(f) ELSE <<>>) \o Tail(@)]
  /\ UNCHANGED <<chans, dev, busy, ram, fpga, wr, buf, up, stamp, counters, history>>
-----------------------------------------------------------------------------
(* eeprom_write *)

\* What the buffer of t's call holds now.
Source(t) == IF Head(script[t]).do = "save_copy" THEN buf[t] ELSE ram[Target(t)]

\* The length is taken when the call is made, the contents later.
CallWrite(t) ==
  /\ At(t, {"save", "save_copy", "save_valid"})
  /\ IF At(t, {"save_valid"}) /\ ~ram[Target(t)].ok
     THEN NextStep(t) /\ UNCHANGED wr
     ELSE /\ wr' = [wr EXCEPT ![t] = [NoWrite EXCEPT !.at = "poll", !.area = Target(t),
                                        !.n = Source(t).n, !.full = Source(t).full]]
          /\ UNCHANGED script
  /\ UNCHANGED <<chans, dev, busy, ram, flag, fpga, buf, up, stamp, counters, history>>

Goto(t, at) == wr' = [wr EXCEPT ![t].at = at]

Poll(t) ==
  /\ wr[t].at = "poll" /\ ~busy
  /\ Goto(t, "set")
  /\ UNCHANGED <<chans, dev, busy, ram, flag, fpga, script, buf, up, stamp, counters, history>>

SetBusy(t) ==
  /\ wr[t].at = "set"
  /\ busy' = TRUE
  /\ race' = (race \/ \E u \in Thread \ {t} : Inside(u))
  /\ Goto(t, "write")
  /\ UNCHANGED <<chans, dev, ram, flag, fpga, script, buf, up, stamp, counters, crossed, damaged>>

Pages(w) == w.n + (IF w.full THEN 1 ELSE 0)
\* Page k of a transfer. After a last page that is full, the loop of the driver
\* writes one page more, of whatever follows its buffer.
PageAt(w, x) == IF w.k > w.n THEN Garbage(w.area) ELSE PageOf(w.area, w.k, x)

\* One page. The driver has copied the whole buffer before the first.
WritePage(t) ==
  /\ wr[t].at = "write"
  /\ LET x == IF wr[t].k = 1 THEN Source(t) ELSE wr[t].val
         last == wr[t].k = Pages(wr[t])
     IN  /\ \E fails \in {b \in BOOLEAN :
                b => faults < MaxFaults /\ wr[t].k <= wr[t].n /\ wr[t].area \in Failing} :
              /\ dev' = [dev EXCEPT ![Offset(wr[t].area) + wr[t].k - 1] =
                          IF fails THEN Garbage(wr[t].area) ELSE PageAt(wr[t], x)]
              /\ faults' = IF fails THEN faults + 1 ELSE faults
         /\ wr' = [wr EXCEPT ![t].k = IF last THEN 1 ELSE @ + 1,
                             ![t].val = IF last THEN Default ELSE x,
                             ![t].at = IF last THEN "read_back" ELSE @]
  /\ damaged' = damaged \cup {wr[t].area}
  /\ UNCHANGED <<chans, busy, ram, flag, fpga, script, buf, up, stamp, ops, race, crossed>>

\* The comparison is with the buffer as it is by now.
Matches(t) == \A i \in 1..wr[t].n :
                dev[Offset(wr[t].area) + i - 1] = PageOf(wr[t].area, i, Source(t))
GivesUp(t) == wr[t].try + 1 > TRY_MAX
BusyAfterGivingUp(t) == ~Matches(t)
BusyAfter(t) == ~(Matches(t) \/ GivesUp(t))

\* Reads back and compares; writes again, or ends the call and frees the flag.
ReadBack(t) ==
  /\ wr[t].at = "read_back"
  /\ busy' = BusyAfter(t)
  /\ damaged' = IF Matches(t) THEN damaged \ {wr[t].area} ELSE damaged
  /\ IF Matches(t) \/ GivesUp(t)
     THEN NextStep(t) /\ wr' = [wr EXCEPT ![t] = NoWrite]
     ELSE UNCHANGED script /\ wr' = [wr EXCEPT ![t].try = @ + 1, ![t].at = "write"]
  /\ UNCHANGED <<chans, dev, ram, flag, fpga, buf, up, stamp, counters, race, crossed>>

Step(t) ==
  \/ AssignRam(t) \/ ApplyMap(t) \/ RequestSave(t) \/ CheckRequest(t)
  \/ CallWrite(t) \/ Poll(t) \/ SetBusy(t) \/ WritePage(t) \/ ReadBack(t)
-----------------------------------------------------------------------------
(* Power cuts and the load at start *)

PowerCut ==
  /\ up # "off" /\ faults < MaxFaults
  /\ faults' = faults + 1
  /\ up' = "off"
  /\ ram' = [a \in Areas |-> Default] /\ fpga' = Default
  /\ busy' = FALSE /\ flag' = [f \in Flags |-> FALSE]
  /\ script' = [t \in Thread |-> <<>>] /\ wr' = [t \in Thread |-> NoWrite]
  /\ buf' = [t \in Thread |-> Default] /\ crossed' = {}
  /\ UNCHANGED <<chans, dev, stamp, ops, race, damaged>>

\* The length of the output PSI and of a channel's table comes from their first page.
Head1(a) == dev[Offset(a)].val
Intact(a) == \A i \in 1..Head1(a).n : dev[Offset(a) + i - 1] = PageOf(a, i, Head1(a))

\* The checks: net and user have a checksum, sys a version, each program of a
\* channel a checksum; pid_map_table_validate accepts everything, the rest is
\* not checked. A torn value may pass a check that does not cover all of it.
Loaded(a) == IF Head1(a).ok THEN Head1(a) ELSE Default
Reload(a) ==
  IF Intact(a) THEN {Loaded(a)}
  ELSE IF a \in {Net, User} THEN {Default}
  ELSE IF a \in {Sys, Psi} \cup Range(TransAreas) THEN {Default, Torn} ELSE {Torn}

\* The write that follows a load when the area got its defaults.
Repair(a) == IF ram'[a] = Default /\ ~(Intact(a) /\ Head1(a).ok) THEN <<Save(a)>> ELSE <<>>

\* The load and its checks; defaults for sys, net and user are written back.
LoadFromEeprom ==
  /\ up = "off"
  /\ \E torn \in SUBSET {a \in Areas : ~Intact(a) /\ Torn \in Reload(a)} :
       /\ {a \in Areas : ~Intact(a) /\ Default \notin Reload(a)} \subseteq torn
       /\ ram' = [a \in Areas |-> IF a \in torn THEN Torn
                                  ELSE IF Intact(a) THEN Loaded(a) ELSE Default]
  /\ script' = [script EXCEPT !["main"] = Repair(Sys) \o Repair(Net) \o Repair(User)]
  /\ damaged' = {a \in Areas : ~Intact(a)}
  /\ up' = "booting"
  /\ UNCHANGED <<chans, dev, busy, flag, fpga, wr, buf, stamp, counters, race, crossed>>

\* The saved pid map goes to the FPGA, and the threads start.
RestoreWorkField ==
  /\ up = "booting" /\ Idle("main")
  /\ fpga' = ram[Map]
  /\ up' = "up"
  /\ UNCHANGED <<chans, dev, busy, ram, flag, script, wr, buf, stamp, counters, history>>

Next ==
  /\ ~race
  /\ \/ PidTransSet \/ NetSet \/ UserSet \/ ApplyPsiSet \/ MuxProgramInfoGet \/ MuxProgramInfoSet
     \/ MiscSet \/ TunnerParamSet \/ FpApply \/ OutRate \/ ResetNet \/ MainPass
     \/ \E t \in Thread : Step(t)
     \/ PowerCut \/ LoadFromEeprom \/ RestoreWorkField

\* The threads that have something to do go on.
Work == ~race /\ (MainPass \/ \E t \in Thread : Step(t))
Fairness == WF_vars(Work)
Spec == Init /\ [][Next]_vars /\ Fairness
-----------------------------------------------------------------------------
(* Properties *)

\* Every variable has its type.
TypeOK ==
  /\ chans \in Products
  /\ dev \in [DOMAIN Layout[chans] -> Page] /\ ram \in [Areas -> Value]
  /\ busy \in BOOLEAN /\ flag \in [Flags -> BOOLEAN] /\ fpga \in Value
  /\ \A t \in Thread : wr[t].area \in Areas /\ wr[t].try \in 0..TRY_MAX /\ wr[t].k \in 1..(PsiPages + 1)
  /\ buf \in [Thread -> Value] /\ up \in {"off", "booting", "up"}
  /\ ops \in 0..MaxOps /\ faults \in 0..MaxFaults
  /\ crossed \subseteq Areas /\ damaged \subseteq Areas

\* No page of an area is ever overwritten by the write of another, whatever
\* pages fail, whenever power is cut and although the driver writes a page too
\* many after a full one - as long as no two threads pass the busy flag together.
NoForeignWrite == ~race => \A p \in DOMAIN dev : Layout[chans][p] \in {Pad, dev[p].area}

\* Nothing is under way or asked for that would write area a.
Settled(a) ==
  /\ up = "up"
  /\ \A t \in Thread : \A i \in DOMAIN script[t] :
       LET s == script[t][i]
       IN  /\ s.area # a
           /\ s.do \in {"request", "check"} => s.area[1] # a[1]
  /\ a[1] \in Flags => ~flag[a[1]]

\* What is in memory is what a restart would load, for every area nobody is
\* about to save: a request made while the main loop is saving is not lost, and
\* a buffer that changes under a write is written again. Left out are the areas
\* whose last write was given up or cut, the ones two threads saved from copies
\* at once, channels that do not validate, and the multiplex's program list,
\* whose SNMP set does not save.
SavedFollows ==
  ~race => \A a \in Areas \ (damaged \cup crossed \cup {Mux}) :
             Settled(a) /\ ram[a].ok => Reload(a) = {ram[a]}

\* The FPGA works with the pid map that is saved.
OutputIsSaved == Settled(Map) /\ Map \notin crossed => fpga = ram[Map]

\* After the last operation every thread comes to rest and no save is left
\* undone: nobody waits for the EEPROM forever, whatever pages fail.
SavesComplete == <>[](race \/ ((\A t \in Thread : Idle(t)) /\ \A f \in Flags : ~flag[f]))

\* What the device works with is what a restart would load: memory and FPGA agree
\* with the EEPROM when nobody is about to save (xmux_config.c, eeprom_write).
SavedIsCurrent == TypeOK /\ SavedFollows /\ OutputIsSaved
==============================================================================
