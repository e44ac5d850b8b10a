------------------------------ MODULE HostFpga ------------------------------
(* The FPGA of the multiplexer and its driver (imp/drivers/host_fpga.c), the *)
(* read and write functions handed to the SI library (imp/fpga/fpga_api.c)   *)
(* and the calls of the application (imp/hfpga.c).  The psi worker reads     *)
(* filtered packets while the agent and the front panel download PSI, pid    *)
(* maps and the output rate.  The kernel does not preempt an ioctl, so one   *)
(* ioctl is one step; between two of them any thread may run.  The memory of *)
(* the FPGA is counted in packets.  The product with several channels.       *)
EXTENDS Integers, Sequences, FiniteSets, Functions

CONSTANTS
  Channels,     \* input channels, a set 0..n
  Pids,         \* pids a parse asks for
  Area40ms,     \* packets of the 40 ms area, before the 2 s area begins
  Downloads,    \* what may be downloaded: howto -> sequence of packets
  Maps,         \* pid maps that may be applied: channel -> sequence of input pids
  Rates,        \* register values of output bitrates, <<high half, low half>>
  READAHEAD,    \* READAHEAD_TS_PKT_NUM
  MaxReads,     \* bound on the packets the library reads for one table
  MaxOps        \* bound on the operations

SDT_PID == 17
Howtos == 0..6
PacketBytes == 188
Packet == [chan : Int, pid : Int, n : Nat]
Garbage == [chan |-> -1, pid |-> -1, n |-> 0]
Downloader == {"agent", "fp"}
Thread == Downloader \cup {"worker"}

ASSUME HostFpgaAssumption ==
  /\ Channels \subseteq Nat /\ Pids \subseteq Nat
  /\ Area40ms \in Nat /\ {READAHEAD, MaxReads} \subseteq Nat \ {0} /\ MaxOps \in Nat
  /\ Downloads \subseteq [Howtos -> Seq(Packet)]
  /\ Maps # {} /\ Maps \subseteq [Channels -> Seq(Nat)]
  /\ Rates # {} /\ Rates \subseteq Nat \X Nat

VARIABLES
  hdev,         \* dvb_io_dev.hdev is open
  str_data,     \* the request all threads share
  left_pkt, left_pkt_tot, ts_buf,     \* the packets read ahead
  cur_40ms_offset, cur_2s_offset,     \* of the driver, in packets
  map, cha_sel, fifo,                 \* the FPGA's pid map, channel, and packets read
  ram, si,                            \* its SI memory, and the registers that send it
  rate,                               \* SYS_RATE_MSB and SYS_RATE_LSB
  lsb,                                \* the low half a thread has yet to write
  pc, job,                            \* per thread
  got, handed,                        \* the worker's packet, and how many it was given
  want, applied, asked,               \* history: what was downloaded, applied and set last
  alone,        \* history: nobody else used the library since a thread's dvbSI_Start
  filtered,     \* history: channels whose map a parse replaced
  disturbed,    \* history: a map was applied under the table being read
  stack_lost,   \* history: packets read ahead were overwritten with the stack frame
  torn,         \* history: two settings of the rate overlapped
  ops

library == <<hdev, str_data, left_pkt, left_pkt_tot, ts_buf, got, handed, alone, stack_lost>>
sending == <<cur_40ms_offset, cur_2s_offset, ram, si>>
receiving == <<map, cha_sel, fifo, applied, filtered, disturbed>>
setting == <<rate, lsb, asked, torn>>
vars == <<library, sending, want, receiving, setting, pc, job, ops>>

\* restore_work_field of main applies a saved map and rate before the threads run.
Init ==
  /\ hdev = FALSE
  /\ str_data = [by |-> "worker", addr |-> 0, data |-> <<>>, nbgn |-> FALSE]
  /\ left_pkt = 0 /\ left_pkt_tot = 0 /\ ts_buf = <<>>
  /\ cur_40ms_offset = 0 /\ cur_2s_offset = Area40ms
  /\ applied = (CHOOSE m \in Maps : TRUE) /\ map = applied /\ cha_sel = 0 /\ fifo = 0
  /\ ram = <<>> /\ si = [ss |-> TRUE, len40 |-> 0, len2s |-> 0]
  /\ want = [by |-> "agent", groups |-> [h \in Howtos |-> <<>>]]
  /\ asked = (CHOOSE r \in Rates : TRUE) /\ rate = asked /\ lsb = [t \in Thread |-> 0]
  /\ pc = [t \in Thread |-> "idle"]
  /\ job = [t \in Thread |-> <<>>]
  /\ got = Garbage /\ handed = 0
  /\ alone = [t \in Thread |-> TRUE]
  /\ filtered = {} /\ disturbed = FALSE /\ stack_lost = FALSE /\ torn = FALSE
  /\ ops = 0
-----------------------------------------------------------------------------
(* host_fpga.c *)

write_hfpga_pid_map_packed(m, cha, pids) ==
  [c \in Channels |->
     IF c < Cardinality(cha)
     THEN pids[CHOOSE d \in cha : Cardinality({e \in cha : e < d}) = c] ELSE m[c]]

\* The channels of the bitmap cha get their entries, each at its own offset.
write_hfpga_pid_map(m, cha, pids) ==
  [c \in Channels |-> IF c \in cha THEN pids[c] ELSE m[c]]

\* ram is the memory from the 40 ms base on; data are written from pos on.
WriteRam(r, pos, data) ==
  [i \in 1..(IF pos + Len(data) > Len(r) THEN pos + Len(data) ELSE Len(r)) |->
     IF i - pos \in 1..Len(data) THEN data[i - pos]
     ELSE IF i <= Len(r) THEN r[i] ELSE Garbage]

write_hfpga_str_data(addr, data) ==
  \E pos \in {IF addr = 0 THEN cur_40ms_offset ELSE cur_2s_offset} :
    /\ ram' = WriteRam(ram, pos, data)
    /\ IF addr = 0
       THEN cur_40ms_offset' = pos + Len(data) /\ UNCHANGED cur_2s_offset
       ELSE cur_2s_offset' = pos + Len(data) /\ UNCHANGED cur_40ms_offset
    /\ UNCHANGED si

LenReg(n) == IF n <= 0 THEN 0 ELSE n * PacketBytes - 1

SiStartLoaded ==
  /\ si' = [ss |-> cur_40ms_offset > 0,
            len40 |-> LenReg(cur_40ms_offset), len2s |-> LenReg(cur_2s_offset - Area40ms)]
  /\ UNCHANGED <<ram, cur_40ms_offset, cur_2s_offset>>

\* HFPGA_CMD_SI_START.
SiStart ==
  /\ si' = [ss |-> TRUE,
            len40 |-> LenReg(cur_40ms_offset), len2s |-> LenReg(cur_2s_offset - Area40ms)]
  /\ UNCHANGED <<ram, cur_40ms_offset, cur_2s_offset>>

SiStopKeepsOffset ==
  /\ si' = [si EXCEPT !.ss = FALSE]
  /\ cur_40ms_offset' = 0
  /\ UNCHANGED <<ram, cur_2s_offset>>

\* HFPGA_CMD_SI_STOP.
SiStop ==
  /\ si' = [si EXCEPT !.ss = FALSE]
  /\ cur_40ms_offset' = 0 /\ cur_2s_offset' = Area40ms
  /\ UNCHANGED ram

ReadSelect(s) == IF s.nbgn THEN s.addr ELSE cha_sel

\* What read_hfpga_str_data may deliver: the packets after the ones read since
\* the FIFO was reset, of a pid the map of the channel lets through; nothing
\* after a timeout.
InPids(c) == IF c \in Channels THEN Range(map[c]) ELSE {}

Delivered(s) ==
  { [i \in 1..Len(s.data) |->
       [chan |-> ReadSelect(s), pid |-> p, n |-> (IF s.nbgn THEN 0 ELSE fifo) + i]]
    : p \in InPids(ReadSelect(s)) } \cup {<<>>}
-----------------------------------------------------------------------------
(* The SI library and fpga_api.c *)

InLibrary(t) == pc[t] \notin {"idle", "lsb"}

\* dvbSI_Start: whoever comes second opens the device again.
Start(t) ==
  /\ pc[t] = "idle"
  /\ ops < MaxOps /\ ops' = ops + 1
  /\ hdev' = TRUE
  /\ alone' = [u \in Thread |->
                 IF u = t THEN \A v \in Thread : ~InLibrary(v)
                 ELSE alone[u] /\ ~InLibrary(u)]
  /\ UNCHANGED <<str_data, left_pkt, left_pkt_tot, ts_buf, stack_lost>>

\* dvbSI_Stop closes the device for every thread.
Stop(t) ==
  /\ hdev' = FALSE
  /\ pc' = [pc EXCEPT ![t] = "idle"]
  /\ job' = [job EXCEPT ![t] = <<>>]
  /\ UNCHANGED <<str_data, left_pkt, left_pkt_tot, ts_buf, alone, stack_lost,
                 sending, want, receiving, setting, ops>>

Goto(t, l) == pc' = [pc EXCEPT ![t] = l]

\* A parse opens a channel.
ParseStart ==
  \E c \in Channels :
    /\ Start("worker")
    /\ Goto("worker", "parse")
    /\ job' = [job EXCEPT !["worker"] = [chan |-> c, pid |-> 0, nbgn |-> FALSE]]
    /\ got' = Garbage /\ handed' = 0
    /\ UNCHANGED <<sending, want, receiving, setting>>

ParseStop == pc["worker"] = "parse" /\ Stop("worker") /\ got' = Garbage /\ handed' = 0

\* _hfpga_readn with nbgn: the channel's whole map becomes a filter for the pid.
SetFilter ==
  \E p \in Pids :
    /\ pc["worker"] = "parse" /\ ops < MaxOps /\ ops' = ops + 1
    /\ job' = [job EXCEPT !["worker"].pid = p, !["worker"].nbgn = TRUE]
    /\ got' = Garbage /\ handed' = 0
    /\ IF hdev
       THEN LET c == job["worker"].chan IN
            /\ map' = write_hfpga_pid_map(map, {c}, [d \in Channels |-> <<p>>])
            /\ filtered' = filtered \cup {c}
            /\ disturbed' = FALSE
            /\ Goto("worker", "fill")
       ELSE UNCHANGED <<map, filtered, disturbed, pc>>
    /\ UNCHANGED <<hdev, str_data, left_pkt, left_pkt_tot, ts_buf, alone, stack_lost,
                   sending, want, cha_sel, fifo, applied, setting>>

CachedFromEnd == ts_buf[left_pkt]

\* The next packet of those read ahead.
Cached == ts_buf[left_pkt_tot - left_pkt + 1]

\* hfpga_readn for the next packet of a table.  Packets read ahead are in a
\* local array of the call that read them: they are used if no other call has
\* overwritten the stack since.
ReadNext ==
  /\ pc["worker"] = "parse" /\ handed \in 1..(MaxReads - 1)
  /\ job' = [job EXCEPT !["worker"].nbgn = FALSE]
  /\ IF job["worker"].pid = SDT_PID /\ left_pkt > 0
     THEN /\ \/ got' = Cached /\ UNCHANGED stack_lost
             \/ got' = Garbage /\ stack_lost' = TRUE
          /\ left_pkt' = left_pkt - 1
          /\ handed' = handed + 1
          /\ UNCHANGED <<pc, left_pkt_tot, ts_buf>>
     ELSE /\ Goto("worker", "fill")
          /\ UNCHANGED <<got, handed, left_pkt, left_pkt_tot, ts_buf, stack_lost>>
  /\ UNCHANGED <<hdev, str_data, alone, sending, want, receiving, setting, ops>>

\* The parameters of the read, in the structure all threads share.
ReadFill ==
  /\ pc["worker"] = "fill"
  /\ str_data' = [by |-> "worker", addr |-> job["worker"].chan, nbgn |-> job["worker"].nbgn,
                  data |-> [i \in 1..(IF job["worker"].pid = SDT_PID THEN READAHEAD ELSE 1)
                              |-> Garbage]]
  /\ Goto("worker", "ioctl")
  /\ UNCHANGED <<hdev, left_pkt, left_pkt_tot, ts_buf, got, handed, alone, stack_lost,
                 sending, want, receiving, setting, job, ops>>

\* What the caller makes of a read: with a foreign request in str_data its own
\* buffer was not filled.
Receive(pkts) ==
  LET mine == IF str_data.by = "worker" THEN pkts ELSE [i \in 1..Len(pkts) |-> Garbage] IN
  /\ IF job["worker"].pid = SDT_PID
     THEN /\ ts_buf' = mine /\ left_pkt_tot' = Len(mine)
          /\ left_pkt' = Len(mine) - 1
          /\ stack_lost' = FALSE
     ELSE UNCHANGED <<ts_buf, left_pkt, left_pkt_tot, stack_lost>>
  /\ got' = mine[1]
  /\ handed' = handed + 1
  /\ str_data' = [str_data EXCEPT !.data = pkts]

ReadIoctl ==
  /\ pc["worker"] = "ioctl"
  /\ IF hdev
     THEN \E pkts \in Delivered(str_data) :
            /\ cha_sel' = ReadSelect(str_data)
            /\ fifo' = (IF str_data.nbgn THEN 0 ELSE fifo) + Len(pkts)
            /\ IF pkts = <<>>
               THEN handed' = 0 /\ got' = Garbage
                    /\ UNCHANGED <<str_data, left_pkt, left_pkt_tot, ts_buf, stack_lost>>
               ELSE Receive(pkts)
     ELSE /\ handed' = 0 /\ got' = Garbage
          /\ UNCHANGED <<cha_sel, fifo, str_data, left_pkt, left_pkt_tot, ts_buf, stack_lost>>
  /\ Goto("worker", "parse")
  /\ UNCHANGED <<hdev, alone, sending, want, map, applied, filtered, disturbed, setting, job, ops>>

\* psi_apply_from_output_psi, and the generation of the front panel before it.
\* i counts the groups.
DownloadStart(t) ==
  \E d \in Downloads :
    /\ Start(t)
    /\ Goto(t, "si_stop")
    /\ job' = [job EXCEPT ![t] = [groups |-> d, i |-> 0]]
    /\ UNCHANGED <<got, handed, sending, want, receiving, setting>>

DownloadSiStop(t) ==
  /\ pc[t] = "si_stop"
  /\ IF hdev THEN SiStop ELSE UNCHANGED sending
  /\ want' = [by |-> t, groups |-> job[t].groups]
  /\ Goto(t, "write")
  /\ UNCHANGED <<library, receiving, setting, job, ops>>

\* The groups still to be written. The loop passes over the empty ones.
Left(t) == {h \in job[t].i..6 : job[t].groups[h] # <<>>}

\* hfpga_writen: the request goes to the shared structure, then to the driver.
WriteFill(t) ==
  /\ pc[t] = "write"
  /\ \E h \in Left(t) :
       /\ \A g \in Left(t) : h <= g
       /\ job' = [job EXCEPT ![t].i = h]
       /\ str_data' = [str_data EXCEPT !.by = t, !.addr = h, !.data = job[t].groups[h]]
  /\ Goto(t, "ioctl")
  /\ UNCHANGED <<hdev, left_pkt, left_pkt_tot, ts_buf, got, handed, alone, stack_lost,
                 sending, want, receiving, setting, ops>>

WriteIoctl(t) ==
  /\ pc[t] = "ioctl"
  /\ IF hdev THEN write_hfpga_str_data(str_data.addr, str_data.data) ELSE UNCHANGED sending
  /\ job' = [job EXCEPT ![t].i = @ + 1]
  /\ Goto(t, "write")
  /\ UNCHANGED <<library, want, receiving, setting, ops>>

DownloadSiStart(t) ==
  /\ pc[t] = "write" /\ Left(t) = {}
  /\ IF hdev THEN SiStart ELSE UNCHANGED sending
  /\ Goto(t, "close")
  /\ UNCHANGED <<library, want, receiving, setting, job, ops>>

DownloadStop(t) == pc[t] = "close" /\ Stop(t) /\ UNCHANGED <<got, handed>>
-----------------------------------------------------------------------------
(* hfpga.c, with a device handle of its own *)

\* hfpga_write_pid_map for all channels.
WritePidMap(t) ==
  \E m \in Maps :
    /\ pc[t] = "idle" /\ ops < MaxOps /\ ops' = ops + 1
    /\ map' = write_hfpga_pid_map(map, Channels, m)
    /\ applied' = m /\ filtered' = {} /\ disturbed' = TRUE
    /\ UNCHANGED <<library, sending, want, cha_sel, fifo, setting, pc, job>>

\* hfpga_write_sys_output_bitrate: the high half of the register first.
RateMsb(t) ==
  \E r \in Rates :
    /\ pc[t] = "idle" /\ ops < MaxOps /\ ops' = ops + 1
    /\ rate' = <<r[1], rate[2]>>
    /\ asked' = r
    /\ torn' = \E u \in Thread : pc[u] = "lsb"
    /\ Goto(t, "lsb")
    /\ lsb' = [lsb EXCEPT ![t] = r[2]]
    /\ UNCHANGED <<library, sending, want, receiving, job>>

RateLsb(t) ==
  /\ pc[t] = "lsb"
  /\ rate' = <<rate[1], lsb[t]>>
  /\ Goto(t, "idle")
  /\ lsb' = [lsb EXCEPT ![t] = 0]
  /\ UNCHANGED <<library, sending, want, receiving, asked, torn, job, ops>>

DownloadStep(t) ==
  DownloadSiStop(t) \/ WriteFill(t) \/ WriteIoctl(t) \/ DownloadSiStart(t) \/ DownloadStop(t)

Next ==
  \/ ParseStart \/ ParseStop \/ SetFilter \/ ReadNext \/ ReadFill \/ ReadIoctl
  \/ \E t \in Downloader :
       DownloadStart(t) \/ DownloadStep(t) \/ WritePidMap(t) \/ RateMsb(t) \/ RateLsb(t)

\* A download in progress goes on: its thread is scheduled and waits for nobody.
Spec == Init /\ [][Next]_vars /\ \A t \in Downloader : WF_vars(DownloadStep(t))
-----------------------------------------------------------------------------
\* Every variable has its type, and no more packets are kept than were read.
TypeOK ==
  /\ hdev \in BOOLEAN
  /\ str_data.by \in Thread /\ str_data.addr \in Nat /\ str_data.nbgn \in BOOLEAN
  /\ left_pkt_tot \in Nat /\ left_pkt \in 0..left_pkt_tot
  /\ Len(ts_buf) = left_pkt_tot
  /\ cur_40ms_offset \in Nat /\ cur_2s_offset \in Nat
  /\ DOMAIN map = Channels /\ cha_sel \in Nat /\ fifo \in Nat
  /\ si.ss \in BOOLEAN /\ {si.len40, si.len2s} \subseteq Nat
  /\ pc["worker"] \in {"idle", "parse", "fill", "ioctl"}
  /\ \A t \in Downloader : pc[t] \in {"idle", "si_stop", "write", "ioctl", "close", "lsb"}
  /\ handed \in 0..MaxReads /\ ops \in 0..MaxOps
  /\ alone \in [Thread -> BOOLEAN] /\ filtered \subseteq Channels
  /\ {disturbed, stack_lost, torn} \subseteq BOOLEAN

Sent40ms == want.groups[0]
Sent2s == LET g == want.groups IN g[1] \o g[2] \o g[3] \o g[4] \o g[5] \o g[6]

\* While SI is sent, the two areas hold the groups of the last download in
\* order and the length registers end with them, although each download
\* overwrites an earlier one and threads use the driver in between.  A 40 ms
\* group that does not fit loses its end to the 2 s area.
SiIsLast ==
  si.ss /\ alone[want.by] /\ pc[want.by] # "si_stop" =>
    /\ si.len40 = LenReg(Len(Sent40ms)) /\ si.len2s = LenReg(Len(Sent2s))
    /\ Sent2s # <<>> => SubSeq(ram, Area40ms + 1, Area40ms + Len(Sent2s)) = Sent2s
    /\ Len(Sent40ms) <= Area40ms => SubSeq(ram, 1, Len(Sent40ms)) = Sent40ms

\* A download that has stopped the sending starts it again, unless another
\* thread closes the device under it.
SendsAgain ==
  \A t \in Downloader : pc[t] = "write" /\ alone[t] ~> si.ss \/ ~alone[t]

\* A channel keeps the pid map that was applied last, whatever is read from
\* other channels, until it is parsed itself.
MapIsApplied == \A c \in Channels \ filtered : map[c] = applied[c]

Undisturbed == alone["worker"] /\ ~disturbed

\* A packet a parse is given is of the channel and pid it asked for, unless a
\* pid map was applied or PSI downloaded under it.
ReadIsOwn ==
  Undisturbed /\ got # Garbage =>
    got.chan = job["worker"].chan /\ got.pid = job["worker"].pid

\* Packets of a table come in the order of the stream without gap or repeat,
\* also across the packets read ahead, if those survive on the stack.
ReadInOrder ==
  Undisturbed /\ ~stack_lost /\ handed > 0 => got.n = handed

\* The two halves of the output rate are of one setting unless two overlapped.
RateIsWhole == ~torn /\ (\A t \in Thread : pc[t] # "lsb") => rate = asked

\* A parse is given the packets it asked for and in their order (hfpga_readn).
ReadIsRight == ReadIsOwn /\ ReadInOrder

\* The FPGA keeps the pid map and the rate that were set last, whatever is read
\* and downloaded meanwhile (hfpga_write_pid_map, hfpga_write_sys_output_bitrate).
SettingsApplied == TypeOK /\ MapIsApplied /\ RateIsWhole
=============================================================================
