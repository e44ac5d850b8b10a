---------------------------- MODULE DeviceProofs ----------------------------
(***************************************************************************)
(* Proofs about the devices behind the program.  HostFpga, for any         *)
(* channels, downloads, pid maps, rates and bounds: the FPGA keeps the map *)
(* and the rate set last, a parse that has the library to itself is given  *)
(* its own packets in order, and the SI sent is that of the last download. *)
(* The inductive invariant says who is alone in the library, where a table *)
(* that is being read stands in the FIFO and in the packets read ahead,    *)
(* and how much of a download is in the memory.  ControlMcu, for any sets  *)
(* of commands and parameters and any number of calls: what a thread is    *)
(* handed as the answer of the control MCU, whatever came late, was cut    *)
(* off or had another size.                                                *)
(***************************************************************************)
EXTENDS HostFpga, ControlMcu, SequenceTheorems, TLAPS

-----------------------------------------------------------------------------
(* HostFpga *)


WorkerPc == {"idle", "parse", "fill", "ioctl"}
DownloadPc == {"idle", "si_stop", "write", "ioctl", "close", "lsb"}
WorkerJob == [chan : Channels, pid : Pids \cup {0}, nbgn : BOOLEAN]
DownloadJob == [groups : [Howtos -> Seq(Packet)], i : 0..7]
Request == [by : Thread, addr : Nat, data : Seq(Packet), nbgn : BOOLEAN]

\* The types, in the parts that different steps change.
LibraryOK ==
  /\ str_data \in Request
  /\ left_pkt_tot \in Nat /\ left_pkt \in 0..left_pkt_tot
  /\ ts_buf \in Seq(Packet) /\ Len(ts_buf) = left_pkt_tot
  /\ got \in Packet /\ handed \in 0..MaxReads
  /\ pc["worker"] \in {"fill", "ioctl"} => handed < MaxReads

SendingOK ==
  /\ cur_40ms_offset \in Nat /\ cur_2s_offset \in Nat /\ ram \in Seq(Packet)
  /\ si \in [ss : BOOLEAN, len40 : Nat, len2s : Nat]
  /\ want \in [by : Downloader, groups : [Howtos -> Seq(Packet)]]

ReceivingOK ==
  /\ map \in [Channels -> Seq(Nat)] /\ applied \in [Channels -> Seq(Nat)]
  /\ cha_sel \in Nat /\ fifo \in Nat /\ filtered \subseteq Channels

RateOK == rate \in Nat \X Nat /\ asked \in Nat \X Nat /\ lsb \in [Thread -> Nat]

ThreadsOK ==
  /\ pc \in [Thread -> WorkerPc \cup DownloadPc] /\ pc["worker"] \in WorkerPc
  /\ \A t \in Downloader : pc[t] \in DownloadPc
  /\ job \in [Thread -> WorkerJob \cup DownloadJob \cup {<<>>}]
  /\ pc["worker"] # "idle" => job["worker"] \in WorkerJob
  /\ \A t \in Downloader : pc[t] \notin {"idle", "lsb"} => job[t] \in DownloadJob
  /\ \A t \in Downloader : pc[t] = "si_stop" => job[t].i = 0
  /\ \A t \in Downloader : pc[t] = "ioctl" => job[t].i \in Howtos
  /\ ops \in 0..MaxOps

FlagsOK ==
  /\ hdev \in BOOLEAN /\ alone \in [Thread -> BOOLEAN]
  /\ disturbed \in BOOLEAN /\ stack_lost \in BOOLEAN /\ torn \in BOOLEAN

Types == LibraryOK /\ SendingOK /\ ReceivingOK /\ RateOK /\ ThreadsOK /\ FlagsOK

\* Who has had the library to itself since dvbSI_Start has the device open and
\* nobody beside it.
Exclusive ==
  \A t \in Thread : alone[t] /\ InLibrary(t) =>
    hdev /\ \A u \in Thread \ {t} : ~InLibrary(u)

\* Settings of the rate that do not overlap.
RateKept ==
  ~torn => /\ \A t, u \in Thread : pc[t] = "lsb" /\ pc[u] = "lsb" => t = u
           /\ \A t \in Thread : pc[t] = "lsb" => rate[1] = asked[1] /\ lsb[t] = asked[2]
           /\ (\A t \in Thread : pc[t] # "lsb") => rate = asked
-----------------------------------------------------------------------------
(* The table a parse reads *)

InTable == pc["worker"] \in {"fill", "ioctl"} \/ (pc["worker"] = "parse" /\ handed > 0)
ReadLen == IF job["worker"].pid = SDT_PID THEN READAHEAD ELSE 1
Stream(n) == [chan |-> job["worker"].chan, pid |-> job["worker"].pid, n |-> n]

\* Between parses nothing is kept; the first packet of a table is read with nbgn,
\* the next ones only when no packets are left.
ReadPhase ==
  /\ pc["worker"] = "idle" => got = Garbage /\ handed = 0
  /\ pc["worker"] \in {"fill", "ioctl"} =>
       /\ job["worker"].nbgn => handed = 0
       /\ ~job["worker"].nbgn => handed > 0
       /\ handed > 0 /\ job["worker"].pid = SDT_PID => left_pkt = 0

\* The request in the shared structure is the worker's.
Requested ==
  alone["worker"] /\ pc["worker"] = "ioctl" =>
    /\ str_data.by = "worker" /\ str_data.addr = job["worker"].chan
    /\ str_data.nbgn = job["worker"].nbgn /\ Len(str_data.data) = ReadLen

\* The FPGA lets only the pid of the table through.
Filtered == Undisturbed /\ InTable => map[job["worker"].chan] = <<job["worker"].pid>>

\* The FIFO has been read as far as the packets handed out and those read ahead.
Streaming ==
  Undisturbed /\ InTable /\ handed > 0 =>
    /\ cha_sel = job["worker"].chan
    /\ fifo = handed + (IF job["worker"].pid = SDT_PID THEN left_pkt ELSE 0)
    /\ job["worker"].pid = SDT_PID =>
         \A i \in 1..left_pkt_tot : ts_buf[i] = Stream(fifo - left_pkt_tot + i)

Reading == ReadPhase /\ Requested /\ Filtered /\ Streaming /\ ReadIsOwn /\ ReadInOrder
-----------------------------------------------------------------------------
(* The download whose SI is sent *)

\* The groups of the 2 s area before group i, one after the other.
Before(g, i, h) == IF h < i THEN g[h] ELSE <<>>
Written(g, i) == Before(g, i, 1) \o Before(g, i, 2) \o Before(g, i, 3)
                 \o Before(g, i, 4) \o Before(g, i, 5) \o Before(g, i, 6)

\* The memory holds the groups before i.
Held(g, i) ==
  /\ \A k \in 1..Len(Written(g, i)) :
       Area40ms + k <= Len(ram) /\ ram[Area40ms + k] = Written(g, i)[k]
  /\ i > 0 /\ Len(g[0]) <= Area40ms =>
       \A k \in 1..Len(g[0]) : k <= Len(ram) /\ ram[k] = g[0][k]

\* The driver's offsets are behind them.
Loaded(g, i) ==
  /\ cur_40ms_offset = (IF i > 0 THEN Len(g[0]) ELSE 0)
  /\ cur_2s_offset = Area40ms + Len(Written(g, i))
  /\ Held(g, i)

InProgress(t) ==
  /\ si.ss = FALSE /\ job[t].groups = want.groups
  /\ Loaded(want.groups, job[t].i)
  /\ pc[t] = "ioctl" => /\ str_data.addr = job[t].i
                        /\ str_data.data = want.groups[job[t].i]
Complete ==
  /\ si.len40 = LenReg(Len(want.groups[0]))
  /\ si.len2s = LenReg(Len(Written(want.groups, 7)))
  /\ Held(want.groups, 7)
  /\ \A u \in Downloader : pc[u] \notin {"write", "ioctl"}

Downloading ==
  \A t \in Downloader : want.by = t /\ alone[t] =>
    /\ pc[t] \in {"write", "ioctl"} => InProgress(t)
    /\ pc[t] \in {"idle", "lsb", "close"} => Complete

IInv == Types /\ Exclusive /\ MapIsApplied /\ RateKept /\ Reading /\ Downloading
-----------------------------------------------------------------------------
(* The types *)

\* What the constants are.
LEMMA Constants ==
  /\ Channels \subseteq Nat /\ Pids \subseteq Nat /\ Area40ms \in Nat
  /\ READAHEAD \in Nat \ {0} /\ MaxReads \in Nat \ {0} /\ MaxOps \in Nat
  /\ Garbage \in Packet
  BY HostFpgaAssumption DEF Garbage, Packet

\* The jobs of the worker and of a download.
LEMMA JobTypes ==
  /\ \A c \in Channels : [chan |-> c, pid |-> 0, nbgn |-> FALSE] \in WorkerJob
  /\ \A j \in WorkerJob, p \in Pids :
       [[j EXCEPT !.pid = p] EXCEPT !.nbgn = TRUE] \in WorkerJob
  /\ \A j \in WorkerJob : [j EXCEPT !.nbgn = FALSE] \in WorkerJob
  /\ \A d \in Downloads : [groups |-> d, i |-> 0] \in DownloadJob
  /\ \A j \in DownloadJob, h \in 0..7 :
       /\ [j EXCEPT !.i = h] \in DownloadJob
       /\ [j EXCEPT !.i = h].i = h /\ [j EXCEPT !.i = h].groups = j.groups
<1>1. \A c \in Channels : [chan |-> c, pid |-> 0, nbgn |-> FALSE] \in WorkerJob
  BY DEF WorkerJob
<1>2. \A j \in WorkerJob, p \in Pids :
        [[j EXCEPT !.pid = p] EXCEPT !.nbgn = TRUE] \in WorkerJob
  BY DEF WorkerJob
<1>3. \A j \in WorkerJob : [j EXCEPT !.nbgn = FALSE] \in WorkerJob
  BY DEF WorkerJob
<1>4. \A d \in Downloads : [groups |-> d, i |-> 0] \in DownloadJob
  BY HostFpgaAssumption DEF DownloadJob
<1>5. \A j \in DownloadJob, h \in 0..7 :
        /\ [j EXCEPT !.i = h] \in DownloadJob
        /\ [j EXCEPT !.i = h].i = h /\ [j EXCEPT !.i = h].groups = j.groups
  BY DEF DownloadJob
<1>6. QED
  BY <1>1, <1>2, <1>3, <1>4, <1>5

\* The threads' places and jobs.
LEMMA ThreadsStep ==
  ASSUME ThreadsOK, [Next]_vars
  PROVE  ThreadsOK'
<1> USE DEF ThreadsOK, Goto
<1>a. "worker" \in Thread /\ "worker" \notin Downloader /\ Downloader \subseteq Thread
  BY DEF Thread, Downloader
<1>1. CASE ParseStart
  <2>1. PICK c \in Channels :
          job' = [job EXCEPT !["worker"] = [chan |-> c, pid |-> 0, nbgn |-> FALSE]]
    BY <1>1 DEF ParseStart
  <2>2. job'["worker"] \in WorkerJob /\ \A t \in Downloader : job'[t] = job[t]
    BY <2>1, <1>a, JobTypes
  <2>3. pc' = [pc EXCEPT !["worker"] = "parse"] /\ ops' \in 0..MaxOps
    BY <1>1, Constants DEF ParseStart, Start
  <2>4. job' \in [Thread -> WorkerJob \cup DownloadJob \cup {<<>>}]
    BY <2>1, <2>2, <1>a
  <2>5. QED
    BY <2>2, <2>3, <2>4, <1>a DEF WorkerPc
<1>2. CASE ParseStop
  BY <1>2, <1>a DEF ParseStop, Stop, WorkerPc
<1>3. CASE SetFilter
  <2>1. PICK p \in Pids :
          job' = [job EXCEPT !["worker"].pid = p, !["worker"].nbgn = TRUE]
    BY <1>3 DEF SetFilter
  <2>2. job'["worker"] \in WorkerJob /\ \A t \in Downloader : job'[t] = job[t]
    BY <1>3, <2>1, <1>a, JobTypes DEF SetFilter
  <2>3. /\ pc["worker"] = "parse" /\ ops' \in 0..MaxOps
        /\ pc' = [pc EXCEPT !["worker"] = "fill"] \/ pc' = pc
    BY <1>3, Constants DEF SetFilter
  <2>4. job' \in [Thread -> WorkerJob \cup DownloadJob \cup {<<>>}]
    BY <2>1, <2>2, <1>a
  <2>5. QED
    BY <2>2, <2>3, <2>4, <1>a DEF WorkerPc
<1>4. CASE ReadNext
  BY <1>4, <1>a, JobTypes DEF ReadNext, WorkerPc
<1>5. CASE ReadFill
  BY <1>5, <1>a DEF ReadFill, WorkerPc
<1>6. CASE ReadIoctl
  BY <1>6, <1>a DEF ReadIoctl, WorkerPc
<1>7. ASSUME NEW t \in Downloader, DownloadStart(t)
      PROVE  ThreadsOK'
  <2>1. PICK d \in Downloads : job' = [job EXCEPT ![t] = [groups |-> d, i |-> 0]]
    BY <1>7 DEF DownloadStart
  <2>2. pc' = [pc EXCEPT ![t] = "si_stop"] /\ ops' \in 0..MaxOps
    BY <1>7, Constants DEF DownloadStart, Start
  <2>3. QED
    BY <2>1, <2>2, <1>a, JobTypes DEF DownloadPc
<1>8. ASSUME NEW t \in Downloader, DownloadSiStop(t)
      PROVE  ThreadsOK'
  BY <1>8, <1>a DEF DownloadSiStop, DownloadPc
<1>9. ASSUME NEW t \in Downloader, WriteFill(t)
      PROVE  ThreadsOK'
  <2>1. PICK h \in Left(t) : job' = [job EXCEPT ![t].i = h]
    BY <1>9 DEF WriteFill
  <2>2. job[t] \in DownloadJob /\ h \in Howtos
    BY <1>9, SMTT(60) DEF WriteFill, Left, DownloadJob, Howtos
  <2>3. [job[t] EXCEPT !.i = h] \in DownloadJob /\ [job[t] EXCEPT !.i = h].i = h
    <3>1. h \in 0..7
      BY <2>2 DEF Howtos
    <3>2. QED
      BY <2>2, <3>1, JobTypes
  <2>4. pc' = [pc EXCEPT ![t] = "ioctl"] /\ ops' = ops
    BY <1>9 DEF WriteFill
  <2>5. job' = [job EXCEPT ![t] = [job[t] EXCEPT !.i = h]]
    BY <2>1
  <2>6. QED
    BY <1>a, <2>2, <2>3, <2>4, <2>5 DEF DownloadPc
<1>10. ASSUME NEW t \in Downloader, WriteIoctl(t)
       PROVE  ThreadsOK'
  <2>1. job[t].i + 1 \in 0..7
    BY <1>10 DEF WriteIoctl, Howtos
  <2>2. QED
    BY <1>10, <1>a, <2>1, JobTypes DEF WriteIoctl, DownloadPc
<1>11. ASSUME NEW t \in Downloader, DownloadSiStart(t)
       PROVE  ThreadsOK'
  BY <1>11, <1>a DEF DownloadSiStart, DownloadPc
<1>12. ASSUME NEW t \in Downloader, DownloadStop(t)
       PROVE  ThreadsOK'
  BY <1>12, <1>a DEF DownloadStop, Stop, DownloadPc
<1>13. ASSUME NEW t \in Downloader, WritePidMap(t)
       PROVE  ThreadsOK'
  BY <1>13, Constants DEF WritePidMap
<1>14. ASSUME NEW t \in Downloader, RateMsb(t)
       PROVE  ThreadsOK'
  BY <1>14, <1>a, Constants DEF RateMsb, DownloadPc
<1>15. ASSUME NEW t \in Downloader, RateLsb(t)
       PROVE  ThreadsOK'
  BY <1>15, <1>a DEF RateLsb, DownloadPc
<1>16. CASE UNCHANGED vars
  BY <1>16 DEF vars
<1>17. QED
  BY <1>1, <1>2, <1>3, <1>4, <1>5, <1>6, <1>7, <1>8, <1>9, <1>10, <1>11, <1>12,
     <1>13, <1>14, <1>15, <1>16 DEF Next, DownloadStep

\* The flags.
LEMMA FlagsStep ==
  ASSUME FlagsOK, [Next]_vars
  PROVE  FlagsOK'
<1> USE DEF FlagsOK, library, receiving, setting
<1>1. CASE ParseStart
  BY <1>1, Zenon DEF ParseStart, Start
<1>2. CASE ParseStop
  BY <1>2, Zenon DEF ParseStop, Stop
<1>3. CASE SetFilter
  BY <1>3, Zenon DEF SetFilter
<1>4. CASE ReadNext
  BY <1>4, Zenon DEF ReadNext
<1>5. CASE ReadFill
  BY <1>5, Zenon DEF ReadFill
<1>6. CASE ReadIoctl
  BY <1>6, Zenon DEF ReadIoctl, Receive
<1>7. ASSUME NEW t \in Downloader, DownloadStart(t) PROVE FlagsOK'
  BY <1>7, Zenon DEF DownloadStart, Start
<1>8. ASSUME NEW t \in Downloader, DownloadStep(t) PROVE FlagsOK'
  BY <1>8, Zenon DEF DownloadStep, DownloadSiStop, WriteFill, WriteIoctl, DownloadSiStart,
     DownloadStop, Stop
<1>9. ASSUME NEW t \in Downloader, WritePidMap(t) PROVE FlagsOK'
  BY <1>9, Zenon DEF WritePidMap
<1>10. ASSUME NEW t \in Downloader, RateMsb(t) PROVE FlagsOK'
  BY <1>10, Zenon DEF RateMsb
<1>11. ASSUME NEW t \in Downloader, RateLsb(t) PROVE FlagsOK'
  BY <1>11, Zenon DEF RateLsb
<1>12. CASE UNCHANGED vars
  BY <1>12, Zenon DEF vars
<1>13. QED
  BY <1>1, <1>2, <1>3, <1>4, <1>5, <1>6, <1>7, <1>8, <1>9, <1>10, <1>11, <1>12 DEF Next

\* A request the worker makes, and what a read delivers.
LEMMA DeliveredTypes ==
  ASSUME ReceivingOK, NEW s \in Request, NEW pkts \in Delivered(s)
  PROVE  /\ ReadSelect(s) \in Nat
         /\ pkts \in Seq(Packet)
         /\ pkts = <<>> \/ Len(pkts) = Len(s.data)
<1>1. ReadSelect(s) \in Nat
  BY DEF ReadSelect, ReceivingOK, Request
<1>2. Len(s.data) \in Nat
  BY DEF Request
<1>3. ASSUME pkts # <<>>
      PROVE  pkts \in Seq(Packet) /\ Len(pkts) = Len(s.data)
  <2>1. PICK p \in InPids(ReadSelect(s)) : pkts = [i \in 1..Len(s.data) |->
          [chan |-> ReadSelect(s), pid |-> p, n |-> (IF s.nbgn THEN 0 ELSE fifo) + i]]
    BY <1>3 DEF Delivered
  <2>2. p \in Nat
    BY DEF InPids, Range, ReceivingOK
  <2>3. \A i \in 1..Len(s.data) : (IF s.nbgn THEN 0 ELSE fifo) + i \in Nat
    BY <1>2 DEF ReceivingOK
  <2>4. \A i \in 1..Len(s.data) : pkts[i] \in Packet
    BY <2>1, <2>2, <2>3, <1>1, <1>2 DEF Packet
  <2>5. QED
    <3>1. \A S : pkts = [i \in 1..Len(s.data) |-> pkts[i]]
                  /\ (\A i \in 1..Len(s.data) : pkts[i] \in S)
                 => pkts \in Seq(S) /\ Len(pkts) = Len(s.data)
      BY <1>2
    <3>2. pkts = [i \in 1..Len(s.data) |-> pkts[i]]
      BY <2>1
    <3>3. QED
      BY <2>4, <3>1, <3>2, Zenon
<1>4. <<>> \in Seq(Packet)
  OBVIOUS
<1>5. QED
  BY <1>1, <1>3, <1>4

\* The pid map, the channel selected and the FIFO.
LEMMA ReceivingStep ==
  ASSUME Types, MapIsApplied, [Next]_vars
  PROVE  ReceivingOK' /\ MapIsApplied'
<1> USE DEF Types, ReceivingOK, MapIsApplied
<1>1. CASE SetFilter
  <2>1. job["worker"].chan \in Channels
    BY <1>1 DEF SetFilter, ThreadsOK, WorkerJob
  <2>2. PICK p \in Pids :
          IF hdev THEN /\ map' = write_hfpga_pid_map(map, {job["worker"].chan},
                                                     [d \in Channels |-> <<p>>])
                       /\ filtered' = filtered \cup {job["worker"].chan}
                  ELSE UNCHANGED <<map, filtered>>
    BY <1>1, Zenon DEF SetFilter
  <2>3. cha_sel' = cha_sel /\ fifo' = fifo /\ applied' = applied
    BY <1>1 DEF SetFilter
  <2>4. <<p>> \in Seq(Nat)
    BY Constants
  <2>5. QED
    BY <2>1, <2>2, <2>3, <2>4 DEF write_hfpga_pid_map
<1>2. CASE ReadIoctl
  <2>1. map' = map /\ applied' = applied /\ filtered' = filtered
    BY <1>2 DEF ReadIoctl
  <2>2. CASE ~ hdev
    BY <1>2, <2>1, <2>2 DEF ReadIoctl
  <2>3. CASE hdev
    <3>1. PICK pkts \in Delivered(str_data) :
            /\ cha_sel' = ReadSelect(str_data)
            /\ fifo' = (IF str_data.nbgn THEN 0 ELSE fifo) + Len(pkts)
      BY <1>2, <2>3, Zenon DEF ReadIoctl
    <3>2. ReadSelect(str_data) \in Nat /\ pkts \in Seq(Packet)
      BY DeliveredTypes DEF LibraryOK
    <3>3. QED
      BY <2>1, <3>1, <3>2
  <2>4. QED
    BY <2>2, <2>3
<1>3. ASSUME NEW t \in Downloader, WritePidMap(t)
      PROVE  ReceivingOK' /\ MapIsApplied'
  BY <1>3, HostFpgaAssumption DEF WritePidMap, write_hfpga_pid_map
<1>4. CASE UNCHANGED receiving
  BY <1>4 DEF receiving
<1>5. QED
  <2>1. CASE UNCHANGED vars
    BY <2>1, <1>4 DEF vars
  <2>2. CASE Next
    BY <2>2, <1>1, <1>2, <1>3, <1>4, Zenon
    DEF Next, ParseStart, ParseStop, Stop, ReadNext, ReadFill, DownloadStart, DownloadStep,
        DownloadSiStop, WriteFill, WriteIoctl, DownloadSiStart, DownloadStop, RateMsb, RateLsb
  <2>3. QED
    BY <2>1, <2>2

\* The length register of a number of packets.
LEMMA LenRegType == \A n \in Int : LenReg(n) \in Nat
  BY DEF LenReg, PacketBytes

\* What write_hfpga_str_data leaves in the memory: the packets before pos as they
\* were, the data from there on.
LEMMA WriteRamIs ==
  ASSUME NEW r \in Seq(Packet), NEW pos \in Nat, NEW data \in Seq(Packet)
  PROVE  /\ WriteRam(r, pos, data) \in Seq(Packet)
         /\ Len(r) \in Nat /\ Len(data) \in Nat /\ Len(WriteRam(r, pos, data)) \in Nat
         /\ Len(WriteRam(r, pos, data)) >= Len(r)
         /\ \A k \in 1..Len(r) : k <= pos => WriteRam(r, pos, data)[k] = r[k]
         /\ \A k \in 1..Len(data) : /\ pos + k <= Len(WriteRam(r, pos, data))
                                    /\ WriteRam(r, pos, data)[pos + k] = data[k]
<1> DEFINE n == IF pos + Len(data) > Len(r) THEN pos + Len(data) ELSE Len(r)
           W == WriteRam(r, pos, data)
<1>1. Len(r) \in Nat /\ Len(data) \in Nat /\ n \in Nat /\ n >= Len(r) /\ n >= pos + Len(data)
  OBVIOUS
<1>2. W = [i \in 1..n |-> IF i - pos \in 1..Len(data) THEN data[i - pos]
                          ELSE IF i <= Len(r) THEN r[i] ELSE Garbage]
  BY DEF WriteRam
<1> HIDE DEF n, W
<1>3. \A i \in 1..n : W[i] \in Packet
  BY <1>1, <1>2, Constants
<1>4. W \in Seq(Packet) /\ Len(W) = n
  <2>1. DOMAIN W = 1..n /\ W = [i \in 1..n |-> W[i]]
    BY <1>2
  <2>2. W \in [1..n -> Packet]
    BY <1>3, <2>1, Zenon
  <2>3. W \in Seq(Packet)
    BY <1>1, <2>2, SeqDef, Zenon
  <2>4. Len(W) \in Nat /\ 1..Len(W) = 1..n
    BY <2>1, <2>3, LenProperties, Zenon
  <2>5. QED
    BY <1>1, <2>3, <2>4
<1>5. \A k \in 1..Len(r) : k <= pos => W[k] = r[k]
  BY <1>1, <1>2
<1>6. \A k \in 1..Len(data) : pos + k <= n /\ W[pos + k] = data[k]
  BY <1>1, <1>2
<1>7. QED
  BY <1>1, <1>4, <1>5, <1>6 DEF W

\* The offsets, the memory and the registers of SI.
LEMMA SendingStep ==
  ASSUME Types, [Next]_vars
  PROVE  SendingOK'
<1> USE DEF Types, SendingOK
<1>1. ASSUME NEW t \in Downloader, DownloadSiStop(t) PROVE SendingOK'
  <2>1. job[t].groups \in [Howtos -> Seq(Packet)]
    BY <1>1 DEF DownloadSiStop, ThreadsOK, DownloadJob
  <2>2. want' = [by |-> t, groups |-> job[t].groups]
    BY <1>1 DEF DownloadSiStop
  <2>3. /\ cur_40ms_offset' \in Nat /\ cur_2s_offset' \in Nat /\ ram' = ram
        /\ si' = [si EXCEPT !.ss = FALSE] \/ si' = si
    BY <1>1, Constants DEF DownloadSiStop, SiStop, sending
  <2>4. QED
    BY <2>1, <2>2, <2>3
<1>2. ASSUME NEW t \in Downloader, WriteIoctl(t) PROVE SendingOK'
  <2>1. CASE ~ hdev
    BY <1>2, <2>1 DEF WriteIoctl, sending
  <2>2. CASE hdev
    <3>1. str_data.data \in Seq(Packet)
      BY DEF LibraryOK, Request
    <3>2. PICK pos \in {cur_40ms_offset, cur_2s_offset} :
            /\ ram' = WriteRam(ram, pos, str_data.data)
            /\ cur_40ms_offset' \in {cur_40ms_offset, pos + Len(str_data.data)}
            /\ cur_2s_offset' \in {cur_2s_offset, pos + Len(str_data.data)}
            /\ si' = si /\ want' = want
      BY <1>2, <2>2 DEF WriteIoctl, write_hfpga_str_data
    <3>3. QED
      BY <3>1, <3>2, WriteRamIs
  <2>3. QED
    BY <2>1, <2>2
<1>3. ASSUME NEW t \in Downloader, DownloadSiStart(t) PROVE SendingOK'
  <2>1. CASE ~ hdev
    BY <1>3, <2>1 DEF DownloadSiStart, sending
  <2>2. CASE hdev
    <3>1. /\ si' = [ss |-> TRUE, len40 |-> LenReg(cur_40ms_offset),
                    len2s |-> LenReg(cur_2s_offset - Area40ms)]
          /\ UNCHANGED <<ram, cur_40ms_offset, cur_2s_offset, want>>
      BY <1>3, <2>2 DEF DownloadSiStart, SiStart
    <3>2. LenReg(cur_40ms_offset) \in Nat /\ LenReg(cur_2s_offset - Area40ms) \in Nat
      BY LenRegType, Constants, SMTT(60)
    <3>3. QED
      BY <3>1, <3>2
  <2>3. QED
    BY <2>1, <2>2
<1>4. CASE UNCHANGED <<sending, want>>
  BY <1>4 DEF sending
<1>5. QED
  <2>1. CASE UNCHANGED vars
    BY <2>1, <1>4 DEF vars
  <2>2. CASE Next
    BY <2>2, <1>1, <1>2, <1>3, <1>4, Zenon
    DEF Next, ParseStart, ParseStop, Stop, SetFilter, ReadNext, ReadFill, ReadIoctl,
        DownloadStart, DownloadStep, WriteFill, DownloadStop, WritePidMap, RateMsb, RateLsb
  <2>3. QED
    BY <2>1, <2>2

\* The two halves of the rate.
LEMMA RateStep ==
  ASSUME Types, RateKept, [Next]_vars
  PROVE  RateOK' /\ RateKept'
<1> USE DEF Types, RateOK, RateKept
<1>1. ASSUME NEW t \in Downloader, RateMsb(t) PROVE RateOK' /\ RateKept'
  <2>1. PICK r \in Rates :
          /\ rate' = <<r[1], rate[2]>> /\ asked' = r
          /\ pc' = [pc EXCEPT ![t] = "lsb"] /\ lsb' = [lsb EXCEPT ![t] = r[2]]
    BY <1>1 DEF RateMsb, Goto
  <2>2. torn' = \E u \in Thread : pc[u] = "lsb"
    BY <1>1, Zenon DEF RateMsb
  <2>3. r \in Nat \X Nat /\ t \in Thread /\ pc \in [Thread -> WorkerPc \cup DownloadPc]
    BY HostFpgaAssumption DEF Thread, ThreadsOK
  <2>4. RateOK'
    BY <2>1, <2>3
  <2>5. CASE \E u \in Thread : pc[u] = "lsb"
    BY <2>2, <2>4, <2>5, Zenon
  <2>6. CASE ~ \E u \in Thread : pc[u] = "lsb"
    BY <2>1, <2>3, <2>4, <2>6
  <2>7. QED
    BY <2>5, <2>6
<1>2. ASSUME NEW t \in Downloader, RateLsb(t) PROVE RateOK' /\ RateKept'
  <2>1. /\ rate' = <<rate[1], lsb[t]>> /\ asked' = asked /\ pc[t] = "lsb"
        /\ pc' = [pc EXCEPT ![t] = "idle"] /\ lsb' = [lsb EXCEPT ![t] = 0]
    BY <1>2 DEF RateLsb, Goto
  <2>2. torn' = torn
    BY <1>2, Zenon DEF RateLsb
  <2>3. t \in Thread /\ pc \in [Thread -> WorkerPc \cup DownloadPc]
    BY DEF Thread, ThreadsOK
  <2>4. RateOK'
    BY <2>1, <2>3
  <2>5. CASE torn
    BY <2>2, <2>4, <2>5, Zenon
  <2>6. CASE ~ torn
    BY <2>1, <2>3, <2>4, <2>6
  <2>7. QED
    BY <2>5, <2>6
<1>3. ASSUME UNCHANGED setting, pc' \in [Thread -> WorkerPc \cup DownloadPc],
             \A t \in Thread : pc[t] = "lsb" <=> pc'[t] = "lsb"
      PROVE  RateOK' /\ RateKept'
  BY <1>3, Zenon DEF setting
<1>4. QED
  <2>1. CASE UNCHANGED vars
    BY <2>1, <1>3, Zenon DEF vars, ThreadsOK
  <2>2. CASE Next
    <3>1. pc' \in [Thread -> WorkerPc \cup DownloadPc]
      BY ThreadsStep DEF ThreadsOK
    <3>2. CASE \E t \in Thread :
                 /\ pc[t] # "lsb" /\ UNCHANGED setting
                 /\ \E l \in {"parse", "fill", "ioctl", "idle", "si_stop", "write", "close"} :
                      pc' = [pc EXCEPT ![t] = l]
      BY <3>1, <3>2, <1>3 DEF ThreadsOK
    <3>3. CASE UNCHANGED <<pc, setting>>
      BY <3>1, <3>3, <1>3, Zenon
    <3>4. QED
      BY <2>2, <1>1, <1>2, <3>2, <3>3
      DEF Next, ParseStart, Start, ParseStop, Stop, SetFilter, ReadNext, ReadFill, ReadIoctl,
        DownloadStart, DownloadStep, DownloadSiStop, WriteFill, WriteIoctl,
        DownloadSiStart, DownloadStop, WritePidMap, Goto, Thread, Downloader
  <2>3. QED
    BY <2>1, <2>2

\* The request and the packets read ahead.
LEMMA LibraryStep ==
  ASSUME Types, [Next]_vars
  PROVE  LibraryOK'
<1> USE DEF Types, LibraryOK
<1>a. /\ "worker" \in Thread /\ Downloader \subseteq Thread /\ "worker" \notin Downloader
      /\ pc \in [Thread -> WorkerPc \cup DownloadPc]
  BY DEF Thread, Downloader, ThreadsOK
<1>b. 0 \in 0..MaxReads /\ Garbage \in Packet
  BY Constants
<1>1. CASE ParseStart
  BY <1>1, <1>a, <1>b DEF ParseStart, Start, Goto
<1>2. CASE ParseStop
  BY <1>2, <1>a, <1>b DEF ParseStop, Stop
<1>3. CASE SetFilter
  BY <1>3, <1>a, Constants DEF SetFilter, Goto
<1>4. CASE ReadNext
  <2>1. /\ handed \in 1..(MaxReads - 1)
        /\ UNCHANGED <<str_data, left_pkt_tot, ts_buf>>
    BY <1>4 DEF ReadNext
  <2>2. CASE job["worker"].pid = SDT_PID /\ left_pkt > 0
    <3>1. /\ got' \in {Cached, Garbage} /\ left_pkt' = left_pkt - 1 /\ handed' = handed + 1
          /\ pc' = pc /\ pc["worker"] = "parse"
      BY <1>4, <2>2 DEF ReadNext
    <3>2. left_pkt_tot - left_pkt + 1 \in 1..Len(ts_buf)
      BY <2>2
    <3>3. Cached \in Packet
      BY <3>2 DEF Cached
    <3>4. QED
      BY <2>1, <2>2, <3>1, <3>3, Constants
  <2>3. CASE ~ (job["worker"].pid = SDT_PID /\ left_pkt > 0)
    <3>1. UNCHANGED <<got, handed, left_pkt>>
      BY <1>4, <2>3 DEF ReadNext
    <3>2. QED
      BY <2>1, <3>1, Constants
  <2>4. QED
    BY <2>2, <2>3
<1>5. CASE ReadFill
  <2>1. job["worker"].chan \in Nat /\ job["worker"].nbgn \in BOOLEAN
    BY <1>5, Constants DEF ReadFill, ThreadsOK, WorkerJob
  <2>2. [i \in 1..(IF job["worker"].pid = SDT_PID THEN READAHEAD ELSE 1) |-> Garbage]
           \in Seq(Packet)
    <3>1. \A S : \A x \in S, n \in Nat : [i \in 1..n |-> x] \in Seq(S)
      OBVIOUS
    <3>2. (IF job["worker"].pid = SDT_PID THEN READAHEAD ELSE 1) \in Nat
      BY Constants
    <3>3. QED
      BY <3>1, <3>2, <1>b, Zenon
  <2>3. str_data' \in Request
    <3> DEFINE d == [i \in 1..(IF job["worker"].pid = SDT_PID THEN READAHEAD ELSE 1)
                       |-> Garbage]
    <3>1. str_data' = [by |-> "worker", addr |-> job["worker"].chan,
                       nbgn |-> job["worker"].nbgn, data |-> d]
      BY <1>5 DEF ReadFill
    <3>2. d \in Seq(Packet)
      BY <2>2
    <3> HIDE DEF d
    <3>3. QED
      BY <3>1, <3>2, <2>1, <1>a DEF Request
  <2>4. /\ UNCHANGED <<left_pkt, left_pkt_tot, ts_buf, got, handed>>
        /\ pc["worker"] = "fill"
    BY <1>5 DEF ReadFill
  <2>5. QED
    BY <2>3, <2>4
<1>6. CASE ReadIoctl
  <2>1. pc'["worker"] = "parse" /\ handed < MaxReads
    BY <1>6, <1>a DEF ReadIoctl, Goto
  <2>2. CASE handed' = 0 /\ got' = Garbage
             /\ UNCHANGED <<str_data, left_pkt, left_pkt_tot, ts_buf>>
    BY <2>1, <2>2, <1>b
  <2>3. ASSUME NEW pkts \in Delivered(str_data), pkts # <<>>, Receive(pkts)
        PROVE  LibraryOK'
    <3> DEFINE mine == IF str_data.by = "worker" THEN pkts
                       ELSE [i \in 1..Len(pkts) |-> Garbage]
    <3>1. pkts \in Seq(Packet) /\ Len(pkts) \in Nat \ {0}
      BY <2>3, DeliveredTypes
    <3>2. mine \in Seq(Packet) /\ Len(mine) = Len(pkts)
      <4>1. \A S : \A x \in S, n \in Nat :
              [i \in 1..n |-> x] \in Seq(S) /\ Len([i \in 1..n |-> x]) = n
        OBVIOUS
      <4>2. QED
        BY <3>1, <4>1, <1>b
    <3>3. /\ got' = mine[1] /\ handed' = handed + 1
          /\ str_data' = [str_data EXCEPT !.data = pkts]
          /\ \/ ts_buf' = mine /\ left_pkt_tot' = Len(mine) /\ left_pkt' = Len(mine) - 1
             \/ UNCHANGED <<ts_buf, left_pkt, left_pkt_tot>>
      BY <2>3 DEF Receive
    <3> HIDE DEF mine
    <3>4. mine[1] \in Packet
      BY <3>1, <3>2
    <3>5. str_data' \in Request
      BY <3>1, <3>3 DEF Request
    <3>6. QED
      BY <2>1, <3>1, <3>2, <3>3, <3>4, <3>5, Constants, SMTT(60)
  <2>4. QED
    BY <1>6, <2>2, <2>3 DEF ReadIoctl
<1>7. ASSUME NEW t \in Downloader, WriteFill(t) PROVE LibraryOK'
  <2>1. PICK h \in Left(t) :
          str_data' = [str_data EXCEPT !.by = t, !.addr = h, !.data = job[t].groups[h]]
    BY <1>7 DEF WriteFill
  <2>2. h \in Nat /\ job[t].groups[h] \in Seq(Packet)
    <3>1. job[t] \in DownloadJob
      BY <1>7 DEF WriteFill, ThreadsOK
    <3>2. h \in job[t].i..6 /\ job[t].i \in 0..7 /\ job[t].groups \in [Howtos -> Seq(Packet)]
      BY <3>1 DEF Left, DownloadJob
    <3>3. h \in Howtos
      <4>1. \A a \in 0..7 : \A b \in a..6 : b \in 0..6
        OBVIOUS
      <4>2. QED
        BY <3>2, <4>1, Zenon DEF Howtos
    <3>4. job[t].groups[h] \in Seq(Packet)
      BY <3>2, <3>3, Zenon
    <3>5. \A k \in Howtos : k \in Nat
      BY DEF Howtos
    <3>6. QED
      BY <3>3, <3>4, <3>5, Zenon
  <2>3. str_data' \in Request
    BY <2>1, <2>2, <1>a DEF Request
  <2>4. /\ UNCHANGED <<left_pkt, left_pkt_tot, ts_buf, got, handed>>
        /\ pc'["worker"] = pc["worker"]
    BY <1>7, <1>a DEF WriteFill, Goto
  <2>5. QED
    BY <2>3, <2>4
<1>8. ASSUME UNCHANGED <<str_data, left_pkt, left_pkt_tot, ts_buf, got, handed>>,
             pc'["worker"] = pc["worker"]
      PROVE  LibraryOK'
  BY <1>8
<1>9. QED
  <2>1. CASE UNCHANGED vars
    BY <2>1, <1>8 DEF vars, library
  <2>2. CASE Next
    <3>1. ASSUME NEW t \in Downloader,
                 UNCHANGED <<str_data, left_pkt, left_pkt_tot, ts_buf, got, handed>>,
                 pc' = pc \/ \E l : pc' = [pc EXCEPT ![t] = l]
          PROVE  LibraryOK'
      BY <3>1, <1>8, <1>a
    <3>2. QED
      BY <2>2, <1>1, <1>2, <1>3, <1>4, <1>5, <1>6, <1>7, <3>1
      DEF Next, DownloadStart, Start, DownloadStep, DownloadSiStop, WriteIoctl,
        DownloadSiStart, DownloadStop, Stop, WritePidMap, RateMsb, RateLsb, Goto, library
  <2>3. QED
    BY <2>1, <2>2

\* All the types.
LEMMA TypesStep ==
  ASSUME Types, MapIsApplied, RateKept, [Next]_vars
  PROVE  Types'
  BY ThreadsStep, FlagsStep, ReceivingStep, SendingStep, RateStep, LibraryStep DEF Types
-----------------------------------------------------------------------------
(* Who is alone in the library *)

\* What dvbSI_Start does.
LEMMA StartEffect ==
  ASSUME NEW t \in Thread, Start(t), FlagsOK
  PROVE  /\ hdev' = TRUE /\ pc[t] = "idle"
         /\ alone'[t] => \A v \in Thread : ~ InLibrary(v)
         /\ \A u \in Thread \ {t} : alone'[u] => alone[u] /\ ~ InLibrary(u)
<1>1. alone' = [u \in Thread |-> IF u = t THEN \A v \in Thread : ~InLibrary(v)
                                 ELSE alone[u] /\ ~InLibrary(u)]
  BY Zenon DEF Start
<1>2. hdev' = TRUE /\ pc[t] = "idle"
  BY Zenon DEF Start
<1>3. alone'[t] = \A v \in Thread : ~ InLibrary(v)
  BY <1>1, Zenon
<1>4. ASSUME NEW u \in Thread \ {t}
      PROVE  alone'[u] = (alone[u] /\ ~InLibrary(u))
  BY <1>1, Zenon
<1>5. QED
  BY <1>2, <1>3, <1>4, Zenon

\* Every other step of a thread either leaves the library or stays where it is.
LEMMA PcCases ==
  ASSUME ThreadsOK, Next
  PROVE  \/ \E t \in Thread, l \in {"parse", "si_stop"} :
              Start(t) /\ pc' = [pc EXCEPT ![t] = l]
         \/ \E t \in Thread : /\ InLibrary(t) /\ hdev' = FALSE
                              /\ pc' = [pc EXCEPT ![t] = "idle"] /\ alone' = alone
         \/ \E t \in Thread, l \in {"parse", "fill", "ioctl", "write", "close"} :
              InLibrary(t) /\ pc' = [pc EXCEPT ![t] = l] /\ UNCHANGED <<hdev, alone>>
         \/ \E t \in Downloader, l \in {"lsb", "idle"} :
              ~InLibrary(t) /\ pc' = [pc EXCEPT ![t] = l] /\ UNCHANGED <<hdev, alone>>
         \/ UNCHANGED <<pc, hdev, alone>>
  BY ZenonT(60)
  DEF Next, InLibrary, ParseStart, ParseStop, SetFilter, ReadNext, ReadFill, ReadIoctl,
      DownloadStart, DownloadStep, DownloadSiStop, WriteFill, WriteIoctl, DownloadSiStart,
      DownloadStop, Stop, WritePidMap, RateMsb, RateLsb, Goto, library, Thread

\* dvbSI_Start and dvbSI_Stop keep the histories of who is alone.
LEMMA ExclusiveStep ==
  ASSUME Types, Exclusive, [Next]_vars
  PROVE  Exclusive'
<1> USE DEF Types
<1>a. pc \in [Thread -> WorkerPc \cup DownloadPc] /\ Downloader \subseteq Thread
  BY DEF ThreadsOK, Thread
<1>1. ASSUME NEW t \in Thread, NEW l \in {"parse", "si_stop"},
             Start(t), pc' = [pc EXCEPT ![t] = l]
      PROVE  Exclusive'
  <2>1. \A u \in Thread \ {t} : pc'[u] = pc[u]
    BY <1>1, <1>a
  <2>2. \A u \in Thread \ {t} : InLibrary(u)' <=> InLibrary(u)
    BY <2>1, Zenon DEF InLibrary
  <2>3. QED
    BY <1>1, <2>2, StartEffect, Zenon DEF Exclusive
<1>2. ASSUME NEW t \in Thread, InLibrary(t), hdev' = FALSE,
             pc' = [pc EXCEPT ![t] = "idle"], alone' = alone
      PROVE  Exclusive'
  <2>1. pc'[t] = "idle" /\ \A u \in Thread \ {t} : pc'[u] = pc[u]
    BY <1>2, <1>a
  <2>2. ~ InLibrary(t)' /\ \A u \in Thread \ {t} : InLibrary(u)' <=> InLibrary(u)
    BY <2>1, Zenon DEF InLibrary
  <2>3. QED
    BY <1>2, <2>2, Zenon DEF Exclusive
<1>3. ASSUME NEW t \in Thread, NEW l, InLibrary(t),
             pc' = [pc EXCEPT ![t] = l], UNCHANGED <<hdev, alone>>
      PROVE  Exclusive'
  <2>1. \A u \in Thread \ {t} : pc'[u] = pc[u]
    BY <1>3, <1>a
  <2>2. \A u \in Thread \ {t} : InLibrary(u)' <=> InLibrary(u)
    BY <2>1, Zenon DEF InLibrary
  <2>3. QED
    BY <1>3, <2>2, Zenon DEF Exclusive
<1>4. ASSUME NEW t \in Downloader, NEW l \in {"lsb", "idle"}, ~InLibrary(t),
             pc' = [pc EXCEPT ![t] = l], UNCHANGED <<hdev, alone>>
      PROVE  Exclusive'
  <2>1. pc'[t] = l /\ \A u \in Thread \ {t} : pc'[u] = pc[u]
    BY <1>4, <1>a
  <2>2. ~ InLibrary(t)' /\ \A u \in Thread \ {t} : InLibrary(u)' <=> InLibrary(u)
    BY <2>1, Zenon DEF InLibrary
  <2>3. QED
    BY <1>4, <2>2, Zenon DEF Exclusive
<1>5. ASSUME UNCHANGED <<pc, hdev, alone>>
      PROVE  Exclusive'
  BY <1>5, Zenon DEF Exclusive, InLibrary
<1>6. QED
  <2>1. CASE UNCHANGED vars
    BY <2>1, <1>5, Zenon DEF vars, library
  <2>2. CASE Next
    BY <2>2, <1>1, <1>2, <1>3, <1>4, <1>5, PcCases, Zenon
  <2>3. QED
    BY <2>1, <2>2
-----------------------------------------------------------------------------
(* A parse is given its packets *)

\* Nothing is being read.
LEMMA ReadingReset ==
  ASSUME got' = Garbage, handed' = 0, pc'["worker"] \in {"idle", "parse"}
  PROVE  Reading'
<1>1. ~ InTable' /\ ~ (pc'["worker"] \in {"fill", "ioctl"}) /\ ~ (handed' > 0)
  BY DEF InTable
<1>2. QED
  BY <1>1, Zenon
  DEF Reading, ReadPhase, Requested, Filtered, Streaming, ReadIsOwn, ReadInOrder

\* Steps of others do not touch a table, but to disturb it.
LEMMA ReadingFrame ==
  ASSUME Reading,
         UNCHANGED <<got, handed, left_pkt, left_pkt_tot, ts_buf, cha_sel, fifo, stack_lost>>,
         job'["worker"] = job["worker"], pc'["worker"] = pc["worker"],
         alone'["worker"] => alone["worker"],
         Undisturbed' => Undisturbed /\ map' = map,
         str_data' = str_data \/ ~ alone'["worker"] \/ pc["worker"] # "ioctl"
  PROVE  Reading'
<1> USE DEF Reading
<1>1. ReadPhase'
  BY Zenon DEF ReadPhase
<1>2. Requested'
  BY Zenon DEF Requested, ReadLen
<1>3. InTable' <=> InTable
  BY Zenon DEF InTable
<1>4. Filtered'
  BY <1>3, Zenon DEF Filtered
<1>5. Streaming'
  BY <1>3, Zenon DEF Streaming, Stream
<1>6. ReadIsOwn' /\ ReadInOrder'
  BY Zenon DEF ReadIsOwn, ReadInOrder
<1>7. QED
  BY <1>1, <1>2, <1>4, <1>5, <1>6

\* The worker's steps.
LEMMA SetFilterReads ==
  ASSUME Types, Reading, SetFilter
  PROVE  Reading'
<1>a. /\ "worker" \in Thread /\ pc \in [Thread -> WorkerPc \cup DownloadPc]
      /\ job \in [Thread -> WorkerJob \cup DownloadJob \cup {<<>>}]
      /\ job["worker"] \in WorkerJob /\ map \in [Channels -> Seq(Nat)]
  BY DEF SetFilter, Thread, Types, ThreadsOK, ReceivingOK
<1>1. got' = Garbage /\ handed' = 0 /\ pc["worker"] = "parse"
  BY DEF SetFilter
<1>2. CASE ~ hdev
  BY <1>1, <1>2, ReadingReset DEF SetFilter
<1>3. CASE hdev
  <2>1. PICK p \in Pids :
          /\ job' = [job EXCEPT !["worker"].pid = p, !["worker"].nbgn = TRUE]
          /\ map' = write_hfpga_pid_map(map, {job["worker"].chan}, [d \in Channels |-> <<p>>])
          /\ pc' = [pc EXCEPT !["worker"] = "fill"]
    BY <1>3, Zenon DEF SetFilter, Goto
  <2>2. pc'["worker"] = "fill"
    BY <2>1, <1>a
  <2>3. /\ job'["worker"].chan = job["worker"].chan /\ job'["worker"].pid = p
        /\ job["worker"].chan \in Channels
    BY <2>1, <1>a DEF WorkerJob
  <2>4. job'["worker"].nbgn
    BY <2>1, <1>a DEF WorkerJob
  <2>5. map'[job["worker"].chan] = <<p>>
    BY <2>1, <2>3 DEF write_hfpga_pid_map
  <2>6. ReadPhase'
    <3>1. ~ (handed' > 0)
      BY <1>1
    <3>2. QED
      BY <1>1, <2>2, <2>4, <3>1, Zenon DEF ReadPhase
  <2>7. Requested' /\ Filtered'
    BY <2>2, <2>3, <2>5 DEF Requested, Filtered
  <2>8. Streaming' /\ ReadIsOwn' /\ ReadInOrder'
    BY <1>1 DEF Streaming, ReadIsOwn, ReadInOrder
  <2>9. QED
    BY <2>6, <2>7, <2>8 DEF Reading
<1>4. QED
  BY <1>2, <1>3

\* A packet read ahead, or a further read.
LEMMA ReadNextReads ==
  ASSUME Types, Reading, ReadNext
  PROVE  Reading'
<1>a. /\ "worker" \in Thread /\ pc \in [Thread -> WorkerPc \cup DownloadPc]
      /\ job \in [Thread -> WorkerJob \cup DownloadJob \cup {<<>>}]
      /\ job["worker"] \in WorkerJob
  BY DEF ReadNext, Thread, Types, ThreadsOK
<1>b. /\ left_pkt_tot \in Nat /\ left_pkt \in 0..left_pkt_tot /\ fifo \in Nat
      /\ handed \in 1..(MaxReads - 1) /\ MaxReads \in Nat
  BY Constants DEF Types, LibraryOK, ReceivingOK, ReadNext
<1>1. pc["worker"] = "parse" /\ job' = [job EXCEPT !["worker"].nbgn = FALSE]
  BY DEF ReadNext
<1>2. job'["worker"].chan = job["worker"].chan /\ job'["worker"].pid = job["worker"].pid
  BY <1>1, <1>a DEF WorkerJob
<1>3. ~ job'["worker"].nbgn
  BY <1>1, <1>a DEF WorkerJob
<1>4. /\ UNCHANGED <<ts_buf, left_pkt_tot, map, cha_sel, fifo>>
      /\ Undisturbed' <=> Undisturbed
  BY Zenon DEF ReadNext, receiving, Undisturbed
<1>5. InTable
  BY <1>1, <1>b DEF InTable
<1>6. CASE job["worker"].pid = SDT_PID /\ left_pkt > 0
  <2>1. /\ pc' = pc /\ left_pkt' = left_pkt - 1 /\ handed' = handed + 1
    BY <1>6 DEF ReadNext
  <2>2. \/ got' = Cached /\ UNCHANGED stack_lost
        \/ got' = Garbage /\ stack_lost' = TRUE
    BY <1>6, Zenon DEF ReadNext
  <2>3. InTable' /\ handed' > 0
    BY <1>1, <1>b, <2>1 DEF InTable
  <2>4. ReadPhase' /\ Requested'
    BY <1>1, <2>1 DEF ReadPhase, Requested
  <2>5. Filtered'
    BY <1>2, <1>4, <1>5 DEF Filtered, Reading
  <2>6. ASSUME Undisturbed PROVE fifo' = handed' + left_pkt' /\ cha_sel' = job'["worker"].chan
    BY <2>6, <1>2, <1>4, <1>5, <1>6, <1>b, <2>1 DEF Streaming, Reading
  <2>7. Streaming'
    BY <2>6, <1>2, <1>4, <1>5, <1>6, <1>b DEF Streaming, Reading, Stream
  <2>8. ASSUME Undisturbed, got' = Cached PROVE got' = Stream(handed')
    <3>1. left_pkt_tot - left_pkt + 1 \in 1..left_pkt_tot
      BY <1>b, <1>6
    <3>2. Cached = Stream(fifo - left_pkt_tot + (left_pkt_tot - left_pkt + 1))
      BY <2>8, <3>1, <1>5, <1>6, <1>b DEF Cached, Streaming, Reading
    <3>3. fifo - left_pkt_tot + (left_pkt_tot - left_pkt + 1) = handed'
      BY <2>8, <2>6, <1>4, <1>b, <2>1
    <3>4. QED
      BY <2>8, <3>2, <3>3
  <2>9. ReadIsOwn'
    BY <2>2, <2>8, <1>2, <1>4 DEF ReadIsOwn, Stream
  <2>10. ReadInOrder'
    <3>1. CASE stack_lost' = TRUE
      BY <3>1, Zenon DEF ReadInOrder
    <3>2. CASE got' = Cached
      <4>1. Undisturbed' => got'.n = handed'
        BY <3>2, <2>8, <1>4 DEF Stream
      <4>2. QED
        BY <4>1, Zenon DEF ReadInOrder
    <3>3. QED
      BY <3>1, <3>2, <2>2
  <2>11. QED
    BY <2>4, <2>5, <2>7, <2>9, <2>10 DEF Reading
<1>7. CASE ~ (job["worker"].pid = SDT_PID /\ left_pkt > 0)
  <2>1. pc' = [pc EXCEPT !["worker"] = "fill"] /\ UNCHANGED <<got, handed, left_pkt>>
    BY <1>7 DEF ReadNext, Goto
  <2>2. stack_lost' = stack_lost
    BY <1>7, Zenon DEF ReadNext
  <2>3. pc'["worker"] = "fill" /\ handed' > 0
    BY <2>1, <1>a, <1>b
  <2>4. ReadPhase'
    <3>1. handed' > 0 /\ job'["worker"].pid = SDT_PID => left_pkt' = 0
      BY <1>7, <1>2, <2>1, <1>b
    <3>2. QED
      BY <1>3, <2>3, <3>1, Zenon DEF ReadPhase
  <2>5. Requested'
    BY <2>3 DEF Requested
  <2>6. Filtered' /\ Streaming'
    BY <1>2, <1>4, <1>5, <1>b, <2>1 DEF Filtered, Streaming, Reading, Stream
  <2>7. ReadIsOwn' /\ ReadInOrder'
    BY <1>2, <1>4, <2>1, <2>2, Zenon DEF ReadIsOwn, ReadInOrder, Reading
  <2>8. QED
    BY <2>4, <2>5, <2>6, <2>7 DEF Reading
<1>8. QED
  BY <1>6, <1>7

\* The request of the worker goes to the shared structure.
LEMMA ReadFillReads ==
  ASSUME Types, Reading, ReadFill
  PROVE  Reading'
<1>1. /\ pc["worker"] = "fill" /\ pc' = [pc EXCEPT !["worker"] = "ioctl"]
      /\ UNCHANGED <<got, handed, left_pkt, left_pkt_tot, ts_buf, map, cha_sel, fifo, job>>
  BY DEF ReadFill, Goto, receiving
<1>2. UNCHANGED stack_lost /\ (Undisturbed' <=> Undisturbed)
  BY Zenon DEF ReadFill, receiving, Undisturbed
<1>3. pc'["worker"] = "ioctl"
  BY <1>1 DEF Types, ThreadsOK, Thread
<1>4. ReadLen \in Nat
  BY Constants DEF ReadLen
<1>5. /\ str_data'.by = "worker" /\ str_data'.addr = job["worker"].chan
      /\ str_data'.nbgn = job["worker"].nbgn
      /\ str_data'.data = [i \in 1..ReadLen |-> Garbage]
  BY DEF ReadFill, ReadLen
<1>6. Requested'
  <2>1. Len(str_data'.data) = ReadLen
    BY <1>4, <1>5
  <2>2. ReadLen' = ReadLen
    BY <1>1 DEF ReadLen
  <2>3. QED
    BY <1>1, <1>5, <2>1, <2>2, Zenon DEF Requested
<1>7. InTable' <=> InTable
  BY <1>1, <1>3 DEF InTable
<1>8. ReadPhase'
  BY <1>1, <1>3, Zenon DEF Reading, ReadPhase
<1>9. Filtered' /\ Streaming'
  BY <1>1, <1>2, <1>7, Zenon DEF Reading, Filtered, Streaming, Stream
<1>10. ReadIsOwn' /\ ReadInOrder'
  BY <1>1, <1>2, Zenon DEF Reading, ReadIsOwn, ReadInOrder
<1>11. QED
  BY <1>6, <1>8, <1>9, <1>10 DEF Reading

\* The packets an undisturbed read delivers are the next of its table.
LEMMA DeliveredIsNext ==
  ASSUME Types, Reading, Undisturbed, pc["worker"] = "ioctl",
         NEW pkts \in Delivered(str_data), pkts # <<>>
  PROVE  /\ ReadSelect(str_data) = job["worker"].chan
         /\ (IF str_data.nbgn THEN 0 ELSE fifo) = handed
         /\ Len(pkts) = ReadLen
         /\ \A i \in 1..ReadLen : pkts[i] = Stream(handed + i)
<1> DEFINE base == IF str_data.nbgn THEN 0 ELSE fifo
<1>1. /\ str_data.by = "worker" /\ str_data.addr = job["worker"].chan
      /\ str_data.nbgn = job["worker"].nbgn /\ Len(str_data.data) = ReadLen
  BY Zenon DEF Reading, Requested, Undisturbed
<1>2. job["worker"].chan \in Channels /\ ReadLen \in Nat
  BY Constants DEF Types, ThreadsOK, WorkerJob, ReadLen
<1>3. InTable
  BY Zenon DEF InTable
<1>4. ReadSelect(str_data) = job["worker"].chan /\ base = handed
  <2>1. CASE str_data.nbgn
    <3>1. handed = 0
      BY <1>1, <2>1, Zenon DEF Reading, ReadPhase
    <3>2. QED
      BY <1>1, <2>1, <3>1 DEF ReadSelect
  <2>2. CASE ~ str_data.nbgn
    <3>1. handed > 0 /\ (job["worker"].pid = SDT_PID => left_pkt = 0)
      BY <1>1, <2>2, Zenon DEF Reading, ReadPhase
    <3>2. cha_sel = job["worker"].chan /\ fifo = handed
      BY <3>1, <1>3 DEF Reading, Streaming, Types, LibraryOK
    <3>3. QED
      BY <2>2, <3>2 DEF ReadSelect
  <2>3. QED
    BY <2>1, <2>2
<1> HIDE DEF base
<1>5. map[job["worker"].chan] = <<job["worker"].pid>>
  BY <1>3 DEF Reading, Filtered
<1>6. InPids(ReadSelect(str_data)) = {job["worker"].pid}
  BY <1>2, <1>4, <1>5 DEF InPids, Range
<1>7. pkts = [i \in 1..Len(str_data.data) |->
                [chan |-> ReadSelect(str_data), pid |-> job["worker"].pid, n |-> base + i]]
  BY <1>6 DEF Delivered, base
<1>8. Len(pkts) = ReadLen /\ \A i \in 1..ReadLen : pkts[i] = Stream(handed + i)
  BY <1>1, <1>2, <1>4, <1>7 DEF Stream
<1>9. QED
  BY <1>4, <1>8 DEF base

\* The read itself.
LEMMA ReadIoctlReads ==
  ASSUME Types, Reading, ReadIoctl
  PROVE  Reading'
<1>1. pc["worker"] = "ioctl" /\ pc'["worker"] = "parse" /\ UNCHANGED <<job, map>>
  BY DEF ReadIoctl, Goto, Types, ThreadsOK, Thread
<1>2. Undisturbed' <=> Undisturbed
  BY Zenon DEF ReadIoctl, Undisturbed
<1>3. CASE handed' = 0 /\ got' = Garbage
  BY <1>1, <1>3, ReadingReset
<1>4. ASSUME NEW pkts \in Delivered(str_data), pkts # <<>>, Receive(pkts),
             cha_sel' = ReadSelect(str_data),
             fifo' = (IF str_data.nbgn THEN 0 ELSE fifo) + Len(pkts)
      PROVE  Reading'
  <2>1. ReadPhase' /\ Requested'
    BY <1>1 DEF ReadPhase, Requested
  <2>2. CASE ~ Undisturbed
    BY <1>2, <2>1, <2>2, Zenon DEF Reading, Filtered, Streaming, ReadIsOwn, ReadInOrder
  <2>3. CASE Undisturbed
    <3>1. str_data.by = "worker"
      BY <1>1, <2>3, Zenon DEF Reading, Requested, Undisturbed
    <3>2. /\ cha_sel' = job["worker"].chan /\ fifo' = handed + ReadLen
          /\ Len(pkts) = ReadLen /\ \A i \in 1..ReadLen : pkts[i] = Stream(handed + i)
      BY <1>1, <1>4, <2>3, DeliveredIsNext
    <3>3. /\ got' = pkts[1] /\ handed' = handed + 1
          /\ job["worker"].pid = SDT_PID =>
               ts_buf' = pkts /\ left_pkt_tot' = ReadLen /\ left_pkt' = ReadLen - 1
      BY <1>4, <3>1, <3>2 DEF Receive
    <3>4. /\ ReadLen \in Nat \ {0} /\ handed \in Nat
          /\ job["worker"].pid # SDT_PID => ReadLen = 1
      BY Constants DEF ReadLen, Types, LibraryOK
    <3>5. Filtered'
      BY <1>1, <1>2, <2>3 DEF Reading, Filtered, InTable
    <3>6. Streaming'
      <4>1. job["worker"].pid = SDT_PID => \A i \in 1..left_pkt_tot' :
              ts_buf'[i] = Stream(fifo' - left_pkt_tot' + i)
        BY <3>2, <3>3, <3>4
      <4>2. fifo' = handed' + (IF job["worker"].pid = SDT_PID THEN left_pkt' ELSE 0)
        BY <3>2, <3>3, <3>4
      <4>3. QED
        BY <1>1, <3>2, <4>1, <4>2 DEF Streaming, Stream
    <3>7. got' = Stream(handed')
      BY <3>2, <3>3, <3>4
    <3>8. ReadIsOwn' /\ ReadInOrder'
      BY <1>1, <3>7 DEF ReadIsOwn, ReadInOrder, Stream
    <3>9. QED
      BY <2>1, <3>5, <3>6, <3>8 DEF Reading
  <2>4. QED
    BY <2>2, <2>3
<1>5. QED
  BY <1>3, <1>4 DEF ReadIoctl

\* Every step keeps what is known of the table being read.
LEMMA ReadingStep ==
  ASSUME Types, Exclusive, Reading, [Next]_vars
  PROVE  Reading'
<1>a. /\ pc \in [Thread -> WorkerPc \cup DownloadPc] /\ "worker" \in Thread
      /\ job \in [Thread -> WorkerJob \cup DownloadJob \cup {<<>>}]
      /\ "worker" \notin Downloader /\ Downloader \subseteq Thread
  BY DEF Types, ThreadsOK, Thread, Downloader
<1>b. FlagsOK
  BY DEF Types
<1>1. CASE ParseStart \/ ParseStop
  BY <1>1, <1>a, ReadingReset DEF ParseStart, Goto, ParseStop, Stop
<1>2. ASSUME NEW t \in Downloader, DownloadStart(t) PROVE Reading'
  <2>1. /\ UNCHANGED <<got, handed, left_pkt, left_pkt_tot, ts_buf, cha_sel, fifo, map, str_data>>
        /\ job'["worker"] = job["worker"] /\ pc'["worker"] = pc["worker"]
    BY <1>2, <1>a DEF DownloadStart, Start, Goto, receiving
  <2>2. Start(t) /\ UNCHANGED <<stack_lost, disturbed>>
    BY <1>2, Zenon DEF DownloadStart, Start, receiving
  <2>3. alone'["worker"] => alone["worker"]
    BY <1>a, <1>b, <2>2, StartEffect, Zenon
  <2>4. Undisturbed' => Undisturbed
    BY <2>2, <2>3, Zenon DEF Undisturbed
  <2>5. QED
    BY <2>1, <2>2, <2>3, <2>4, ReadingFrame, Zenon
<1>3. ASSUME NEW t \in Downloader, WriteFill(t) PROVE Reading'
  <2>1. UNCHANGED <<got, handed, left_pkt, left_pkt_tot, ts_buf, cha_sel, fifo, map, alone,
                    stack_lost, disturbed>>
    BY <1>3, Zenon DEF WriteFill, receiving
  <2>2. job'["worker"] = job["worker"] /\ pc'["worker"] = pc["worker"]
    BY <1>3, <1>a DEF WriteFill, Goto
  <2>3. Undisturbed' => Undisturbed
    BY <2>1, Zenon DEF Undisturbed
  <2>4. InLibrary(t)
    BY <1>3, Zenon DEF WriteFill, InLibrary
  <2>5. pc["worker"] = "ioctl" => ~ alone["worker"]
    BY <1>a, <2>4, Zenon DEF Exclusive, InLibrary
  <2>6. QED
    BY <2>1, <2>2, <2>3, <2>5, ReadingFrame, Zenon
<1>4. ASSUME NEW t \in Downloader, WritePidMap(t) PROVE Reading'
  <2>1. /\ UNCHANGED <<got, handed, left_pkt, left_pkt_tot, ts_buf, cha_sel, fifo, alone,
                       stack_lost, str_data, job, pc>>
        /\ disturbed' = TRUE
    BY <1>4, Zenon DEF WritePidMap, library
  <2>2. ~ Undisturbed'
    BY <2>1, Zenon DEF Undisturbed
  <2>3. QED
    BY <2>1, <2>2, ReadingFrame, Zenon
<1>5. ASSUME UNCHANGED <<str_data, left_pkt, left_pkt_tot, ts_buf, got, handed, alone, stack_lost,
                         receiving>>,
             pc'["worker"] = pc["worker"], job'["worker"] = job["worker"]
      PROVE  Reading'
  BY <1>5, ReadingFrame, Zenon DEF receiving, Undisturbed
<1>6. ASSUME NEW t \in Downloader,
             \/ DownloadSiStop(t) \/ WriteIoctl(t) \/ DownloadSiStart(t) \/ DownloadStop(t)
             \/ RateMsb(t) \/ RateLsb(t)
      PROVE  Reading'
  <2>1. UNCHANGED <<str_data, left_pkt, left_pkt_tot, ts_buf, got, handed, alone, stack_lost,
                    receiving>>
    BY <1>6, Zenon DEF DownloadSiStop, WriteIoctl, DownloadSiStart, DownloadStop, Stop,
         RateMsb, RateLsb, library
  <2>2. \E l : pc' = [pc EXCEPT ![t] = l]
    BY <1>6, Zenon DEF DownloadSiStop, WriteIoctl, DownloadSiStart, DownloadStop, Stop,
         RateMsb, RateLsb, Goto
  <2>3. \E j : job' = [job EXCEPT ![t] = j]
    <3>1. job = [job EXCEPT ![t] = job[t]]
      BY <1>a
    <3>2. job' = job \/ \E j : job' = [job EXCEPT ![t] = j]
      BY <1>6, Zenon DEF DownloadSiStop, WriteIoctl, DownloadSiStart, DownloadStop, Stop,
         RateMsb, RateLsb
    <3>3. QED
      BY <3>1, <3>2
  <2>4. pc'["worker"] = pc["worker"] /\ job'["worker"] = job["worker"]
    BY <1>a, <2>2, <2>3
  <2>5. QED
    BY <2>1, <2>4, <1>5, Zenon
<1>7. CASE UNCHANGED vars
  BY <1>7, <1>5, Zenon DEF vars, library
<1>8. QED
  BY <1>1, <1>2, <1>3, <1>4, <1>6, <1>7, SetFilterReads, ReadNextReads, ReadFillReads,
     ReadIoctlReads DEF Next, DownloadStep
-----------------------------------------------------------------------------
(* The SI that is sent *)

\* The groups before i: none, one after the other, all of them.
LEMMA WrittenIs ==
  ASSUME NEW g \in [Howtos -> Seq(Packet)]
  PROVE  /\ Written(g, 0) = <<>>
         /\ Written(g, 1) = <<>>
         /\ Written(g, 2) = g[1]
         /\ Written(g, 3) = g[1] \o g[2]
         /\ Written(g, 4) = g[1] \o g[2] \o g[3]
         /\ Written(g, 5) = g[1] \o g[2] \o g[3] \o g[4]
         /\ Written(g, 6) = g[1] \o g[2] \o g[3] \o g[4] \o g[5]
         /\ Written(g, 7) = g[1] \o g[2] \o g[3] \o g[4] \o g[5] \o g[6]
<1>1. \A h \in Howtos : g[h] \in Seq(Packet)
  OBVIOUS
<1>2. \A s \in Seq(Packet) : s \o <<>> = s /\ <<>> \o s = s
  BY ConcatEmptySeq
<1>3. \A s, u \in Seq(Packet) : s \o u \in Seq(Packet)
  BY ConcatProperties
<1>4. /\ g[1] \in Seq(Packet) /\ g[2] \in Seq(Packet) /\ g[3] \in Seq(Packet)
      /\ g[4] \in Seq(Packet) /\ g[5] \in Seq(Packet) /\ g[6] \in Seq(Packet)
  BY <1>1 DEF Howtos
<1>5. <<>> \in Seq(Packet)
  OBVIOUS
<1> USE DEF Written, Before
<1>6. Written(g, 0) = <<>> /\ Written(g, 1) = <<>>
  BY <1>2, <1>5
<1>7. Written(g, 2) = g[1] /\ Written(g, 3) = g[1] \o g[2]
  BY <1>2, <1>3, <1>4, <1>5
<1>8. Written(g, 4) = g[1] \o g[2] \o g[3] /\ Written(g, 5) = g[1] \o g[2] \o g[3] \o g[4]
  BY <1>2, <1>3, <1>4, <1>5
<1>9. /\ Written(g, 6) = g[1] \o g[2] \o g[3] \o g[4] \o g[5]
      /\ Written(g, 7) = g[1] \o g[2] \o g[3] \o g[4] \o g[5] \o g[6]
  BY <1>2, <1>3, <1>4, <1>5
<1>10. QED
  BY <1>6, <1>7, <1>8, <1>9

\* One group more.
LEMMA WrittenNext ==
  ASSUME NEW g \in [Howtos -> Seq(Packet)], NEW i \in 1..6
  PROVE  Written(g, i + 1) = Written(g, i) \o g[i]
<1>1. g[1] \in Seq(Packet) /\ <<>> \o g[1] = g[1]
  BY ConcatEmptySeq DEF Howtos
<1>2. i \in {1, 2, 3, 4, 5, 6}
  OBVIOUS
<1>3. CASE i = 1
  <2>1. Written(g, 2) = Written(g, 1) \o g[1]
    BY <1>1, WrittenIs
  <2>2. QED
    BY <1>3, <2>1
<1>4. /\ Written(g, 3) = Written(g, 2) \o g[2] /\ Written(g, 4) = Written(g, 3) \o g[3]
      /\ Written(g, 5) = Written(g, 4) \o g[4] /\ Written(g, 6) = Written(g, 5) \o g[5]
      /\ Written(g, 7) = Written(g, 6) \o g[6]
  BY WrittenIs, Zenon
<1>5. CASE i = 2
  <2>1. i + 1 = 3
    BY <1>5
  <2>2. QED
    BY <1>4, <1>5, <2>1, Zenon
<1>6. CASE i = 3
  <2>1. i + 1 = 4
    BY <1>6
  <2>2. QED
    BY <1>4, <1>6, <2>1, Zenon
<1>7. CASE i = 4
  <2>1. i + 1 = 5
    BY <1>7
  <2>2. QED
    BY <1>4, <1>7, <2>1, Zenon
<1>8. CASE i = 5
  <2>1. i + 1 = 6
    BY <1>8
  <2>2. QED
    BY <1>4, <1>8, <2>1, Zenon
<1>9. CASE i = 6
  <2>1. i + 1 = 7
    BY <1>9
  <2>2. QED
    BY <1>4, <1>9, <2>1, Zenon
<1>10. QED
  BY <1>2, <1>3, <1>5, <1>6, <1>7, <1>8, <1>9

\* Empty groups are passed over.
LEMMA WrittenSkip ==
  ASSUME NEW g \in [Howtos -> Seq(Packet)], NEW i \in 0..7, NEW h \in 0..7, i <= h,
         \A j \in i..6 : j < h => g[j] = <<>>
  PROVE  Written(g, h) = Written(g, i)
<1>1. \A k \in 1..6 : Before(g, h, k) = Before(g, i, k)
  BY DEF Before
<1>2. QED
  BY <1>1, SMTT(60) DEF Written

\* They are packets.
LEMMA WrittenType ==
  ASSUME NEW g \in [Howtos -> Seq(Packet)], NEW i \in 0..7
  PROVE  Written(g, i) \in Seq(Packet)
<1>1. \A k \in 1..6 : Before(g, i, k) \in Seq(Packet)
  <2>1. \A k \in 1..6 : g[k] \in Seq(Packet)
    BY DEF Howtos
  <2>2. <<>> \in Seq(Packet)
    OBVIOUS
  <2>3. QED
    BY <2>1, <2>2 DEF Before
<1>2. \A s, u \in Seq(Packet) : s \o u \in Seq(Packet)
  BY ConcatProperties
<1>3. /\ Before(g, i, 1) \in Seq(Packet) /\ Before(g, i, 2) \in Seq(Packet)
      /\ Before(g, i, 3) \in Seq(Packet) /\ Before(g, i, 4) \in Seq(Packet)
      /\ Before(g, i, 5) \in Seq(Packet) /\ Before(g, i, 6) \in Seq(Packet)
  BY <1>1
<1>4. QED
  BY <1>2, <1>3, Zenon DEF Written

\* Passing over empty groups changes neither memory nor offsets.
LEMMA LoadedSkip ==
  ASSUME NEW g \in [Howtos -> Seq(Packet)], NEW i \in 0..7, NEW h \in 0..7, i <= h,
         \A j \in i..6 : j < h => g[j] = <<>>, Loaded(g, i)
  PROVE  Loaded(g, h)
<1>1. Written(g, h) = Written(g, i)
  BY WrittenSkip
<1>2. i = 0 /\ h > 0 => Len(g[0]) = 0
  <2>1. i = 0 /\ h > 0 => g[0] = <<>>
    OBVIOUS
  <2>2. QED
    BY <2>1
<1>3. QED
  BY <1>1, <1>2 DEF Loaded, Held

\* The next group goes behind the ones that are there.
LEMMA LoadedNext ==
  ASSUME SendingOK, NEW g \in [Howtos -> Seq(Packet)], NEW i \in Howtos, Loaded(g, i),
         write_hfpga_str_data(i, g[i])
  PROVE  Loaded(g, i + 1)' /\ si' = si
<1>1. /\ ram \in Seq(Packet) /\ cur_40ms_offset \in Nat /\ cur_2s_offset \in Nat
      /\ Area40ms \in Nat /\ i \in Nat /\ g[i] \in Seq(Packet) /\ g[0] \in Seq(Packet)
  <2>1. 0 \in Howtos /\ i \in Nat
    BY DEF Howtos
  <2>2. QED
    BY <2>1, Constants DEF SendingOK
<1>2. si' = si
  BY DEF write_hfpga_str_data
<1>3. CASE i = 0
  <2>1. /\ ram' = WriteRam(ram, 0, g[0]) /\ cur_40ms_offset' = Len(g[0])
        /\ cur_2s_offset' = cur_2s_offset
    BY <1>1, <1>3 DEF write_hfpga_str_data, Loaded
  <2>2. Written(g, 0) = <<>> /\ Written(g, 1) = <<>>
    BY WrittenIs
  <2>3. \A k \in 1..Len(g[0]) : k <= Len(ram') /\ ram'[k] = g[0][k]
    <3>1. PICK z \in Nat : z = 0
      OBVIOUS
    <3>2. \A k \in 1..Len(g[0]) : /\ z + k <= Len(WriteRam(ram, z, g[0]))
                                   /\ WriteRam(ram, z, g[0])[z + k] = g[0][k]
      BY <1>1, WriteRamIs
    <3>3. QED
      BY <1>1, <2>1, <3>1, <3>2, SMTT(60)
  <2>4. Loaded(g, 1)'
    BY <1>3, <2>1, <2>2, <2>3 DEF Loaded, Held
  <2>5. QED
    BY <1>2, <1>3, <2>4
<1>4. CASE i # 0
  <2> DEFINE w == Written(g, i)
             pos == Area40ms + Len(w)
  <2>1. i \in 1..6 /\ w \in Seq(Packet) /\ Len(w) \in Nat /\ Len(g[i]) \in Nat
    <3>1. i \in 1..6 /\ i \in 0..7
      BY <1>4 DEF Howtos
    <3>2. w \in Seq(Packet)
      BY <3>1, WrittenType, Zenon
    <3> HIDE DEF w
    <3>3. Len(w) \in Nat /\ Len(g[i]) \in Nat
      BY <1>1, <3>2, LenProperties, Zenon
    <3>4. QED
      BY <3>1, <3>2, <3>3, Zenon
  <2>2. Written(g, i + 1) = w \o g[i]
    BY <2>1, WrittenNext
  <2>3. /\ ram' = WriteRam(ram, pos, g[i]) /\ cur_40ms_offset' = Len(g[0])
        /\ cur_2s_offset' = pos + Len(g[i])
    <3>1. cur_40ms_offset = Len(g[0]) /\ cur_2s_offset = pos
      BY <2>1 DEF Loaded
    <3> HIDE DEF w
    <3>2. QED
      BY <1>4, <3>1 DEF write_hfpga_str_data
  <2>4. /\ \A k \in 1..Len(w) : Area40ms + k <= Len(ram) /\ ram[Area40ms + k] = w[k]
        /\ Len(g[0]) <= Area40ms =>
             \A k \in 1..Len(g[0]) : k <= Len(ram) /\ ram[k] = g[0][k]
    BY <2>1 DEF Loaded, Held
  <2> HIDE DEF w
  <2>5. /\ Len(ram) \in Nat /\ Len(ram') \in Nat /\ Len(ram') >= Len(ram)
        /\ \A k \in 1..Len(ram) : k <= pos => ram'[k] = ram[k]
        /\ \A k \in 1..Len(g[i]) : pos + k <= Len(ram') /\ ram'[pos + k] = g[i][k]
    <3>1. pos \in Nat
      BY <1>1, <2>1
    <3> HIDE DEF pos
    <3>2. QED
      BY <1>1, <2>3, <3>1, WriteRamIs
  <2>6. /\ Len(w \o g[i]) = Len(w) + Len(g[i])
        /\ \A k \in 1..(Len(w) + Len(g[i])) :
             (w \o g[i])[k] = IF k <= Len(w) THEN w[k] ELSE g[i][k - Len(w)]
    BY <1>1, <2>1, ConcatProperties
  <2>7. ASSUME NEW k \in 1..(Len(w) + Len(g[i]))
        PROVE  Area40ms + k <= Len(ram') /\ ram'[Area40ms + k] = (w \o g[i])[k]
    <3>1. CASE k <= Len(w)
      BY <1>1, <2>1, <2>4, <2>5, <2>6, <3>1
    <3>2. CASE k > Len(w)
      <4>1. k - Len(w) \in 1..Len(g[i]) /\ pos + (k - Len(w)) = Area40ms + k
        BY <1>1, <2>1, <3>2
      <4>2. (w \o g[i])[k] = g[i][k - Len(w)]
        BY <2>1, <2>6, <3>2
      <4> HIDE DEF pos
      <4>3. QED
        BY <2>5, <4>1, <4>2
    <3>3. QED
      BY <2>1, <3>1, <3>2
  <2>8. Len(g[0]) <= Area40ms => \A k \in 1..Len(g[0]) : k <= Len(ram') /\ ram'[k] = g[0][k]
    <3>1. SUFFICES ASSUME Len(g[0]) <= Area40ms, NEW k \in 1..Len(g[0])
                   PROVE  k <= Len(ram') /\ ram'[k] = g[0][k]
      OBVIOUS
    <3>2. k \in 1..Len(ram) /\ k <= pos /\ ram[k] = g[0][k]
      BY <1>1, <2>1, <2>4, <2>5, <3>1
    <3>3. QED
      BY <2>5, <3>2
  <2>9. Loaded(g, i + 1)'
    <3>1. Held(g, i + 1)'
      BY <1>1, <2>1, <2>2, <2>6, <2>7, <2>8 DEF Held
    <3>2. QED
      <4>1. cur_2s_offset' = Area40ms + (Len(w) + Len(g[i])) /\ i + 1 > 0
        BY <1>1, <2>1, <2>3
      <4>2. QED
        BY <2>2, <2>3, <2>6, <3>1, <4>1 DEF Loaded
  <2>10. QED
    BY <1>2, <2>9
<1>5. QED
  BY <1>3, <1>4

\* Nobody else writes while the SI of a download that was alone is in the memory.
LEMMA OnlyWriter ==
  ASSUME Types, Exclusive, Downloading, NEW t \in Downloader, pc[t] \in {"write", "ioctl"},
         NEW u \in Downloader, u # t, want.by = u, alone[u]
  PROVE  pc[u] = "si_stop"
<1>1. CASE pc[u] \in {"write", "ioctl"}
  <2>1. InLibrary(t) /\ InLibrary(u)
    BY <1>1, Zenon DEF InLibrary
  <2>2. QED
    BY <2>1, Zenon DEF Exclusive, Thread
<1>2. CASE pc[u] \in {"idle", "lsb", "close"}
  BY <1>2, Zenon DEF Downloading, Complete
<1>3. pc[u] \in DownloadPc
  BY DEF Types, ThreadsOK
<1>4. QED
  BY <1>1, <1>2, <1>3 DEF DownloadPc

\* Steps that change neither the memory nor the registers of SI.
LEMMA DownloadingFrame ==
  ASSUME Downloading, UNCHANGED <<sending, want>>,
         \A t \in Downloader : alone'[t] => alone[t],
         \A t \in Downloader : alone'[t] /\ pc'[t] \in {"write", "ioctl"} =>
            /\ pc'[t] = pc[t] /\ job'[t] = job[t]
            /\ pc[t] = "ioctl" => str_data' = str_data,
         \A t \in Downloader :
            pc'[t] \in {"idle", "lsb", "close"} => pc[t] \in {"idle", "lsb", "close"},
         \A t \in Downloader : pc'[t] \in {"write", "ioctl"} => pc[t] \in {"write", "ioctl"}
  PROVE  Downloading'
<1>1. SUFFICES ASSUME NEW t \in Downloader, want'.by = t, alone'[t]
               PROVE  /\ pc'[t] \in {"write", "ioctl"} => InProgress(t)'
                      /\ pc'[t] \in {"idle", "lsb", "close"} => Complete'
  BY Zenon DEF Downloading
<1>2. want' = want /\ ram' = ram /\ si' = si
      /\ cur_40ms_offset' = cur_40ms_offset /\ cur_2s_offset' = cur_2s_offset
  BY Zenon DEF sending
<1>3. want.by = t /\ alone[t]
  BY <1>1, <1>2, Zenon
<1>4. ASSUME pc'[t] \in {"write", "ioctl"} PROVE InProgress(t)'
  <2>1. InProgress(t) /\ pc'[t] = pc[t] /\ job'[t] = job[t]
    BY <1>1, <1>3, <1>4, Zenon DEF Downloading
  <2>2. Loaded(want.groups, job[t].i)'
    BY <1>2, <2>1, Zenon DEF InProgress, Loaded, Held
  <2>3. QED
    BY <1>1, <1>2, <1>4, <2>1, <2>2, Zenon DEF InProgress
<1>5. ASSUME pc'[t] \in {"idle", "lsb", "close"} PROVE Complete'
  <2>1. Complete
    BY <1>3, <1>5, Zenon DEF Downloading
  <2>2. Held(want.groups, 7)'
    BY <1>2, <2>1, Zenon DEF Complete, Held
  <2>3. QED
    BY <1>2, <2>1, <2>2, Zenon DEF Complete
<1>6. QED
  BY <1>4, <1>5

\* A download that writes: what is known of its own thread is known of all.
LEMMA WriterStep ==
  ASSUME Types, Exclusive, Downloading, NEW t \in Downloader, pc[t] \in {"write", "ioctl"},
         NEW l, pc' = [pc EXCEPT ![t] = l], UNCHANGED <<want, alone>>,
         want.by = t /\ alone[t] =>
           /\ l \in {"write", "ioctl"} => InProgress(t)'
           /\ l \in {"idle", "lsb", "close"} => Complete'
  PROVE  Downloading'
<1>1. pc'[t] = l /\ \A u \in Downloader \ {t} : pc'[u] = pc[u]
  BY DEF Types, ThreadsOK, Thread
<1>2. SUFFICES ASSUME NEW u \in Downloader, want.by = u, alone[u]
               PROVE  /\ pc'[u] \in {"write", "ioctl"} => InProgress(u)'
                      /\ pc'[u] \in {"idle", "lsb", "close"} => Complete'
  BY Zenon DEF Downloading
<1>3. CASE u = t
  BY <1>1, <1>2, <1>3, Zenon
<1>4. CASE u # t
  <2>1. pc[u] = "si_stop"
    BY <1>2, <1>4, OnlyWriter
  <2>2. QED
    BY <1>1, <1>4, <2>1
<1>5. QED
  BY <1>3, <1>4

\* The step of the loop to the next group.
LEMMA WriteFillLoads ==
  ASSUME Types, Exclusive, Downloading, NEW t \in Downloader, WriteFill(t)
  PROVE  Downloading'
<1>1. pc[t] = "write" /\ pc' = [pc EXCEPT ![t] = "ioctl"]
  BY DEF WriteFill, Goto
<1>2. UNCHANGED <<want, alone, sending>>
  BY Zenon DEF WriteFill
<1>3. job[t] \in DownloadJob /\ t \in Thread
      /\ job \in [Thread -> WorkerJob \cup DownloadJob \cup {<<>>}]
  BY <1>1 DEF Types, ThreadsOK, Thread
<1>4. PICK h \in Left(t) :
        /\ \A g \in Left(t) : h <= g
        /\ job' = [job EXCEPT ![t].i = h]
        /\ str_data' = [str_data EXCEPT !.by = t, !.addr = h, !.data = job[t].groups[h]]
  BY DEF WriteFill
<1>5. /\ job[t].i \in 0..7 /\ h \in job[t].i..6 /\ h \in 0..7
      /\ job[t].groups \in [Howtos -> Seq(Packet)]
  <2>1. job[t].i \in 0..7 /\ job[t].groups \in [Howtos -> Seq(Packet)] /\ h \in job[t].i..6
    BY <1>3 DEF DownloadJob, Left
  <2>2. \A a \in 0..7 : \A b \in a..6 : b \in 0..7
    OBVIOUS
  <2>3. QED
    BY <2>1, <2>2
<1>6. job'[t].i = h /\ job'[t].groups = job[t].groups
  <2>1. job'[t] = [job[t] EXCEPT !.i = h]
    BY <1>3, <1>4
  <2>2. QED
    BY <1>3, <2>1 DEF DownloadJob
<1>7. str_data'.addr = h /\ str_data'.data = job[t].groups[h]
  BY <1>4 DEF Types, LibraryOK, Request
<1>8. ASSUME want.by = t, alone[t] PROVE InProgress(t)'
  <2>1. InProgress(t)
    BY <1>1, <1>8, Zenon DEF Downloading
  <2>2. \A j \in job[t].i..6 : j < h => want.groups[j] = <<>>
    <3>1. \A j \in job[t].i..6 : j < h => j \notin Left(t)
      BY <1>4, <1>5
    <3>2. QED
      BY <2>1, <3>1 DEF Left, InProgress
  <2>3. Loaded(want.groups, job[t].i) /\ want.groups = job[t].groups
    BY <2>1 DEF InProgress
  <2>4. Loaded(want.groups, h)
    <3>1. job[t].i <= h
      BY <1>5
    <3>2. QED
      BY <1>5, <2>2, <2>3, <3>1, LoadedSkip
  <2>5. Loaded(want.groups, h)' /\ want' = want /\ si' = si
    BY <1>2, <2>4, Zenon DEF Loaded, Held, sending
  <2>6. Loaded(want.groups, job[t].i)'
    BY <1>6, <2>5
  <2>7. QED
    BY <1>6, <1>7, <2>1, <2>3, <2>5, <2>6, Zenon DEF InProgress
<1>9. QED
  BY <1>1, <1>2, <1>8, WriterStep

\* The write of a group.
LEMMA WriteIoctlLoads ==
  ASSUME Types, Exclusive, Downloading, NEW t \in Downloader, WriteIoctl(t)
  PROVE  Downloading'
<1>1. /\ pc[t] = "ioctl" /\ pc' = [pc EXCEPT ![t] = "write"]
      /\ job' = [job EXCEPT ![t].i = @ + 1]
  BY DEF WriteIoctl, Goto
<1>2. UNCHANGED <<want, alone>>
  BY Zenon DEF WriteIoctl, library
<1>3. job[t] \in DownloadJob /\ t \in Thread /\ job[t].i \in Howtos
      /\ job \in [Thread -> WorkerJob \cup DownloadJob \cup {<<>>}]
      /\ pc \in [Thread -> WorkerPc \cup DownloadPc]
  BY <1>1 DEF Types, ThreadsOK, Thread
<1>4. job'[t].i = job[t].i + 1 /\ job'[t].groups = job[t].groups /\ pc'[t] = "write"
  <2>1. job'[t] = [job[t] EXCEPT !.i = job[t].i + 1] /\ pc'[t] = "write"
    BY <1>1, <1>3
  <2>2. job[t].i + 1 \in 0..7
    BY <1>3 DEF Howtos
  <2>3. QED
    BY <1>3, <2>1, <2>2 DEF DownloadJob
<1>5. ASSUME want.by = t, alone[t] PROVE InProgress(t)'
  <2>1. InProgress(t)
    BY <1>1, <1>5, Zenon DEF Downloading
  <2>2. InLibrary(t)
    BY <1>1, Zenon DEF InLibrary
  <2>3. hdev
    BY <1>3, <1>5, <2>2, Zenon DEF Exclusive
  <2>4. write_hfpga_str_data(str_data.addr, str_data.data)
    BY <2>3, Zenon DEF WriteIoctl
  <2>5. str_data.addr = job[t].i /\ str_data.data = want.groups[job[t].i]
    BY <1>1, <2>1 DEF InProgress
  <2>6. Loaded(want.groups, job[t].i) /\ want.groups = job[t].groups
    BY <2>1 DEF InProgress
  <2>7. want.groups \in [Howtos -> Seq(Packet)] /\ SendingOK
    BY DEF Types, SendingOK
  <2>8. write_hfpga_str_data(job[t].i, want.groups[job[t].i])
    BY <2>4, <2>5, Zenon
  <2>9. PICK g \in [Howtos -> Seq(Packet)], i \in Howtos : g = want.groups /\ i = job[t].i
    BY <1>3, <2>7
  <2>10. Loaded(g, i + 1)' /\ si' = si
    BY <2>6, <2>7, <2>8, <2>9, LoadedNext
  <2>11. want'.groups = g /\ job'[t].i = i + 1 /\ job'[t].groups = g
    BY <1>2, <1>4, <2>6, <2>9
  <2>12. Loaded(want.groups, job[t].i)'
    BY <2>10, <2>11
  <2>13. QED
    BY <1>4, <2>1, <2>10, <2>11, <2>12, Zenon DEF InProgress
<1>6. QED
  BY <1>1, <1>2, <1>5, WriterStep

\* The end of the loop.
LEMMA SiStartLoads ==
  ASSUME Types, Exclusive, Downloading, NEW t \in Downloader, DownloadSiStart(t)
  PROVE  Downloading'
<1>1. pc[t] = "write" /\ pc' = [pc EXCEPT ![t] = "close"] /\ Left(t) = {}
  BY DEF DownloadSiStart, Goto
<1>2. UNCHANGED <<want, alone>>
  BY Zenon DEF DownloadSiStart, library
<1>3. job[t] \in DownloadJob /\ t \in Thread /\ Downloader \subseteq Thread
      /\ pc \in [Thread -> WorkerPc \cup DownloadPc]
  BY <1>1 DEF Types, ThreadsOK, Thread
<1>4. ASSUME want.by = t, alone[t] PROVE Complete'
  <2>1. InProgress(t)
    BY <1>1, <1>4, Zenon DEF Downloading
  <2>2. InLibrary(t)
    BY <1>1, Zenon DEF InLibrary
  <2>3. hdev /\ \A u \in Thread \ {t} : ~ InLibrary(u)
    BY <1>3, <1>4, <2>2, Zenon DEF Exclusive
  <2>4. SiStart
    BY <2>3, Zenon DEF DownloadSiStart
  <2>5. job[t].i \in 0..7 /\ want.groups \in [Howtos -> Seq(Packet)]
    BY <1>3 DEF DownloadJob, Types, SendingOK
  <2>6. Loaded(want.groups, job[t].i) /\ want.groups = job[t].groups
    BY <2>1 DEF InProgress
  <2>7. \A j \in job[t].i..6 : want.groups[j] = <<>>
    BY <1>1, <2>6 DEF Left
  <2>8. Loaded(want.groups, 7)
    <3>1. job[t].i <= 7
      BY <2>5
    <3>2. QED
      BY <2>5, <2>6, <2>7, <3>1, LoadedSkip, SMTT(60)
  <2>9. /\ cur_40ms_offset = Len(want.groups[0])
        /\ cur_2s_offset - Area40ms = Len(Written(want.groups, 7))
    <3>1. Written(want.groups, 7) \in Seq(Packet)
      BY <2>5, WrittenType
    <3>2. Len(Written(want.groups, 7)) \in Nat
      BY <3>1
    <3>3. QED
      BY <2>8, <3>2, Constants DEF Loaded
  <2>10. /\ si'.len40 = LenReg(cur_40ms_offset)
         /\ si'.len2s = LenReg(cur_2s_offset - Area40ms) /\ ram' = ram
    BY <2>4 DEF SiStart
  <2>11. Held(want.groups, 7)'
    BY <1>2, <2>8, <2>10, Zenon DEF Loaded, Held
  <2>12. \A u \in Downloader : pc'[u] \notin {"write", "ioctl"}
    <3>1. \A u \in Downloader \ {t} : pc[u] \notin {"write", "ioctl"}
      BY <1>3, <2>3 DEF InLibrary
    <3>2. QED
      BY <1>1, <1>3, <3>1
  <2>13. QED
    BY <1>2, <2>9, <2>10, <2>11, <2>12, Zenon DEF Complete
<1>5. QED
  BY <1>1, <1>2, <1>4, WriterStep

\* HFPGA_CMD_SI_STOP of a download.
LEMMA SiStopLoads ==
  ASSUME Types, Exclusive, Downloading, NEW t \in Downloader, DownloadSiStop(t)
  PROVE  Downloading'
<1>1. /\ pc[t] = "si_stop" /\ pc' = [pc EXCEPT ![t] = "write"] /\ job' = job
      /\ want' = [by |-> t, groups |-> job[t].groups]
  BY DEF DownloadSiStop, Goto
<1>2. alone' = alone
  BY Zenon DEF DownloadSiStop, library
<1>3. t \in Thread /\ pc'[t] = "write" /\ want'.by = t /\ want'.groups = job[t].groups
      /\ job[t].i = 0 /\ job[t].groups \in [Howtos -> Seq(Packet)]
  BY <1>1 DEF Types, ThreadsOK, Thread, DownloadJob
<1>4. ASSUME alone[t] PROVE InProgress(t)'
  <2>1. InLibrary(t)
    BY <1>1, Zenon DEF InLibrary
  <2>2. hdev
    BY <1>3, <1>4, <2>1, Zenon DEF Exclusive
  <2>3. SiStop
    BY <2>2, Zenon DEF DownloadSiStop
  <2>4. cur_40ms_offset' = 0 /\ cur_2s_offset' = Area40ms
    BY <2>3 DEF SiStop
  <2>5. si'.ss = FALSE
    BY <2>3 DEF SiStop, Types, SendingOK
  <2>6. Written(job[t].groups, 0) = <<>>
    BY <1>3, WrittenIs
  <2>7. Loaded(want.groups, job[t].i)'
    <3>1. want'.groups = job[t].groups /\ job'[t].i = 0
      BY <1>1, <1>3
    <3>2. \A g \in [Howtos -> Seq(Packet)] : Written(g, 0) = <<>> => Loaded(g, 0)'
      BY <2>4, Constants DEF Loaded, Held
    <3>3. QED
      BY <1>3, <2>6, <3>1, <3>2
  <2>8. QED
    BY <1>1, <1>3, <2>5, <2>7, Zenon DEF InProgress
<1>5. QED
  BY <1>2, <1>3, <1>4, Zenon DEF Downloading

\* Every step keeps what is known of the download whose SI is sent.
LEMMA DownloadingStep ==
  ASSUME Types, Exclusive, Downloading, [Next]_vars
  PROVE  Downloading'
<1>a. /\ pc \in [Thread -> WorkerPc \cup DownloadPc] /\ "worker" \in Thread
      /\ job \in [Thread -> WorkerJob \cup DownloadJob \cup {<<>>}]
      /\ "worker" \notin Downloader /\ Downloader \subseteq Thread /\ FlagsOK
  BY DEF Types, ThreadsOK, Thread, Downloader
<1>1. ASSUME NEW t \in Thread, Start(t),
             UNCHANGED <<sending, want>>, NEW l \in {"parse", "si_stop"},
             pc' = [pc EXCEPT ![t] = l], \E j : job' = [job EXCEPT ![t] = j]
      PROVE  Downloading'
  <2>1. pc[t] = "idle" /\ \A u \in Thread : alone'[u] => alone[u] \/ u = t
    BY <1>1, <1>a, StartEffect, Zenon
  <2>2. pc'[t] = l /\ \A u \in Thread \ {t} : pc'[u] = pc[u] /\ job'[u] = job[u]
    BY <1>1, <1>a
  <2>3. str_data' = str_data
    BY <1>1 DEF Start
  <2>4. CASE t \in Downloader
    <3>1. pc'[t] = "parse" \/ pc'[t] = "si_stop"
      BY <1>1, <2>2
    <3>2. SUFFICES ASSUME NEW u \in Downloader, want'.by = u, alone'[u]
                   PROVE  /\ pc'[u] \in {"write", "ioctl"} => InProgress(u)'
                          /\ pc'[u] \in {"idle", "lsb", "close"} => Complete'
      BY Zenon DEF Downloading
    <3>3. CASE u = t
      BY <3>1, <3>3
    <3>4. CASE u # t
      <4>1. alone[u] /\ want.by = u /\ pc'[u] = pc[u] /\ job'[u] = job[u]
        BY <1>1, <1>a, <2>1, <2>2, <3>2, <3>4, Zenon
      <4>2. /\ ram' = ram /\ si' = si /\ want' = want
            /\ cur_40ms_offset' = cur_40ms_offset /\ cur_2s_offset' = cur_2s_offset
        BY <1>1, Zenon DEF sending
      <4>3. ASSUME pc'[u] \in {"write", "ioctl"} PROVE InProgress(u)'
        <5>1. InProgress(u)
          BY <4>1, <4>3, Zenon DEF Downloading
        <5>2. Loaded(want.groups, job[u].i)'
          <6>1. Loaded(want.groups, job[u].i)
            BY <5>1 DEF InProgress
          <6>2. want'.groups = want.groups /\ job'[u].i = job[u].i
            BY <4>1, <4>2
          <6>3. QED
            BY <4>2, <6>1, <6>2 DEF Loaded, Held
        <5>3. QED
          BY <2>3, <4>1, <4>2, <5>1, <5>2, Zenon DEF InProgress
      <4>4. ASSUME pc'[u] \in {"idle", "lsb", "close"} PROVE Complete'
        <5>1. Complete
          BY <4>1, <4>4, Zenon DEF Downloading
        <5>2. Held(want.groups, 7)'
          BY <4>2, <5>1, Zenon DEF Complete, Held
        <5>3. \A v \in Downloader : pc'[v] \notin {"write", "ioctl"}
          BY <1>a, <2>2, <3>1, <5>1 DEF Complete
        <5>4. QED
          BY <4>2, <5>1, <5>2, <5>3, Zenon DEF Complete
      <4>5. QED
        BY <4>3, <4>4
    <3>5. QED
      BY <3>3, <3>4
  <2>5. CASE t \notin Downloader
    <3>1. \A u \in Downloader : /\ u # t /\ pc'[u] = pc[u] /\ job'[u] = job[u]
                                /\ (alone'[u] => alone[u])
      BY <1>a, <2>1, <2>2, <2>5, Zenon
    <3>2. QED
      BY <1>1, <2>3, <3>1, DownloadingFrame, Zenon
  <2>6. QED
    BY <2>4, <2>5
<1>2. CASE ParseStart
  BY <1>2, <1>a, <1>1 DEF ParseStart, Goto
<1>3. ASSUME NEW t \in Downloader, DownloadStart(t) PROVE Downloading'
  BY <1>3, <1>a, <1>1 DEF DownloadStart, Goto
<1>4. CASE ReadFill
  <2>1. UNCHANGED <<sending, want, alone, job>> /\ InLibrary("worker")
    BY <1>4, Zenon DEF ReadFill, InLibrary
  <2>2. \A u \in Downloader : pc'[u] = pc[u]
    BY <1>4, <1>a DEF ReadFill, Goto
  <2>3. \A u \in Downloader : alone[u] => ~ InLibrary(u)
    BY <1>a, <2>1, Zenon DEF Exclusive
  <2>4. \A u \in Downloader : alone[u] => pc[u] \notin {"write", "ioctl"}
    BY <2>3, Zenon DEF InLibrary
  <2>5. QED
    BY <2>1, <2>2, <2>4, DownloadingFrame, Zenon
<1>5. ASSUME ParseStop \/ SetFilter \/ ReadNext \/ ReadIoctl PROVE Downloading'
  <2>1. UNCHANGED <<sending, want, alone>>
    BY <1>5, Zenon DEF ParseStop, Stop, SetFilter, ReadNext, ReadIoctl
  <2>2. pc' = pc \/ \E l : pc' = [pc EXCEPT !["worker"] = l]
    BY <1>5, Zenon DEF ParseStop, Stop, SetFilter, ReadNext, ReadIoctl, Goto
  <2>3. job' = job \/ \E j : job' = [job EXCEPT !["worker"] = j]
    BY <1>5 DEF ParseStop, Stop, SetFilter, ReadNext, ReadIoctl
  <2>4. \A u \in Downloader : pc'[u] = pc[u] /\ job'[u] = job[u]
    BY <1>a, <2>2, <2>3
  <2>5. CASE str_data' = str_data
    BY <2>1, <2>4, <2>5, DownloadingFrame, Zenon
  <2>6. CASE ReadIoctl
    <3>1. InLibrary("worker")
      BY <2>6, Zenon DEF ReadIoctl, InLibrary
    <3>2. \A u \in Downloader : alone[u] => ~ InLibrary(u)
      BY <1>a, <3>1, Zenon DEF Exclusive
    <3>3. \A u \in Downloader : alone[u] => pc[u] \notin {"write", "ioctl"}
      BY <3>2, Zenon DEF InLibrary
    <3>4. QED
      BY <2>1, <2>4, <3>3, DownloadingFrame, Zenon
  <2>7. QED
    BY <1>5, <2>5, <2>6, Zenon DEF ParseStop, Stop, SetFilter, ReadNext
<1>6. ASSUME NEW t \in Downloader,
             DownloadStop(t) \/ WritePidMap(t) \/ RateMsb(t) \/ RateLsb(t)
      PROVE  Downloading'
  <2>1. UNCHANGED <<sending, want, alone, str_data>>
    BY <1>6, Zenon DEF DownloadStop, Stop, WritePidMap, RateMsb, RateLsb, library
  <2>2. \/ UNCHANGED <<pc, job>>
        \/ /\ pc[t] \in {"idle", "lsb", "close"}
           /\ \E l \in {"idle", "lsb"} : pc' = [pc EXCEPT ![t] = l]
           /\ job' = job \/ \E j : job' = [job EXCEPT ![t] = j]
    BY <1>6, Zenon DEF DownloadStop, Stop, WritePidMap, RateMsb, RateLsb, Goto
  <2>3. \A u \in Downloader :
          \/ pc'[u] = pc[u] /\ job'[u] = job[u]
          \/ pc[u] \in {"idle", "lsb", "close"} /\ pc'[u] \in {"idle", "lsb"}
    BY <1>a, <2>2
  <2>4. \A u \in Downloader : /\ pc'[u] \in {"write", "ioctl"} =>
                                   pc'[u] = pc[u] /\ job'[u] = job[u]
                              /\ pc'[u] \in {"idle", "lsb", "close"} =>
                                   pc[u] \in {"idle", "lsb", "close"}
    BY <2>3
  <2>5. QED
    BY <2>1, <2>4, DownloadingFrame, Zenon
<1>7. CASE UNCHANGED vars
  BY <1>7, DownloadingFrame, Zenon DEF vars, library
<1>8. QED
  BY <1>2, <1>3, <1>4, <1>5, <1>6, <1>7, WriteFillLoads, WriteIoctlLoads, SiStartLoads,
     SiStopLoads DEF Next, DownloadStep
-----------------------------------------------------------------------------
(* The theorems *)

\* The initial state.
LEMMA InitInv == ASSUME Init PROVE IInv
<1>a. "worker" \in Thread /\ "agent" \in Thread /\ "agent" \in Downloader
  BY DEF Thread, Downloader
<1>b. <<>> \in Seq(Packet) /\ Len(<<>>) = 0
  OBVIOUS
<1>1. LibraryOK
  <2>1. str_data \in Request
    BY <1>a, <1>b DEF Init, Request
  <2>2. QED
    BY <2>1, <1>a, <1>b, Constants DEF Init, LibraryOK
<1>2. SendingOK
  <2>1. [h \in Howtos |-> <<>>] \in [Howtos -> Seq(Packet)]
    BY <1>b
  <2>2. want \in [by : Downloader, groups : [Howtos -> Seq(Packet)]]
    BY <2>1, <1>a DEF Init
  <2>3. QED
    BY <2>2, <1>b, Constants DEF Init, SendingOK
<1>3. ReceivingOK /\ MapIsApplied
  BY HostFpgaAssumption DEF Init, ReceivingOK, MapIsApplied
<1>4. RateOK
  BY HostFpgaAssumption DEF Init, RateOK
<1>5. ThreadsOK
  BY <1>a, Constants DEF Init, ThreadsOK, WorkerPc, DownloadPc, Thread
<1>6. FlagsOK
  BY Zenon DEF Init, FlagsOK
<1>7. \A t \in Thread : pc[t] = "idle"
  BY DEF Init
<1>8. Exclusive
  BY <1>7, Zenon DEF Exclusive, InLibrary
<1>9. RateKept
  <2>1. rate = asked /\ \A t \in Thread : pc[t] # "lsb"
    BY <1>7 DEF Init
  <2>2. QED
    BY <2>1, Zenon DEF RateKept
<1>10. Reading
  <2>1. pc["worker"] = "idle" /\ ~ InTable /\ got = Garbage /\ handed = 0 /\ ~ (handed > 0)
    BY <1>7, <1>a DEF InTable, Init
  <2>2. pc["worker"] \notin {"fill", "ioctl"}
    BY <2>1
  <2>3. QED
    BY <2>1, <2>2, Zenon DEF Reading, ReadPhase, Requested, Filtered, Streaming, ReadIsOwn,
         ReadInOrder
<1>11. Downloading
  <2>1. \A t \in Downloader : pc[t] = "idle"
    BY <1>7 DEF Thread
  <2>2. want.groups = [h \in Howtos |-> <<>>] /\ 0 \in Howtos
    BY DEF Init, Howtos
  <2>3. Written(want.groups, 7) = <<>>
    <3>1. \A j \in 0..6 : want.groups[j] = <<>>
      BY <2>2 DEF Howtos
    <3>2. want.groups \in [Howtos -> Seq(Packet)]
      BY <1>2 DEF SendingOK
    <3>3. Written(want.groups, 7) = Written(want.groups, 0)
      BY <3>1, <3>2, WrittenSkip
    <3>4. QED
      BY <3>2, <3>3, WrittenIs
  <2>4. Len(want.groups[0]) = 0 /\ Len(Written(want.groups, 7)) = 0
    BY <2>2, <2>3, <1>b
  <2>5. Complete
    BY <2>1, <2>4 DEF Init, Complete, Held, LenReg
  <2>6. QED
    BY <2>1, <2>5 DEF Downloading
<1>12. QED
  BY <1>1, <1>2, <1>3, <1>4, <1>5, <1>6, <1>8, <1>9, <1>10, <1>11 DEF IInv, Types

\* The invariant of the FPGA, its driver and the threads that use it.
THEOREM Inductive == Spec => []IInv
<1>1. Init => IInv
  BY InitInv
<1>2. IInv /\ [Next]_vars => IInv'
  BY TypesStep, ExclusiveStep, ReceivingStep, RateStep, ReadingStep, DownloadingStep DEF IInv
<1>3. QED
  BY <1>1, <1>2, PTL DEF Spec

\* The FPGA keeps the pid map and the rate that were set last, whatever is read
\* and downloaded meanwhile (hfpga_write_pid_map, hfpga_write_sys_output_bitrate).
THEOREM SettingsStay == Spec => []SettingsApplied
<1>1. IInv => SettingsApplied
  <2> SUFFICES ASSUME IInv PROVE SettingsApplied
    OBVIOUS
  <2>1. TypeOK
    <3>1. /\ str_data.by \in Thread /\ str_data.addr \in Nat
          /\ left_pkt_tot \in Nat /\ left_pkt \in 0..left_pkt_tot
          /\ Len(ts_buf) = left_pkt_tot
          /\ cur_40ms_offset \in Nat /\ cur_2s_offset \in Nat
          /\ DOMAIN map = Channels /\ cha_sel \in Nat /\ fifo \in Nat
          /\ {si.len40, si.len2s} \subseteq Nat
          /\ handed \in 0..MaxReads /\ ops \in 0..MaxOps /\ filtered \subseteq Channels
      BY DEF IInv, Types, LibraryOK, SendingOK, ReceivingOK, ThreadsOK, Request
    <3>2. str_data.nbgn \in BOOLEAN /\ si.ss \in BOOLEAN
      BY DEF IInv, Types, LibraryOK, SendingOK, Request
    <3>3. /\ pc["worker"] \in {"idle", "parse", "fill", "ioctl"}
          /\ \A t \in Downloader : pc[t] \in {"idle", "si_stop", "write", "ioctl", "close", "lsb"}
      BY DEF IInv, Types, ThreadsOK, WorkerPc, DownloadPc
    <3>4. /\ hdev \in BOOLEAN /\ alone \in [Thread -> BOOLEAN]
          /\ {disturbed, stack_lost, torn} \subseteq BOOLEAN
      BY Zenon DEF IInv, Types, FlagsOK
    <3>5. QED
      BY <3>1, <3>2, <3>3, <3>4, Zenon DEF TypeOK
  <2>2. RateIsWhole
    BY Zenon DEF IInv, RateKept, RateIsWhole
  <2>3. QED
    BY <2>1, <2>2 DEF SettingsApplied, IInv
<1>2. QED
  BY <1>1, Inductive, PTL

\* A parse is given the packets it asked for and in their order, for any number
\* of packets read ahead (hfpga_readn).
THEOREM ReadsAreRight == Spec => []ReadIsRight
<1>1. IInv => ReadIsRight
  BY DEF IInv, Reading, ReadIsRight
<1>2. QED
  BY <1>1, Inductive, PTL

\* What is sent while SI is on is what the last download brought, for groups of
\* any length (psi_apply_from_output_psi, write_hfpga_str_data).
THEOREM SiStaysLast == Spec => []SiIsLast
<1>1. IInv => SiIsLast
  <2> SUFFICES ASSUME IInv, si.ss, alone[want.by], pc[want.by] # "si_stop"
               PROVE  /\ si.len40 = LenReg(Len(Sent40ms)) /\ si.len2s = LenReg(Len(Sent2s))
                      /\ Sent2s # <<>> =>
                           SubSeq(ram, Area40ms + 1, Area40ms + Len(Sent2s)) = Sent2s
                      /\ Len(Sent40ms) <= Area40ms => SubSeq(ram, 1, Len(Sent40ms)) = Sent40ms
    BY Zenon DEF SiIsLast
  <2>1. /\ want.by \in Downloader /\ want.groups \in [Howtos -> Seq(Packet)]
        /\ pc[want.by] \in DownloadPc /\ ram \in Seq(Packet) /\ Area40ms \in Nat
    BY Constants DEF IInv, Types, SendingOK, ThreadsOK
  <2>2. pc[want.by] \notin {"write", "ioctl"}
    BY <2>1, Zenon DEF IInv, Downloading, InProgress
  <2>3. pc[want.by] \in {"idle", "lsb", "close"}
    BY <2>1, <2>2 DEF DownloadPc
  <2>4. Complete
    BY <2>1, <2>3, Zenon DEF IInv, Downloading
  <2>5. Sent2s = Written(want.groups, 7) /\ Sent40ms = want.groups[0]
    BY <2>1, WrittenIs DEF Sent2s, Sent40ms
  <2>6. Sent2s \in Seq(Packet) /\ Sent40ms \in Seq(Packet)
    <3>1. 0 \in Howtos
      BY DEF Howtos
    <3>2. QED
      BY <2>1, <2>5, <3>1, WrittenType
  <2>7. /\ \A k \in 1..Len(Sent2s) :
             Area40ms + k <= Len(ram) /\ ram[Area40ms + k] = Sent2s[k]
        /\ Len(Sent40ms) <= Area40ms =>
             \A k \in 1..Len(Sent40ms) : k <= Len(ram) /\ ram[k] = Sent40ms[k]
    BY <2>4, <2>5 DEF Complete, Held
  <2>8. ASSUME NEW s \in Seq(Packet), NEW a \in Nat,
               \A k \in 1..Len(s) : a + k <= Len(ram) /\ ram[a + k] = s[k]
        PROVE  SubSeq(ram, a + 1, a + Len(s)) = s
    <3> DEFINE n == Len(s)
    <3>1. n \in Nat /\ \A k \in 1..n : s[k] \in Packet
      OBVIOUS
    <3>2. \A i \in (a + 1)..(a + n) : i - a \in 1..n /\ a + (i - a) = i
      BY <3>1
    <3>3. ASSUME NEW i \in (a + 1)..(a + n) PROVE ram[i] \in Packet
      <4>1. i - a \in 1..n /\ a + (i - a) = i
        BY <3>2, <3>3, Zenon
      <4>2. ram[a + (i - a)] = s[i - a]
        BY <2>8, <4>1, Zenon
      <4>3. QED
        BY <3>1, <4>1, <4>2
    <3>4. /\ SubSeq(ram, a + 1, a + n) \in Seq(Packet)
          /\ Len(SubSeq(ram, a + 1, a + n)) = (IF a + 1 <= a + n THEN (a + n) - (a + 1) + 1 ELSE 0)
          /\ \A i \in 1..((a + n) - (a + 1) + 1) :
               SubSeq(ram, a + 1, a + n)[i] = ram[(a + 1) + i - 1]
      <4>1. a + 1 \in Int /\ a + n \in Int
        BY <3>1
      <4>2. QED
        BY <3>3, <4>1, SubSeqProperties
    <3>5. Len(SubSeq(ram, a + 1, a + n)) = n
      BY <3>1, <3>4
    <3>6. \A i \in 1..n : SubSeq(ram, a + 1, a + n)[i] = s[i]
      <4>1. \A i \in 1..n : (a + 1) + i - 1 = a + i /\ i \in 1..((a + n) - (a + 1) + 1)
        BY <3>1
      <4>2. QED
        BY <2>8, <3>4, <4>1
    <3>7. QED
      BY <3>4, <3>5, <3>6, SeqEqual
  <2>9. SubSeq(ram, Area40ms + 1, Area40ms + Len(Sent2s)) = Sent2s
    BY <2>1, <2>6, <2>7, <2>8
  <2>10. ASSUME Len(Sent40ms) <= Area40ms PROVE SubSeq(ram, 1, Len(Sent40ms)) = Sent40ms
    <3>1. PICK z \in Nat : z = 0
      OBVIOUS
    <3>2. \A k \in 1..Len(Sent40ms) : z + k <= Len(ram) /\ ram[z + k] = Sent40ms[k]
      BY <2>6, <2>7, <2>10, <3>1
    <3>3. SubSeq(ram, z + 1, z + Len(Sent40ms)) = Sent40ms
      BY <2>6, <2>8, <3>2
    <3>4. QED
      BY <2>6, <3>1, <3>3
  <2>11. QED
    BY <2>4, <2>5, <2>9, <2>10 DEF Complete
<1>2. QED
  BY <1>1, Inductive, PTL

-----------------------------------------------------------------------------
(* ControlMcu *)


Places == {"idle", "flush", "write", "header", "body", "check", "set", "put",
           "status", "look", "looked", "restart"}

\* The parts of McuTypeOK, and what else a step relies on.
LineOK ==
  /\ owed \in Seq(Req) /\ input \in Seq(Unit)
  /\ send_buf \in Req /\ half \in Req
  /\ recv_buf \in [hdr : Unit, body : Unit]

CallRec == [cmd : Cmds \cup {None}, id : 0 .. MaxCalls, read : BOOLEAN,
            clean : BOOLEAN, hdr : Unit, result : Unit, tunner : TunnerIds,
            param : Params \cup {None}]

CallsOK ==
  /\ stage \in [McuThread -> Places] /\ calls \in 0 .. MaxCalls
  /\ call \in [McuThread -> CallRec]

DeviceOK ==
  /\ tunner \in [TunnerIds -> Params] /\ chip \in Params \cup {None}
  /\ chip = None => stage["main"] = "restart"
  /\ \A t \in Caller : stage[t] \in {"set", "put"} => call[t].param \in Params

ChipFlagsOK == {tunergetflag, locked, overlap} \subseteq BOOLEAN

McuTypes == chans \in Products /\ LineOK /\ CallsOK /\ DeviceOK /\ ChipFlagsOK

\* Every request has a number of its own, from 1.
Numbered ==
  /\ \A i \in 1 .. Len(owed) : owed[i].id # 0
  /\ \A t \in Caller : OnLine(t) => call[t].id # 0
  /\ \A t \in Caller : stage[t] \in {"flush", "write"} /\ call[t].cmd \in TunnerCmds
                          => send_buf.id # 0

\* On the line, a header is followed by the body of the same answer, now or when
\* the MCU goes on.
LineWhole ==
  /\ \A i \in 1 .. Len(input) - 1 :
        input[i].part = "hdr" => input[i + 1] = Body(input[i].of)
  /\ input # <<>> => IF half = NoReq THEN input[Len(input)].part = "body"
                                     ELSE input[Len(input)] = Hdr(half)

\* Without overlap one thread is on the line, and what is in the static buffers
\* is its own.
Alone == \A t, u \in Caller : OnLine(t) /\ OnLine(u) => t = u

Sending(t) ==
  stage[t] \in {"flush", "write"} /\ call[t].cmd \in TunnerCmds =>
    send_buf.id = call[t].id

Receiving(t) ==
  /\ OnLine(t) => call[t].result = NoUnit
  /\ stage[t] = "body" =>
       /\ input # <<>> => Head(input) = Body(call[t].hdr.of)
       /\ input = <<>> => half = call[t].hdr.of /\ half # NoReq
  /\ stage[t] = "check" => recv_buf.body = Body(call[t].hdr.of)

\* All that is under way on a line that was clean answers this call.
AllMine(t) ==
  /\ \A i \in 1 .. Len(owed) : owed[i].id = call[t].id
  /\ half # NoReq => half.id = call[t].id
  /\ \A i \in 1 .. Len(input) : input[i].of.id = call[t].id

Clean(t) ==
  /\ stage[t] = "flush" => ~ call[t].clean
  /\ stage[t] = "write" /\ call[t].clean =>
       owed = <<>> /\ half = NoReq /\ input = <<>>
  /\ stage[t] = "header" /\ call[t].clean => AllMine(t)
  /\ stage[t] \in {"body", "check"} /\ call[t].clean =>
       AllMine(t) /\ call[t].hdr.of.id = call[t].id

Handed(t) ==
  call[t].result # NoUnit =>
    /\ call[t].result = Body(call[t].hdr.of)
    /\ call[t].hdr.of.cmd = call[t].cmd
    /\ call[t].clean => call[t].hdr.of.id = call[t].id

Good(t) == Sending(t) /\ Receiving(t) /\ Clean(t) /\ Handed(t)

AloneGood == ~ overlap => Alone /\ \A t \in Caller : Good(t)

McuInv == McuTypes /\ Numbered /\ LineWhole /\ AloneGood

-----------------------------------------------------------------------------
(* Steps and types                                                         *)

\* Every step is one action of a thread or of the MCU.
LEMMA NextCases ==
  ASSUME [McuNext]_McuVars
  PROVE  \/ \E t \in Caller :
              \/ \E cmd \in Cmds, read \in BOOLEAN : BeginCall(t, cmd, read)
              \/ Flush(t) \/ Write(t) \/ Timeout(t) \/ ReadHeader(t)
              \/ ReadBody(t) \/ CheckAnswer(t)
              \/ DoSetParam(t) \/ PutParam(t) \/ GetSignalInfo(t)
         \/ McuHeader \/ McuBody \/ McuSilent
         \/ DeviceSet \/ DeviceGetStatus
         \/ DeviceCheck \/ LookAtStatus \/ GetSignalInfo("main") \/ ResetChip
         \/ DoSetInfo
         \/ UNCHANGED McuVars
<1>1. GetParam => \E t \in Caller, cmd \in Cmds : BeginCall(t, cmd, TRUE)
  BY Zenon DEF GetParam
<1>2. SetParam => \E t \in Caller, cmd \in Cmds : BeginCall(t, cmd, FALSE)
  BY Zenon DEF SetParam
<1>3. TRUE \in BOOLEAN /\ FALSE \in BOOLEAN
  OBVIOUS
<1>4. QED
  BY <1>1, <1>2, <1>3, Zenon DEF McuNext, CallerStep, Exchange, MainStep

\* The null records have their types.
LEMMA NullTypes ==
  /\ NoReq \in Req /\ NoUnit \in Unit /\ NoReq.id = 0
  /\ \A r \in Req : Hdr(r) \in Unit /\ Body(r) \in Unit
  BY McuAssumption DEF NoReq, NoUnit, Req, Unit, Hdr, Body

\* Calls that start.
LEMMA NewCallTypes ==
  ASSUME NEW cmd \in Cmds, NEW n \in 0 .. MaxCalls, NEW read \in BOOLEAN
  PROVE  [NoCall EXCEPT !.cmd = cmd, !.id = n, !.read = read]
            \in CallRec
  BY NullTypes DEF NoCall, CallRec, TunnerIds

\* A call of the tuner interface that starts.
LEMMA DeviceCallTypes ==
  ASSUME NEW i \in TunnerIds, NEW p \in Params
  PROVE  /\ [NoCall EXCEPT !.tunner = i, !.param = p] \in CallRec
         /\ [NoCall EXCEPT !.tunner = i, !.param = p].param = p
         /\ [NoCall EXCEPT !.tunner = i, !.param = p].result = NoUnit
<1>1. 0 \in 0 .. MaxCalls
  BY McuAssumption
<1>2. QED
  BY <1>1, NullTypes DEF NoCall, CallRec

\* A set of the tuner chip, apart from its flag.
LEMMA DeviceSetCases ==
  ASSUME DeviceSet
  PROVE  \E t \in Caller, i \in TunnerIds, p \in Params :
            /\ stage[t] = "idle" /\ stage' = [stage EXCEPT ![t] = "set"]
            /\ call' = [call EXCEPT ![t] = [NoCall EXCEPT !.tunner = i,
                                                          !.param = p]]
            /\ calls < MaxCalls /\ calls' = calls + 1
            /\ line' = line /\ tunner' = tunner /\ chip' = chip
            /\ overlap' = overlap
  BY Zenon DEF DeviceSet, MoveTo

\* The flags stay Boolean.
LEMMA ChipFlagsStep == ASSUME ChipFlagsOK, [McuNext]_McuVars PROVE ChipFlagsOK'
<1> USE DEF ChipFlagsOK, device, line
<1>1. ASSUME NEW t \in Caller, NEW cmd \in Cmds, NEW read \in BOOLEAN,
             BeginCall(t, cmd, read)
      PROVE  ChipFlagsOK'
  BY <1>1, Zenon DEF BeginCall
<1>2. ASSUME NEW t \in Caller,
             \/ Flush(t) \/ Write(t) \/ Timeout(t) \/ ReadHeader(t)
             \/ ReadBody(t) \/ CheckAnswer(t)
      PROVE  ChipFlagsOK'
  BY <1>2, Zenon DEF Flush, Write, Timeout, ReadHeader, ReadBody, CheckAnswer
<1>3. ASSUME NEW t \in McuThread, DoSetParam(t) \/ PutParam(t) \/ GetSignalInfo(t)
      PROVE  ChipFlagsOK'
  BY <1>3, Zenon DEF DoSetParam, PutParam, GetSignalInfo
<1>4. CASE \/ McuHeader \/ McuBody \/ McuSilent \/ DeviceSet \/ DeviceGetStatus
           \/ DeviceCheck \/ LookAtStatus \/ ResetChip \/ DoSetInfo
  BY <1>4, Zenon DEF McuHeader, McuBody, McuSilent, DeviceSet, DeviceGetStatus,
                     DeviceCheck, LookAtStatus, ResetChip, DoSetInfo
<1>5. CASE UNCHANGED McuVars
  BY <1>5, Zenon DEF McuVars
<1>6. QED
  BY <1>1, <1>2, <1>3, <1>4, <1>5, NextCases, Zenon DEF McuThread

\* The units of the line and the buffers.
LEMMA LineStep ==
  ASSUME McuTypes, [McuNext]_McuVars
  PROVE  LineOK' /\ chans' \in Products
<1> USE DEF McuTypes, LineOK, CallsOK, line, device
<1>1. ASSUME NEW t \in Caller, NEW cmd \in Cmds, NEW read \in BOOLEAN,
             BeginCall(t, cmd, read)
      PROVE  LineOK' /\ chans' \in Products
  <2>1. [NoReq EXCEPT !.cmd = cmd, !.id = calls + 1] \in Req
    <3>1. calls + 1 \in 0 .. MaxCalls
      BY <1>1, McuAssumption DEF BeginCall
    <3>2. QED
      BY <3>1 DEF NoReq, Req
  <2>2. send_buf' \in Req
    BY <1>1, <2>1 DEF BeginCall
  <2>3. UNCHANGED <<chans, recv_buf, owed, half, input>>
    BY <1>1 DEF BeginCall
  <2>4. QED
    BY <2>2, <2>3
<1>2. ASSUME NEW t \in Caller, Flush(t) PROVE LineOK' /\ chans' \in Products
  BY <1>2, NullTypes DEF Flush
<1>3. ASSUME NEW t \in Caller, Write(t) PROVE LineOK' /\ chans' \in Products
  <2>1. call[t].cmd \in Cmds \cup {None} /\ call[t].id \in 0 .. MaxCalls
    BY DEF CallRec, McuThread
  <2>2. [NoReq EXCEPT !.cmd = call[t].cmd, !.id = call[t].id] \in Req
    BY <2>1 DEF NoReq, Req
  <2>3. owed' \in Seq(Req)
    BY <1>3, <2>2, AppendProperties, SMTT(60) DEF Write
  <2>4. QED
    BY <1>3, <2>3 DEF Write
<1>4. ASSUME NEW t \in Caller, Timeout(t) \/ CheckAnswer(t)
      PROVE  LineOK' /\ chans' \in Products
  BY <1>4 DEF Timeout, CheckAnswer
<1>5. ASSUME NEW t \in Caller, ReadHeader(t) \/ ReadBody(t)
      PROVE  LineOK' /\ chans' \in Products
  <2>1. input # <<>> /\ Head(input) \in Unit /\ Tail(input) \in Seq(Unit)
    BY <1>5, HeadTailProperties DEF ReadHeader, ReadBody
  <2>2. input' = Tail(input) \/ input' = <<>>
    BY <1>5, Zenon DEF ReadHeader, ReadBody
  <2>3. recv_buf' \in [hdr : Unit, body : Unit]
    BY <1>5, <2>1 DEF ReadHeader, ReadBody
  <2>4. input' \in Seq(Unit)
    <3>1. <<>> \in Seq(Unit)
      BY EmptySeq
    <3>2. QED
      BY <2>1, <2>2, <3>1, Zenon
  <2>5. QED
    BY <1>5, <2>3, <2>4 DEF ReadHeader, ReadBody
<1>6. CASE McuHeader
  <2>1. Head(owed) \in Req /\ Tail(owed) \in Seq(Req)
    BY <1>6, HeadTailProperties DEF McuHeader
  <2>2. PICK size \in {"ok", "other", "large"} :
            /\ half' = [Head(owed) EXCEPT !.size = size]
            /\ input' = Append(input, Hdr([Head(owed) EXCEPT !.size = size]))
    BY <1>6 DEF McuHeader
  <2>3. half' \in Req
    BY <2>1, <2>2 DEF Req
  <2>4. input' \in Seq(Unit)
    BY <2>2, <2>3, NullTypes, AppendProperties
  <2>5. QED
    BY <1>6, <2>1, <2>3, <2>4 DEF McuHeader
<1>7. CASE McuBody
  <2>1. input' \in Seq(Unit)
    BY <1>7, NullTypes, AppendProperties DEF McuBody
  <2>2. QED
    BY <1>7, <2>1, NullTypes DEF McuBody
<1>8. CASE McuSilent
  BY <1>8, HeadTailProperties DEF McuSilent
<1>9. ASSUME NEW t \in McuThread, DoSetParam(t) \/ PutParam(t) \/ GetSignalInfo(t)
      PROVE  LineOK' /\ chans' \in Products
  BY <1>9 DEF DoSetParam, PutParam, GetSignalInfo
<1>10. CASE \/ DeviceSet \/ DeviceGetStatus \/ DeviceCheck \/ LookAtStatus
            \/ ResetChip \/ DoSetInfo
  BY <1>10 DEF DeviceSet, DeviceGetStatus, DeviceCheck, LookAtStatus, ResetChip,
               DoSetInfo
<1>11. CASE UNCHANGED McuVars
  BY <1>11 DEF McuVars
<1>12. QED
  BY <1>1, <1>2, <1>3, <1>4, <1>5, <1>6, <1>7, <1>8, <1>9, <1>10, <1>11,
     NextCases DEF McuThread

\* The places of the threads and their calls.
LEMMA CallsStep == ASSUME McuTypes, [McuNext]_McuVars PROVE CallsOK'
<1> USE DEF McuTypes, CallsOK, MoveTo, line, device
<1>1. ASSUME NEW t \in Caller, NEW cmd \in Cmds, NEW read \in BOOLEAN,
             BeginCall(t, cmd, read)
      PROVE  CallsOK'
  <2>1. calls + 1 \in 0 .. MaxCalls
    BY <1>1, McuAssumption DEF BeginCall
  <2>2. call' \in [McuThread -> CallRec]
    BY <1>1, <2>1, NewCallTypes DEF BeginCall
  <2>3. stage' \in [McuThread -> Places]
    BY <1>1 DEF BeginCall, Places
  <2>4. QED
    BY <1>1, <2>1, <2>2, <2>3 DEF BeginCall
<1>2. ASSUME NEW t \in Caller, Flush(t) PROVE CallsOK'
  <2>1. [call[t] EXCEPT !.clean = owed = <<>> /\ half = NoReq] \in CallRec
    <3>1. call[t] \in CallRec /\ (owed = <<>> /\ half = NoReq) \in BOOLEAN
      BY DEF McuThread
    <3>2. QED
      BY <3>1 DEF CallRec
  <2>2. call' \in [McuThread -> CallRec]
    BY <1>2, <2>1 DEF Flush
  <2>3. QED
    BY <1>2, <2>2 DEF Flush, Places
<1>3. ASSUME NEW t \in Caller, Write(t) \/ Timeout(t) PROVE CallsOK'
  BY <1>3 DEF Write, Timeout, Places
<1>4. ASSUME NEW t \in Caller, ReadHeader(t) PROVE CallsOK'
  <2>1. Head(input) \in Unit
    BY <1>4, HeadTailProperties DEF ReadHeader, LineOK
  <2>2. [call[t] EXCEPT !.hdr = Head(input)] \in CallRec
    BY <2>1 DEF CallRec, McuThread
  <2>3. call' \in [McuThread -> CallRec]
    BY <1>4, <2>2 DEF ReadHeader
  <2>4. stage' \in [McuThread -> Places]
    BY <1>4 DEF ReadHeader, Places
  <2>5. QED
    BY <1>4, <2>3, <2>4 DEF ReadHeader
<1>5. ASSUME NEW t \in Caller, ReadBody(t) PROVE CallsOK'
  BY <1>5 DEF ReadBody, Places
<1>6. ASSUME NEW t \in Caller, CheckAnswer(t) PROVE CallsOK'
  <2>1. [call[t] EXCEPT !.result = recv_buf.body] \in CallRec
    BY DEF CallRec, McuThread, LineOK
  <2>2. call' \in [McuThread -> CallRec]
    BY <1>6, <2>1 DEF CheckAnswer
  <2>3. QED
    BY <1>6, <2>2 DEF CheckAnswer, Places
<1>7. CASE McuHeader \/ McuBody \/ McuSilent
  BY <1>7 DEF McuHeader, McuBody, McuSilent
<1>8. ASSUME NEW t \in McuThread, DoSetParam(t) \/ PutParam(t) \/ GetSignalInfo(t)
      PROVE  CallsOK'
  BY <1>8 DEF DoSetParam, PutParam, GetSignalInfo, Places
<1>9. CASE DeviceSet
  <2>1. PICK t \in Caller, i \in TunnerIds, p \in Params :
            /\ stage' = [stage EXCEPT ![t] = "set"]
            /\ call' = [call EXCEPT ![t] = [NoCall EXCEPT !.tunner = i,
                                                          !.param = p]]
            /\ calls < MaxCalls /\ calls' = calls + 1
    BY <1>9, DeviceSetCases, Zenon
  <2>2. [NoCall EXCEPT !.tunner = i, !.param = p] \in CallRec
    BY DeviceCallTypes
  <2>3. call' \in [McuThread -> CallRec]
    BY <2>1, <2>2
  <2>4. QED
    BY <2>1, <2>3, McuAssumption DEF Places
<1>10. CASE DeviceGetStatus
  <2>1. PICK t \in Caller : /\ stage' = [stage EXCEPT ![t] = "status"]
                            /\ calls < MaxCalls /\ calls' = calls + 1
                            /\ call' = call
    BY <1>10, Zenon DEF DeviceGetStatus
  <2>2. calls' \in 0 .. MaxCalls
    BY <2>1, McuAssumption
  <2>3. QED
    BY <2>1, <2>2 DEF Places
<1>11. CASE DeviceCheck \/ LookAtStatus \/ ResetChip \/ DoSetInfo
  BY <1>11 DEF DeviceCheck, LookAtStatus, ResetChip, DoSetInfo, Places
<1>12. CASE UNCHANGED McuVars
  BY <1>12 DEF McuVars
<1>13. QED
  BY <1>1, <1>2, <1>3, <1>4, <1>5, <1>6, <1>7, <1>8, <1>9, <1>10, <1>11, <1>12,
     NextCases DEF McuThread

\* The chip: its parameters are gone only while the main loop restarts it.
LEMMA DeviceStep == ASSUME McuTypes, [McuNext]_McuVars PROVE DeviceOK'
<1> USE McuAssumption DEF McuTypes, CallsOK, DeviceOK, MoveTo, None, Caller, McuThread
<1>1. ASSUME NEW t \in Caller, NEW cmd \in Cmds, NEW read \in BOOLEAN,
             BeginCall(t, cmd, read)
      PROVE  DeviceOK'
  BY <1>1 DEF BeginCall, device
<1>2. ASSUME NEW t \in Caller,
             \/ Flush(t) \/ Write(t) \/ Timeout(t) \/ ReadHeader(t)
             \/ ReadBody(t) \/ CheckAnswer(t)
      PROVE  DeviceOK'
  <2>1. /\ UNCHANGED <<tunner, chip>>
        /\ \A u \in McuThread \ {t} : stage'[u] = stage[u] /\ call'[u] = call[u]
        /\ stage'[t] \notin {"set", "put"}
    BY <1>2 DEF Flush, Write, Timeout, ReadHeader, ReadBody, CheckAnswer, device
  <2>2. QED
    BY <2>1
<1>3. CASE McuHeader \/ McuBody \/ McuSilent
  BY <1>3 DEF McuHeader, McuBody, McuSilent, device
<1>4. ASSUME NEW t \in Caller, DoSetParam(t) PROVE DeviceOK'
  BY <1>4 DEF DoSetParam
<1>5. ASSUME NEW t \in Caller, PutParam(t) PROVE DeviceOK'
  <2>1. call[t].tunner \in TunnerIds
    BY DEF CallRec
  <2>2. QED
    BY <1>5, <2>1 DEF PutParam
<1>6. ASSUME NEW t \in McuThread, GetSignalInfo(t) PROVE DeviceOK'
  <2>1. UNCHANGED <<tunner, chip, call>> /\ stage[t] = "status"
            /\ stage' = [stage EXCEPT ![t] = IF t = "main" THEN "looked" ELSE "idle"]
    BY <1>6, Zenon DEF GetSignalInfo
  <2>2. QED
    BY <2>1
<1>7. CASE DeviceSet
  <2>1. PICK t \in Caller, i \in TunnerIds, p \in Params :
            /\ stage' = [stage EXCEPT ![t] = "set"]
            /\ call' = [call EXCEPT ![t] = [NoCall EXCEPT !.tunner = i,
                                                          !.param = p]]
            /\ tunner' = tunner /\ chip' = chip
    <3> HIDE DEF Caller, McuThread, McuTypes, MoveTo, None
    <3>1. QED
      BY <1>7, DeviceSetCases, Zenon
  <2>2. [NoCall EXCEPT !.tunner = i, !.param = p].param = p
    BY DeviceCallTypes
  <2>3. QED
    BY <2>1, <2>2
<1>8. CASE DeviceGetStatus
  BY <1>8 DEF DeviceGetStatus
<1>9. CASE DeviceCheck \/ LookAtStatus
  <2>1. UNCHANGED <<tunner, chip, call>> /\ stage["main"] \in {"idle", "look"}
            /\ \A u \in Caller : stage'[u] = stage[u]
    BY <1>9 DEF DeviceCheck, LookAtStatus, device
  <2>2. QED
    BY <2>1
<1>10. CASE ResetChip
  <2>1. /\ UNCHANGED <<tunner, call>>
        /\ \A u \in Caller : stage'[u] = stage[u]
        /\ \/ chip' = chip /\ stage["main"] = "looked"
           \/ chip' = None /\ stage'["main"] = "restart"
    BY <1>10 DEF ResetChip
  <2>2. QED
    BY <2>1
<1>11. CASE DoSetInfo
  <2>1. tunner[0] \in Params
    BY DEF TunnerIds
  <2>2. QED
    BY <1>11, <2>1 DEF DoSetInfo
<1>12. CASE UNCHANGED McuVars
  BY <1>12 DEF McuVars, device
<1>13. QED
  BY <1>1, <1>2, <1>3, <1>4, <1>5, <1>6, <1>7, <1>8, <1>9, <1>10, <1>11, <1>12,
     NextCases DEF McuThread

-----------------------------------------------------------------------------
(* The line                                                                *)

\* The types, together.
LEMMA McuTypesStep == ASSUME McuTypes, [McuNext]_McuVars PROVE McuTypes'
  BY LineStep, CallsStep, DeviceStep, ChipFlagsStep DEF McuTypes

\* The head of a sequence is its first element.
LEMMA HeadIsFirst ==
  ASSUME NEW E, NEW q \in Seq(E), q # <<>>
  PROVE  Len(q) \in Nat \ {0} /\ Head(q) = q[1]
  BY EmptySeq

\* What a step of the MCU puts on the line, and what a reader takes off it.
LEMMA AppendUnit ==
  ASSUME LineOK, NEW u \in Unit
  PROVE  /\ Len(input) \in Nat
         /\ Len(Append(input, u)) = Len(input) + 1
         /\ \A i \in 1 .. Len(input) : Append(input, u)[i] = input[i]
         /\ Append(input, u)[Len(input) + 1] = u
         /\ Append(input, u) # <<>>
         /\ Head(Append(input, u)) = IF input = <<>> THEN u ELSE Head(input)
<1>1. input \in Seq(Unit)
  BY DEF LineOK
<1>2. QED
  BY <1>1, AppendProperties, LenProperties, HeadTailAppend

\* What taking a unit off the line does to it.
LEMMA TakeUnit ==
  ASSUME LineOK, input # <<>>
  PROVE  /\ Len(input) \in Nat \ {0}
         /\ Head(input) = input[1]
         /\ Len(Tail(input)) = Len(input) - 1
         /\ \A i \in 1 .. Len(Tail(input)) : Tail(input)[i] = input[i + 1]
         /\ Tail(input) # <<>> => Len(input) > 1 /\ Head(Tail(input)) = input[2]
         /\ Tail(input) = <<>> => Len(input) = 1
<1>1. input \in Seq(Unit) /\ Tail(input) \in Seq(Unit)
  BY HeadTailProperties DEF LineOK
<1>2. Len(input) \in Nat \ {0} /\ Head(input) = input[1]
  BY <1>1, EmptySeq
<1>3. /\ Len(Tail(input)) = Len(input) - 1
      /\ \A i \in 1 .. Len(Tail(input)) : Tail(input)[i] = input[i + 1]
  BY <1>1, HeadTailProperties
<1>4. Tail(input) # <<>> => Len(input) > 1 /\ Head(Tail(input)) = input[2]
  <2> SUFFICES ASSUME Tail(input) # <<>>
               PROVE  Len(input) > 1 /\ Head(Tail(input)) = input[2]
    OBVIOUS
  <2>1. Len(Tail(input)) \in Nat \ {0} /\ Head(Tail(input)) = Tail(input)[1]
    BY <1>1, HeadIsFirst
  <2>2. Len(input) > 1 /\ 1 \in 1 .. Len(Tail(input)) /\ 1 + 1 = 2
    BY <1>2, <1>3, <2>1
  <2>3. QED
    BY <1>3, <2>1, <2>2
<1>5. Tail(input) = <<>> => Len(input) = 1
  BY <1>2, <1>3
<1>6. QED
  BY <1>2, <1>3, <1>4, <1>5

\* The answer the MCU starts is to the request it took, and has its number.
LEMMA HeaderCases ==
  ASSUME McuTypes, Numbered, McuHeader
  PROVE  /\ owed # <<>> /\ half = NoReq
         /\ half' \in Req /\ half' # NoReq /\ half'.id = owed[1].id
         /\ input' = Append(input, Hdr(half'))
         /\ owed' = Tail(owed)
         /\ UNCHANGED <<send_buf, recv_buf, stage, call, overlap>>
<1>1. PICK size \in {"ok", "other", "large"} :
            /\ half' = [Head(owed) EXCEPT !.size = size]
            /\ input' = Append(input, Hdr([Head(owed) EXCEPT !.size = size]))
  BY DEF McuHeader
<1>2. owed \in Seq(Req) /\ owed # <<>>
  BY DEF McuHeader, McuTypes, LineOK
<1>3. Head(owed) = owed[1] /\ owed[1] \in Req /\ Len(owed) \in Nat \ {0}
  BY <1>2, EmptySeq
<1>4. half' \in Req /\ half'.id = owed[1].id
  BY <1>1, <1>3 DEF Req
<1>5. half'.id # 0
  BY <1>3, <1>4 DEF Numbered
<1>6. half' # NoReq
  BY <1>5, NullTypes
<1>7. QED
  BY <1>1, <1>2, <1>4, <1>6 DEF McuHeader

\* A header and its body stay together.
LEMMA WholeStep == ASSUME McuTypes, Numbered, LineWhole, [McuNext]_McuVars PROVE LineWhole'
<1> USE DEF McuTypes
<1>1. CASE McuHeader
  <2>1. /\ half = NoReq /\ half' # NoReq /\ half' \in Req
        /\ input' = Append(input, Hdr(half'))
    BY <1>1, HeaderCases
  <2>2. Hdr(half') \in Unit
    BY <2>1, NullTypes
  <2>3. /\ Len(input) \in Nat /\ Len(input') = Len(input) + 1
        /\ \A i \in 1 .. Len(input) : input'[i] = input[i]
        /\ input'[Len(input) + 1] = Hdr(half')
    BY <2>1, <2>2, AppendUnit
  <2>4. ASSUME NEW i \in 1 .. Len(input), input'[i].part = "hdr"
        PROVE  input'[i + 1] = Body(input'[i].of)
    <3>1. input # <<>>
      BY <2>3
    <3>2. input[i].part = "hdr" /\ input[Len(input)].part = "body"
      BY <2>1, <2>3, <2>4, <3>1 DEF LineWhole
    <3>3. i # Len(input)
      BY <3>2
    <3>4. QED
      BY <2>3, <3>2, <3>3 DEF LineWhole
  <2>5. QED
    BY <2>1, <2>3, <2>4 DEF LineWhole
<1>2. CASE McuBody
  <2>1. /\ half # NoReq /\ half' = NoReq /\ half \in Req
        /\ input' = Append(input, Body(half))
    BY <1>2 DEF McuBody, LineOK
  <2>2. Body(half) \in Unit
    BY <2>1, NullTypes
  <2>3. /\ Len(input) \in Nat /\ Len(input') = Len(input) + 1
        /\ \A i \in 1 .. Len(input) : input'[i] = input[i]
        /\ input'[Len(input) + 1] = Body(half)
    BY <2>1, <2>2, AppendUnit
  <2>4. ASSUME NEW i \in 1 .. Len(input), input'[i].part = "hdr"
        PROVE  input'[i + 1] = Body(input'[i].of)
    <3>1. input # <<>>
      BY <2>3
    <3>2. CASE i = Len(input)
      <4>1. input[i] = Hdr(half)
        BY <2>1, <3>1, <3>2 DEF LineWhole
      <4>2. QED
        BY <2>3, <3>2, <4>1 DEF Hdr
    <3>3. CASE i # Len(input)
      BY <2>3, <2>4, <3>3 DEF LineWhole
    <3>4. QED
      BY <3>2, <3>3
  <2>5. Body(half).part = "body"
    BY DEF Body
  <2>6. QED
    BY <2>1, <2>3, <2>4, <2>5 DEF LineWhole
<1>3. ASSUME half' = half, input # <<>>, input' = Tail(input) PROVE LineWhole'
  <2>1. /\ Len(input) \in Nat \ {0} /\ Len(input') = Len(input) - 1
        /\ \A i \in 1 .. Len(input') : input'[i] = input[i + 1]
        /\ input' # <<>> => Len(input) > 1
    BY <1>3, TakeUnit
  <2>2. ASSUME NEW i \in 1 .. Len(input') - 1, input'[i].part = "hdr"
        PROVE  input'[i + 1] = Body(input'[i].of)
    <3>1. /\ i + 1 \in 1 .. Len(input) - 1
          /\ input'[i] = input[i + 1] /\ input'[i + 1] = input[(i + 1) + 1]
      BY <2>1
    <3>2. QED
      BY <2>2, <3>1 DEF LineWhole
  <2>3. input' # <<>> => input'[Len(input')] = input[Len(input)]
    BY <2>1
  <2>4. QED
    BY <1>3, <2>2, <2>3 DEF LineWhole
<1>4. ASSUME half' = half, input' = <<>> PROVE LineWhole'
  BY <1>4 DEF LineWhole
<1>5. ASSUME half' = half, input' = input PROVE LineWhole'
  BY <1>5 DEF LineWhole
<1>6. CASE \/ McuSilent \/ DeviceSet \/ DeviceGetStatus \/ DeviceCheck
           \/ LookAtStatus \/ ResetChip \/ DoSetInfo \/ UNCHANGED McuVars
  BY <1>5, <1>6, Zenon
  DEF McuSilent, DeviceSet, DeviceGetStatus, DeviceCheck, LookAtStatus,
      ResetChip, DoSetInfo, McuVars, line
<1>7. ASSUME NEW t \in McuThread, DoSetParam(t) \/ PutParam(t) \/ GetSignalInfo(t)
      PROVE  LineWhole'
  BY <1>5, <1>7, Zenon DEF DoSetParam, PutParam, GetSignalInfo, line
<1>8. ASSUME NEW t \in Caller, Write(t) \/ Timeout(t) \/ CheckAnswer(t)
      PROVE  LineWhole'
  BY <1>5, <1>8, Zenon DEF Write, Timeout, CheckAnswer, line
<1>9. ASSUME NEW t \in Caller, NEW cmd \in Cmds, NEW read \in BOOLEAN,
             BeginCall(t, cmd, read)
      PROVE  LineWhole'
  BY <1>5, <1>9, Zenon DEF BeginCall
<1>10. ASSUME NEW t \in Caller, Flush(t) PROVE LineWhole'
  BY <1>4, <1>10 DEF Flush
<1>11. ASSUME NEW t \in Caller, ReadHeader(t) \/ ReadBody(t) PROVE LineWhole'
  BY <1>3, <1>4, <1>11, Zenon DEF ReadHeader, ReadBody
<1>12. QED
  BY <1>1, <1>2, <1>6, <1>7, <1>8, <1>9, <1>10, <1>11, NextCases DEF McuThread

\* Every request that is on its way has a number.
LEMMA NumberedStep == ASSUME McuTypes, Numbered, [McuNext]_McuVars PROVE Numbered'
<1> USE DEF McuTypes, CallsOK, MoveTo
<1>1. ASSUME NEW t \in Caller, NEW cmd \in Cmds, NEW read \in BOOLEAN,
             BeginCall(t, cmd, read)
      PROVE  Numbered'
  <2>1. /\ calls + 1 # 0 /\ owed' = owed
        /\ \A u \in Caller \ {t} : stage'[u] = stage[u] /\ call'[u] = call[u]
    BY <1>1 DEF BeginCall, McuThread
  <2>2. call'[t].id = calls + 1 /\ call'[t].cmd = cmd
    <3>1. call'[t] = [NoCall EXCEPT !.cmd = cmd, !.id = calls + 1, !.read = read]
      BY <1>1 DEF BeginCall, McuThread
    <3>2. QED
      BY <3>1 DEF NoCall
  <2>3. /\ cmd \in TunnerCmds => send_buf'.id = calls + 1
        /\ cmd \notin TunnerCmds => send_buf' = send_buf
    BY <1>1 DEF BeginCall, NoReq
  <2>4. QED
    BY <2>1, <2>2, <2>3 DEF Numbered, OnLine
<1>2. ASSUME NEW t \in Caller, Write(t) PROVE Numbered'
  <2>1. /\ \A u \in Caller : stage'[u] \in {"flush", "write"} => stage[u] = stage'[u]
        /\ \A u \in Caller : OnLine(u)' => OnLine(u)
        /\ call' = call /\ send_buf' = send_buf
    BY <1>2 DEF Write, OnLine, McuThread
  <2>2. \A i \in 1 .. Len(owed') : owed'[i].id # 0
    <3> DEFINE r == IF call[t].cmd \in TunnerCmds THEN send_buf
                    ELSE [NoReq EXCEPT !.cmd = call[t].cmd, !.id = call[t].id]
    <3>1. owed' = owed \/ owed' = Append(owed, r)
      BY <1>2, Zenon DEF Write
    <3>2. r \in Req /\ r.id # 0
      <4>1. stage[t] = "write" /\ call[t].id # 0 /\ call[t].id \in 0 .. MaxCalls
                /\ call[t].cmd \in Cmds \cup {None}
        BY <1>2 DEF Write, Numbered, OnLine, McuThread, CallRec
      <4>2. QED
        BY <4>1 DEF Numbered, LineOK, NoReq, Req
    <3>3. owed \in Seq(Req)
      BY DEF LineOK
    <3>4. CASE owed' = Append(owed, r)
      <4>1. /\ Len(owed) \in Nat /\ Len(owed') = Len(owed) + 1
            /\ \A i \in 1 .. Len(owed) : owed'[i] = owed[i]
            /\ owed'[Len(owed) + 1] = r
        BY <3>2, <3>3, <3>4, AppendProperties, LenProperties
      <4>2. ASSUME NEW i \in 1 .. Len(owed') PROVE owed'[i].id # 0
        <5> HIDE DEF r
        <5>1. CASE i = Len(owed) + 1
          BY <3>2, <4>1, <5>1
        <5>2. CASE i # Len(owed) + 1
          BY <4>1, <5>2 DEF Numbered
        <5>3. QED
          BY <5>1, <5>2
      <4>3. QED
        BY <4>2
    <3>5. QED
      BY <3>1, <3>4 DEF Numbered
  <2>3. QED
    BY <2>1, <2>2 DEF Numbered
<1>3. CASE McuHeader \/ McuSilent
  <2>1. owed # <<>> /\ owed' = Tail(owed) /\ UNCHANGED <<send_buf, stage, call>>
    BY <1>3 DEF McuHeader, McuSilent
  <2>2. /\ Len(owed) \in Nat \ {0} /\ Len(owed') = Len(owed) - 1
        /\ \A i \in 1 .. Len(owed') : owed'[i] = owed[i + 1]
    BY <2>1, HeadTailProperties, EmptySeq DEF LineOK
  <2>3. \A i \in 1 .. Len(owed') : owed'[i].id # 0
    BY <2>2 DEF Numbered
  <2>4. QED
    BY <2>1, <2>3 DEF Numbered, OnLine
<1>4. ASSUME owed' = owed, send_buf' = send_buf,
             \A u \in Caller : OnLine(u)' =>
                /\ call'[u].cmd = call[u].cmd /\ call'[u].id = call[u].id
                /\ OnLine(u)
                /\ stage'[u] \in {"flush", "write"} => stage[u] \in {"flush", "write"}
      PROVE  Numbered'
  BY <1>4 DEF Numbered, OnLine
<1>5. ASSUME NEW t \in Caller,
             \/ Flush(t) \/ Timeout(t) \/ ReadHeader(t) \/ ReadBody(t)
             \/ CheckAnswer(t)
      PROVE  Numbered'
  <2>1. /\ owed' = owed /\ send_buf' = send_buf
        /\ \A u \in Caller \ {t} : stage'[u] = stage[u] /\ call'[u] = call[u]
        /\ stage[t] \in {"flush", "header", "body", "check"}
        /\ stage'[t] \in {"idle", "write", "body", "check"}
        /\ stage'[t] = "write" => stage[t] = "flush"
    BY <1>5 DEF Flush, Timeout, ReadHeader, ReadBody, CheckAnswer, line, McuThread
  <2>2. call'[t].cmd = call[t].cmd /\ call'[t].id = call[t].id
    BY <1>5
    DEF Flush, Timeout, ReadHeader, ReadBody, CheckAnswer, McuThread, CallRec
  <2>3. QED
    BY <1>4, <2>1, <2>2 DEF OnLine
<1>6. ASSUME NEW t \in McuThread, DoSetParam(t) \/ PutParam(t) \/ GetSignalInfo(t)
      PROVE  Numbered'
  <2>1. /\ owed' = owed /\ send_buf' = send_buf /\ call' = call
        /\ \A u \in Caller \ {t} : stage'[u] = stage[u]
        /\ stage'[t] \in {"put", "idle", "looked"}
    BY <1>6 DEF DoSetParam, PutParam, GetSignalInfo, line, McuThread
  <2>2. QED
    BY <1>4, <2>1 DEF OnLine
<1>7. CASE DeviceSet
  <2>1. PICK t \in Caller, i \in TunnerIds, p \in Params :
            /\ stage' = [stage EXCEPT ![t] = "set"]
            /\ call' = [call EXCEPT ![t] = [NoCall EXCEPT !.tunner = i,
                                                          !.param = p]]
            /\ line' = line
    BY <1>7, DeviceSetCases, Zenon
  <2>2. /\ \A u \in Caller \ {t} : stage'[u] = stage[u] /\ call'[u] = call[u]
        /\ stage'[t] = "set" /\ owed' = owed /\ send_buf' = send_buf
    BY <2>1 DEF McuThread, line
  <2>3. QED
    BY <1>4, <2>2 DEF OnLine
<1>8. CASE \/ McuBody \/ DeviceGetStatus \/ DeviceCheck \/ LookAtStatus
           \/ ResetChip \/ DoSetInfo \/ UNCHANGED McuVars
  <2>1. /\ owed' = owed /\ send_buf' = send_buf /\ call' = call
        /\ \A u \in Caller : stage'[u] = stage[u] \/ stage'[u] = "status"
    BY <1>8 DEF McuBody, DeviceGetStatus, DeviceCheck, LookAtStatus, ResetChip,
                DoSetInfo, McuVars, line, McuThread, Caller
  <2>2. QED
    BY <1>4, <2>1 DEF OnLine
<1>9. QED
  BY <1>1, <1>2, <1>3, <1>5, <1>6, <1>7, <1>8, NextCases DEF McuThread

-----------------------------------------------------------------------------
(* One thread on the line                                                  *)

\* A thread that is not on the line keeps what it was handed.
LEMMA OffLineGood ==
  ASSUME NEW t \in Caller, ~ OnLine(t), Handed(t)
  PROVE  Good(t)
  BY DEF Good, Sending, Receiving, Clean, OnLine

\* A step of one thread that is alone on the line concerns that thread only.
LEMMA OneThreadStep ==
  ASSUME AloneGood, NEW t \in Caller, ~ overlap' => ~ overlap,
         ~ overlap' => \A u \in Caller \ {t} : ~ OnLine(u),
         \A u \in Caller \ {t} : stage'[u] = stage[u] /\ call'[u] = call[u],
         ~ overlap' => Good(t)'
  PROVE  AloneGood'
<1> SUFFICES ASSUME ~ overlap' PROVE Alone' /\ \A u \in Caller : Good(u)'
  BY Zenon DEF AloneGood
<1>1. \A u \in Caller : Good(u)
  BY Zenon DEF AloneGood
<1>2. \A u \in Caller \ {t} : ~ OnLine(u)'
  BY DEF OnLine
<1>3. ASSUME NEW u \in Caller \ {t} PROVE Good(u)'
  <2>1. Handed(u)'
    BY <1>1 DEF Good, Handed
  <2>2. QED
    BY <1>2, <2>1 DEF Good, Sending, Receiving, Clean, OnLine
<1>4. QED
  BY <1>2, <1>3 DEF Alone

\* The steps of a call: the caller, alone on the line, gets its own answer.
LEMMA ExchangeStep ==
  ASSUME McuTypes, McuTypes', Numbered, LineWhole, AloneGood, NEW t \in Caller,
         \/ Flush(t) \/ Write(t) \/ Timeout(t) \/ ReadHeader(t) \/ ReadBody(t)
         \/ CheckAnswer(t)
  PROVE  AloneGood'
<1>1. /\ overlap' = overlap
      /\ \A u \in Caller \ {t} : stage'[u] = stage[u] /\ call'[u] = call[u]
  BY DEF Flush, Write, Timeout, ReadHeader, ReadBody, CheckAnswer, MoveTo, McuTypes,
         CallsOK, McuThread, line
<1>2. OnLine(t)
  BY DEF OnLine, Flush, Write, Timeout, ReadHeader, ReadBody, CheckAnswer
<1> SUFFICES ASSUME ~ overlap PROVE Good(t)'
  <2>1. ~ overlap => \A u \in Caller \ {t} : ~ OnLine(u)
    BY <1>2, Zenon DEF AloneGood, Alone
  <2>2. QED
    BY <1>1, <2>1, OneThreadStep, Zenon
<1>3. Good(t) /\ call[t] \in CallRec /\ t \in McuThread /\ call \in [McuThread -> CallRec]
        /\ stage \in [McuThread -> Places]
  BY DEF AloneGood, McuTypes, CallsOK, McuThread
<1>4. call[t].result = NoUnit
  BY <1>2, <1>3 DEF Good, Receiving
<1>5. CASE Timeout(t)
  <2>1. stage'[t] = "idle" /\ call' = call
    BY <1>3, <1>5 DEF Timeout, MoveTo
  <2>2. QED
    BY <1>4, <2>1 DEF Good, Sending, Receiving, Clean, Handed, OnLine
<1>6. CASE Flush(t)
  <2>1. /\ stage[t] = "flush" /\ stage'[t] = "write" /\ input' = <<>>
        /\ send_buf' = send_buf /\ owed' = owed /\ half' = half
        /\ call'[t] = [call[t] EXCEPT !.clean = owed = <<>> /\ half = NoReq]
    BY <1>3, <1>6 DEF Flush, MoveTo
  <2>2. /\ call'[t].cmd = call[t].cmd /\ call'[t].id = call[t].id
        /\ call'[t].result = NoUnit
    BY <1>3, <1>4, <2>1 DEF CallRec
  <2>3. call'[t].clean => owed = <<>> /\ half = NoReq
    BY <1>3, <2>1 DEF CallRec
  <2>4. Sending(t)'
    BY <1>3, <2>1, <2>2 DEF Good, Sending
  <2>5. Receiving(t)' /\ Handed(t)'
    BY <2>1, <2>2 DEF Receiving, Handed
  <2>6. Clean(t)'
    BY <2>1, <2>3 DEF Clean
  <2>7. QED
    BY <2>4, <2>5, <2>6 DEF Good
<1>7. CASE Write(t)
  <2> DEFINE r == IF call[t].cmd \in TunnerCmds THEN send_buf
                  ELSE [NoReq EXCEPT !.cmd = call[t].cmd, !.id = call[t].id]
  <2>1. /\ stage[t] = "write" /\ call' = call
        /\ UNCHANGED <<send_buf, recv_buf, half, input>>
        /\ \/ owed' = Append(owed, r) /\ stage'[t] \in {"header", "idle"}
           \/ owed' = owed /\ stage'[t] = "idle"
    BY <1>3, <1>7 DEF Write, MoveTo
  <2>2. r.id = call[t].id
    BY <1>3, <2>1 DEF Good, Sending, NoReq
  <2>3. call[t].clean /\ owed' = Append(owed, r) => AllMine(t)'
    <3> SUFFICES ASSUME call[t].clean, owed' = Append(owed, r) PROVE AllMine(t)'
      OBVIOUS
    <3>1. owed = <<>> /\ half = NoReq /\ input = <<>>
      BY <1>3, <2>1 DEF Good, Clean
    <3>2. owed' = <<r>>
      BY <3>1
    <3>3. \A i \in 1 .. Len(owed') : owed'[i].id = call[t].id
      <4> HIDE DEF r
      <4>1. QED
        BY <2>2, <3>2
    <3>4. QED
      BY <2>1, <3>1, <3>3 DEF AllMine
  <2>4. Sending(t)' /\ Receiving(t)' /\ Handed(t)'
    BY <1>4, <2>1 DEF Sending, Receiving, Handed
  <2>5. Clean(t)'
    BY <2>1, <2>3 DEF Clean
  <2>6. QED
    BY <2>4, <2>5 DEF Good
<1>8. CASE ReadHeader(t)
  <2>1. /\ stage[t] = "header" /\ input # <<>>
        /\ UNCHANGED <<send_buf, owed, half>>
        /\ call'[t] = [call[t] EXCEPT !.hdr = Head(input)]
        /\ \/ Head(input).part = "hdr" /\ stage'[t] = "body" /\ input' = Tail(input)
           \/ stage'[t] = "idle"
    BY <1>3, <1>8 DEF ReadHeader, MoveTo
  <2>2. /\ call'[t].cmd = call[t].cmd /\ call'[t].id = call[t].id
        /\ call'[t].result = NoUnit /\ call'[t].clean = call[t].clean
        /\ call'[t].hdr = Head(input)
    BY <1>3, <1>4, <2>1 DEF CallRec
  <2>3. CASE stage'[t] = "idle"
    BY <2>2, <2>3 DEF Good, Sending, Receiving, Clean, Handed, OnLine
  <2>4. CASE stage'[t] = "body"
    <3>1. /\ Len(input) \in Nat \ {0} /\ Head(input) = input[1]
          /\ input[1].part = "hdr" /\ input' = Tail(input)
          /\ Len(input') = Len(input) - 1
          /\ \A i \in 1 .. Len(input') : input'[i] = input[i + 1]
          /\ input' # <<>> => Len(input) > 1 /\ Head(input') = input[2]
          /\ input' = <<>> => Len(input) = 1
      BY <2>1, <2>4, TakeUnit DEF McuTypes
    <3>2. input' # <<>> => Head(input') = Body(input[1].of)
      <4> SUFFICES ASSUME input' # <<>> PROVE input[2] = Body(input[1].of)
        BY <3>1
      <4>1. 1 \in 1 .. Len(input) - 1 /\ 1 + 1 = 2
        BY <3>1
      <4>2. QED
        BY <3>1, <4>1 DEF LineWhole
    <3>3. input' = <<>> => half = input[1].of /\ half # NoReq
      <4> SUFFICES ASSUME input' = <<>> PROVE half = input[1].of /\ half # NoReq
        OBVIOUS
      <4>1. Len(input) = 1 /\ input[Len(input)].part # "body"
        BY <3>1
      <4>2. half # NoReq /\ input[1] = Hdr(half)
        BY <2>1, <4>1 DEF LineWhole
      <4>3. QED
        BY <4>2 DEF Hdr
    <3>4. Receiving(t)'
      BY <2>1, <2>2, <2>4, <3>1, <3>2, <3>3 DEF Receiving
    <3>5. call[t].clean => AllMine(t)' /\ input[1].of.id = call[t].id
      <4>1. call[t].clean => AllMine(t)
        BY <1>3, <2>1 DEF Good, Clean
      <4>2. QED
        BY <2>1, <2>2, <3>1, <4>1, SMTT(60) DEF AllMine
    <3>6. Sending(t)' /\ Clean(t)' /\ Handed(t)'
      BY <2>2, <2>4, <3>1, <3>5 DEF Sending, Clean, Handed
    <3>7. QED
      BY <3>4, <3>6 DEF Good
  <2>5. QED
    BY <2>1, <2>3, <2>4
<1>9. CASE ReadBody(t)
  <2>1. /\ stage[t] = "body" /\ stage'[t] = "check" /\ input # <<>>
        /\ UNCHANGED <<send_buf, owed, half, call>>
        /\ recv_buf' = [recv_buf EXCEPT !.body = Head(input)]
        /\ input' = Tail(input)
    BY <1>3, <1>9 DEF ReadBody, MoveTo
  <2>2. Head(input) = Body(call[t].hdr.of)
    BY <1>3, <2>1 DEF Good, Receiving
  <2>3. recv_buf'.body = Body(call[t].hdr.of)
    BY <2>1, <2>2 DEF McuTypes, LineOK
  <2>4. call[t].clean => AllMine(t)' /\ call[t].hdr.of.id = call[t].id
    <3>1. call[t].clean => AllMine(t) /\ call[t].hdr.of.id = call[t].id
      BY <1>3, <2>1 DEF Good, Clean
    <3>2. /\ Len(input) \in Nat \ {0} /\ Len(input') = Len(input) - 1
          /\ \A i \in 1 .. Len(input') : input'[i] = input[i + 1]
      BY <2>1, TakeUnit DEF McuTypes
    <3>3. QED
      BY <2>1, <3>1, <3>2 DEF AllMine
  <2>5. Sending(t)' /\ Receiving(t)' /\ Clean(t)' /\ Handed(t)'
    BY <1>4, <2>1, <2>3, <2>4 DEF Sending, Receiving, Clean, Handed
  <2>6. QED
    BY <2>5 DEF Good
<1>10. CASE CheckAnswer(t)
  <2>1. /\ stage[t] = "check" /\ stage'[t] = "idle"
        /\ \/ Accepts(call[t]) /\ call'[t] = [call[t] EXCEPT !.result = recv_buf.body]
           \/ call'[t] = call[t]
    BY <1>3, <1>10 DEF CheckAnswer, MoveTo
  <2>2. /\ recv_buf.body = Body(call[t].hdr.of)
        /\ call[t].clean => call[t].hdr.of.id = call[t].id
    BY <1>3, <2>1 DEF Good, Receiving, Clean
  <2>3. CASE call'[t] = call[t]
    BY <1>4, <2>1, <2>3 DEF Good, Sending, Receiving, Clean, Handed, OnLine
  <2>4. CASE Accepts(call[t]) /\ call'[t] = [call[t] EXCEPT !.result = recv_buf.body]
    <3>1. /\ call'[t].cmd = call[t].cmd /\ call'[t].id = call[t].id
          /\ call'[t].hdr = call[t].hdr /\ call'[t].clean = call[t].clean
          /\ call'[t].result = Body(call[t].hdr.of)
      BY <1>3, <2>2, <2>4 DEF CallRec
    <3>2. Handed(t)'
      BY <2>2, <2>4, <3>1 DEF Handed, Accepts
    <3>3. QED
      BY <2>1, <3>2 DEF Good, Sending, Receiving, Clean, OnLine
  <2>5. QED
    BY <2>1, <2>3, <2>4
<1>11. QED
  BY <1>5, <1>6, <1>7, <1>8, <1>9, <1>10

\* What the MCU owes shrinks from the front.
LEMMA OwedTail ==
  ASSUME McuTypes, owed # <<>>
  PROVE  /\ Len(owed) \in Nat \ {0} /\ Len(Tail(owed)) = Len(owed) - 1
         /\ \A i \in 1 .. Len(Tail(owed)) : Tail(owed)[i] = owed[i + 1]
<1>1. owed \in Seq(Req)
  BY DEF McuTypes, LineOK
<1>2. QED
  BY <1>1, HeadTailProperties, EmptySeq

\* The MCU goes on with the answer it has started, and starts only answers to
\* what it was asked.
LEMMA McuStep ==
  ASSUME McuTypes, Numbered, AloneGood, McuHeader \/ McuBody \/ McuSilent
  PROVE  AloneGood'
<1>1. UNCHANGED <<send_buf, recv_buf, stage, call>> /\ overlap' = overlap
  BY Zenon DEF McuHeader, McuBody, McuSilent
<1> SUFFICES ASSUME ~ overlap, NEW t \in Caller PROVE Good(t)'
  <2>1. Alone => Alone'
    BY <1>1 DEF Alone, OnLine
  <2>2. QED
    BY <1>1, <2>1, Zenon DEF AloneGood
<1>2. Good(t)
  BY DEF AloneGood
<1>3. Sending(t)' /\ Handed(t)'
  BY <1>1, <1>2 DEF Good, Sending, Handed
<1>4. CASE McuHeader
  <2>1. /\ owed # <<>> /\ half = NoReq /\ half' # NoReq
        /\ half'.id = owed[1].id /\ half' \in Req
        /\ input' = Append(input, Hdr(half')) /\ owed' = Tail(owed)
    BY <1>4, HeaderCases
  <2>2. Hdr(half') \in Unit
    BY <2>1, NullTypes
  <2>3. /\ Len(input) \in Nat /\ Len(input') = Len(input) + 1
        /\ \A i \in 1 .. Len(input) : input'[i] = input[i]
        /\ input'[Len(input) + 1] = Hdr(half') /\ input' # <<>>
        /\ input # <<>> => Head(input') = Head(input)
    BY <2>1, <2>2, AppendUnit DEF McuTypes
  <2>4. Receiving(t)'
    BY <1>1, <1>2, <2>1, <2>3 DEF Good, Receiving, OnLine
  <2>5. /\ Len(owed) \in Nat \ {0} /\ Len(owed') = Len(owed) - 1
        /\ \A i \in 1 .. Len(owed') : owed'[i] = owed[i + 1]
    BY <2>1, OwedTail
  <2>6. AllMine(t) => AllMine(t)'
    <3> SUFFICES ASSUME AllMine(t) PROVE AllMine(t)'
      OBVIOUS
    <3>1. half'.id = call[t].id
      BY <2>1, <2>5 DEF AllMine
    <3>2. \A i \in 1 .. Len(owed') : owed'[i].id = call[t].id
      BY <2>5 DEF AllMine
    <3>3. \A i \in 1 .. Len(input') : input'[i].of.id = call[t].id
      <4> SUFFICES ASSUME NEW i \in 1 .. Len(input')
                   PROVE  input'[i].of.id = call[t].id
        OBVIOUS
      <4>1. CASE i = Len(input) + 1
        BY <2>3, <3>1, <4>1 DEF Hdr
      <4>2. CASE i # Len(input) + 1
        BY <2>3, <4>2 DEF AllMine
      <4>3. QED
        BY <4>1, <4>2
    <3>4. QED
      BY <1>1, <3>1, <3>2, <3>3 DEF AllMine
  <2>7. Clean(t)'
    BY <1>1, <1>2, <2>1, <2>6 DEF Good, Clean
  <2>8. QED
    BY <1>3, <2>4, <2>7 DEF Good
<1>5. CASE McuBody
  <2>1. /\ half # NoReq /\ half' = NoReq /\ owed' = owed /\ half \in Req
        /\ input' = Append(input, Body(half))
    BY <1>5 DEF McuBody, McuTypes, LineOK
  <2>2. Body(half) \in Unit
    BY <2>1, NullTypes
  <2>3. /\ Len(input) \in Nat /\ Len(input') = Len(input) + 1
        /\ \A i \in 1 .. Len(input) : input'[i] = input[i]
        /\ input'[Len(input) + 1] = Body(half) /\ input' # <<>>
        /\ Head(input') = IF input = <<>> THEN Body(half) ELSE Head(input)
    BY <2>1, <2>2, AppendUnit DEF McuTypes
  <2>4. Receiving(t)'
    BY <1>1, <1>2, <2>1, <2>3 DEF Good, Receiving, OnLine
  <2>5. AllMine(t) => AllMine(t)'
    <3> SUFFICES ASSUME AllMine(t) PROVE AllMine(t)'
      OBVIOUS
    <3>1. \A i \in 1 .. Len(input') : input'[i].of.id = call[t].id
      <4> SUFFICES ASSUME NEW i \in 1 .. Len(input')
                   PROVE  input'[i].of.id = call[t].id
        OBVIOUS
      <4>1. CASE i = Len(input) + 1
        BY <2>1, <2>3, <4>1 DEF Body, AllMine
      <4>2. CASE i # Len(input) + 1
        BY <2>3, <4>2 DEF AllMine
      <4>3. QED
        BY <4>1, <4>2
    <3>2. QED
      BY <1>1, <2>1, <3>1 DEF AllMine
  <2>6. Clean(t)'
    BY <1>1, <1>2, <2>1, <2>5 DEF Good, Clean
  <2>7. QED
    BY <1>3, <2>4, <2>6 DEF Good
<1>6. CASE McuSilent
  <2>1. owed # <<>> /\ owed' = Tail(owed) /\ half' = half /\ input' = input
    BY <1>6 DEF McuSilent
  <2>2. /\ Len(owed) \in Nat \ {0} /\ Len(owed') = Len(owed) - 1
        /\ \A i \in 1 .. Len(owed') : owed'[i] = owed[i + 1]
    BY <2>1, OwedTail
  <2>3. AllMine(t) => AllMine(t)'
    BY <1>1, <2>1, <2>2 DEF AllMine
  <2>4. Clean(t)'
    BY <1>1, <1>2, <2>1, <2>3 DEF Good, Clean
  <2>5. Receiving(t)'
    BY <1>1, <1>2, <2>1 DEF Good, Receiving, OnLine
  <2>6. QED
    BY <1>3, <2>4, <2>5 DEF Good
<1>7. QED
  BY <1>4, <1>5, <1>6

\* A request makes its thread the only one on the line, or is an overlap.
LEMMA RequestStep ==
  ASSUME McuTypes, AloneGood, NEW t \in Caller, NEW cmd \in Cmds,
         NEW read \in BOOLEAN, BeginCall(t, cmd, read)
  PROVE  AloneGood'
<1>1. /\ ~ overlap' => ~ overlap
      /\ ~ overlap' => \A u \in Caller \ {t} : ~ OnLine(u)
  BY Zenon DEF BeginCall
<1>2. /\ \A u \in Caller \ {t} : stage'[u] = stage[u] /\ call'[u] = call[u]
      /\ stage'[t] \in {"flush", "write"}
      /\ call'[t] = [NoCall EXCEPT !.cmd = cmd, !.id = calls + 1, !.read = read]
  BY DEF BeginCall, MoveTo, McuTypes, CallsOK, McuThread
<1>3. /\ call'[t].id = calls + 1 /\ call'[t].cmd = cmd
      /\ call'[t].result = NoUnit /\ ~ call'[t].clean
  BY <1>2 DEF NoCall
<1>4. cmd \in TunnerCmds => send_buf'.id = calls + 1
  BY DEF BeginCall, NoReq
<1>5. Good(t)'
  BY <1>2, <1>3, <1>4 DEF Good, Sending, Receiving, Clean, Handed
<1>6. QED
  BY <1>1, <1>2, <1>5, OneThreadStep, Zenon

\* The tuner chip's calls leave the line alone.
LEMMA OffLineStep ==
  ASSUME AloneGood, line' = line, overlap' = overlap,
         \A t \in Caller :
            \/ stage'[t] = stage[t] /\ call'[t] = call[t]
            \/ ~ OnLine(t)' /\ call'[t] = call[t]
            \/ ~ OnLine(t)' /\ call'[t].result = NoUnit
  PROVE  AloneGood'
<1> SUFFICES ASSUME ~ overlap PROVE Alone' /\ \A t \in Caller : Good(t)'
  BY Zenon DEF AloneGood
<1>1. Alone /\ \A t \in Caller : Good(t)
  BY DEF AloneGood
<1>2. Alone'
  BY <1>1 DEF Alone, OnLine
<1>3. ASSUME NEW t \in Caller PROVE Good(t)'
  <2>1. CASE stage'[t] = stage[t] /\ call'[t] = call[t]
    BY <1>1, <2>1
    DEF Good, Sending, Receiving, Clean, AllMine, Handed, OnLine, line
  <2>2. CASE ~ OnLine(t)' /\ (call'[t] = call[t] \/ call'[t].result = NoUnit)
    <3>1. Handed(t)'
      BY <1>1, <2>2 DEF Good, Handed
    <3>2. QED
      BY <2>2, <3>1 DEF Good, Sending, Receiving, Clean, OnLine
  <2>3. QED
    BY <2>1, <2>2
<1>4. QED
  BY <1>2, <1>3

\* Every step.
LEMMA AloneGoodStep ==
  ASSUME McuTypes, McuTypes', Numbered, LineWhole, AloneGood, [McuNext]_McuVars
  PROVE  AloneGood'
<1>1. ASSUME NEW t \in McuThread, DoSetParam(t) \/ PutParam(t) \/ GetSignalInfo(t)
      PROVE  AloneGood'
  <2>1. line' = line /\ overlap' = overlap /\ call' = call
    BY <1>1, Zenon DEF DoSetParam, PutParam, GetSignalInfo
  <2>2. \A u \in Caller : stage'[u] = stage[u] \/ ~ OnLine(u)'
    BY <1>1 DEF DoSetParam, PutParam, GetSignalInfo, MoveTo, OnLine, McuTypes, CallsOK,
                McuThread
  <2>3. QED
    BY <2>1, <2>2, OffLineStep
<1>2. CASE DeviceSet
  <2>1. PICK t \in Caller, i \in TunnerIds, p \in Params :
            /\ stage' = [stage EXCEPT ![t] = "set"]
            /\ call' = [call EXCEPT ![t] = [NoCall EXCEPT !.tunner = i,
                                                          !.param = p]]
            /\ line' = line /\ overlap' = overlap
    BY <1>2, DeviceSetCases, Zenon
  <2>2. [NoCall EXCEPT !.tunner = i, !.param = p].result = NoUnit
    BY DeviceCallTypes
  <2>3. /\ stage'[t] = "set" /\ call'[t].result = NoUnit
        /\ \A u \in Caller \ {t} : stage'[u] = stage[u] /\ call'[u] = call[u]
    BY <2>1, <2>2 DEF McuTypes, CallsOK, McuThread
  <2>4. QED
    BY <2>1, <2>3, OffLineStep DEF OnLine
<1>3. CASE \/ DeviceGetStatus \/ DeviceCheck \/ LookAtStatus \/ ResetChip
           \/ DoSetInfo \/ UNCHANGED McuVars
  <2>1. line' = line /\ overlap' = overlap /\ call' = call
    BY <1>3, Zenon DEF DeviceGetStatus, DeviceCheck, LookAtStatus, ResetChip,
                       DoSetInfo, McuVars
  <2>2. \A u \in Caller : stage'[u] = stage[u] \/ stage'[u] = "status"
    BY <1>3 DEF DeviceGetStatus, DeviceCheck, LookAtStatus, ResetChip, DoSetInfo,
                McuVars, MoveTo, McuTypes, CallsOK, McuThread, Caller
  <2>3. QED
    BY <2>1, <2>2, OffLineStep DEF OnLine
<1>4. QED
  BY <1>1, <1>2, <1>3, ExchangeStep, McuStep, RequestStep, NextCases DEF McuThread

-----------------------------------------------------------------------------
(* The theorems                                                            *)

\* The initial state.
LEMMA McuInitInv == ASSUME McuInit PROVE McuInv
<1>1. LineOK /\ chans \in Products
  BY NullTypes DEF McuInit, LineOK
<1>2. NoCall \in CallRec /\ NoCall.result = NoUnit
  <2>1. 0 \in 0 .. MaxCalls
    BY McuAssumption
  <2>2. QED
    BY <2>1, NullTypes DEF NoCall, CallRec, TunnerIds
<1>3. CallsOK
  BY <1>2, McuAssumption DEF McuInit, CallsOK, Places
<1>4. DeviceOK
  BY McuAssumption DEF McuInit, DeviceOK, None, McuThread
<1>5. ChipFlagsOK
  BY Zenon DEF McuInit, ChipFlagsOK
<1>6. Numbered /\ LineWhole
  BY DEF McuInit, Numbered, LineWhole, OnLine, McuThread
<1>7. Alone /\ \A t \in Caller : Good(t)
  BY <1>2 DEF McuInit, Alone, Good, Sending, Receiving, Clean, Handed, OnLine, McuThread
<1>8. QED
  BY <1>1, <1>3, <1>4, <1>5, <1>6, <1>7 DEF McuInv, McuTypes, AloneGood

\* The invariant of the serial line.
THEOREM McuInductive == McuSpec => []McuInv
<1>1. McuInit => McuInv
  BY McuInitInv
<1>2. McuInv /\ [McuNext]_McuVars => McuInv'
  BY McuTypesStep, NumberedStep, WholeStep, AloneGoodStep DEF McuInv
<1>3. QED
  BY <1>1, <1>2, PTL DEF McuSpec

\* What a thread is handed is a whole answer to its command and, on a line that
\* owed nothing, to its very request, unless two threads met on the line.
THEOREM AnswersAreRight == McuSpec => []AnswerIsRight
<1>1. McuInv => AnswerIsRight
  <2> SUFFICES ASSUME McuInv PROVE AnswerIsRight
    OBVIOUS
  <2>1. McuTypeOK
    <3>1. /\ \A i \in DOMAIN owed : owed[i] \in Req
          /\ \A i \in DOMAIN input : input[i] \in Unit
      BY DEF McuInv, McuTypes, LineOK
    <3>2. QED
      BY <3>1, Zenon
      DEF McuInv, McuTypes, LineOK, CallsOK, CallRec, DeviceOK, ChipFlagsOK, McuTypeOK
  <2>2. ASSUME ~ overlap, NEW t \in Caller, call[t].result # NoUnit
        PROVE  /\ call[t].result.part = "body"
               /\ call[t].result.of = call[t].hdr.of
               /\ call[t].hdr.of.cmd = call[t].cmd
               /\ call[t].clean => call[t].hdr.of.id = call[t].id
    <3>1. /\ call[t].result = Body(call[t].hdr.of)
          /\ call[t].hdr.of.cmd = call[t].cmd
          /\ call[t].clean => call[t].hdr.of.id = call[t].id
      BY <2>2, Zenon DEF McuInv, AloneGood, Good, Handed
    <3>2. \A r : Body(r).part = "body" /\ Body(r).of = r
      BY DEF Body
    <3>3. QED
      BY <3>1, <3>2, Zenon
  <2>3. AnswerIsWhole /\ AnswerIsOwn
    BY <2>2 DEF AnswerIsWhole, AnswerIsOwn
  <2>4. QED
    BY <2>1, <2>3 DEF AnswerIsRight
<1>2. QED
  BY <1>1, McuInductive, PTL
==============================================================================
