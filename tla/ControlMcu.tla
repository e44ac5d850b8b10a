----------------------------- MODULE ControlMcu -----------------------------
(* Access to the tuners and the BCM3033. In the four channel product they     *)
(* hang on a control MCU behind a serial line (ctrl_mcu.c): the agent's and   *)
(* the front panel's threads exchange requests and answers with it through    *)
(* one static receive buffer and, for the tuners, one static send buffer.     *)
(* In the one channel product the tuner is a chip of its own                  *)
(* (xmux_tunner_device.c), which the main loop also checks and restarts.      *)
(* An answer is two units on the line, its header and its body. The MCU may   *)
(* be slow or silent, may answer writes or not, and may be of another version *)
(* whose parameters have another size.                                        *)
EXTENDS Integers, Sequences, FiniteSets

CONSTANTS
  Products,   \* values of CHANNEL_MAX_NUM (xmux.h)
  ParamCmds,  \* CTRL_MCU_CMD_TUNNERn_PARAM
  StatusCmds, \* CTRL_MCU_CMD_TUNNERn_STATUS
  Params,     \* tuner parameters
  MaxCalls    \* bound on the calls

ASSUME McuAssumption ==
  Products \subseteq {1, 4} /\ MaxCalls \in Nat /\ "none" \notin Params

CTRL_MCU_CMD_BCM3033 == "bcm3033"
TunnerCmds == ParamCmds \cup StatusCmds
Cmds == TunnerCmds \cup {CTRL_MCU_CMD_BCM3033}
Caller == {"agent", "fp"}
McuThread == Caller \cup {"main"}
TunnerIds == {0, 1}
None == "none"

VARIABLES
  chans,           \* CHANNEL_MAX_NUM
  send_buf,        \* xmux_tunner.c's send_buf
  recv_buf,        \* ctrl_mcu_send_and_recv_cmd's recv_buf
  owed,            \* requests the MCU has not dealt with
  half,            \* the answer of which only the header has been sent, or None
  input,           \* units that have arrived
  stage, call,        \* per thread: where it is, and its call
  calls,           \* number of calls
  tunergetflag, chip, tunner, locked, \* the chip, the saved parameters, the last status
  overlap          \* history: two threads were on the line together

line == <<send_buf, recv_buf, owed, half, input>>
device == <<tunergetflag, chip, tunner, locked>>
McuVars == <<chans, line, stage, call, calls, device, overlap>>

NoReq == [cmd |-> None, id |-> 0, size |-> "ok"]
NoUnit == [part |-> None, of |-> NoReq]
NoCall == [cmd |-> None, id |-> 0, read |-> FALSE, clean |-> FALSE, hdr |-> NoUnit,
           result |-> NoUnit, tunner |-> 0, param |-> None]
Hdr(r) == [part |-> "hdr", of |-> r]
Body(r) == [part |-> "body", of |-> r]

McuInit ==
  /\ chans \in Products
  /\ send_buf = NoReq /\ recv_buf = [hdr |-> NoUnit, body |-> NoUnit]
  /\ owed = <<>> /\ half = NoReq /\ input = <<>>
  /\ stage = [t \in McuThread |-> "idle"] /\ call = [t \in McuThread |-> NoCall]
  /\ calls = 0
  /\ \E p \in Params : tunner = [i \in TunnerIds |-> p] /\ chip = p
  /\ tunergetflag = FALSE /\ locked = TRUE
  /\ overlap = FALSE

MoveTo(t, at) == stage' = [stage EXCEPT ![t] = at]
OnLine(t) == stage[t] \in {"flush", "write", "header", "body", "check"}
-----------------------------------------------------------------------------
(* The serial line *)

\* tunner_get_param, tunner_get_status, bcm3033_get_param and the setters; each
\* call's id tells its request from all others.
BeginCall(t, cmd, read) ==
  /\ chans = 4 \/ cmd = CTRL_MCU_CMD_BCM3033
  /\ stage[t] = "idle" /\ calls < MaxCalls
  /\ calls' = calls + 1
  /\ call' = [call EXCEPT ![t] = [NoCall EXCEPT !.cmd = cmd, !.id = calls + 1, !.read = read]]
  /\ send_buf' = IF cmd \in TunnerCmds THEN [NoReq EXCEPT !.cmd = cmd, !.id = calls + 1] ELSE send_buf
  /\ overlap' = (overlap \/ \E u \in Caller \ {t} : OnLine(u))
  /\ MoveTo(t, IF read THEN "flush" ELSE "write")
  /\ UNCHANGED <<chans, recv_buf, owed, half, input, device>>

GetParam == \E t \in Caller, cmd \in Cmds : BeginCall(t, cmd, TRUE)
SetParam == \E t \in Caller, cmd \in Cmds \ StatusCmds : BeginCall(t, cmd, FALSE)

NoFlush(t) ==
  /\ stage[t] = "flush"
  /\ call' = [call EXCEPT ![t].clean = owed = <<>> /\ half = NoReq]
  /\ MoveTo(t, "write")
  /\ UNCHANGED <<chans, line, calls, device, overlap>>

\* Reads until the line has nothing more. clean records that the MCU owed
\* nothing by then.
Flush(t) ==
  /\ stage[t] = "flush"
  /\ input' = <<>>
  /\ recv_buf' = IF input = <<>> THEN recv_buf ELSE [hdr |-> NoUnit, body |-> NoUnit]
  /\ call' = [call EXCEPT ![t].clean = owed = <<>> /\ half = NoReq]
  /\ MoveTo(t, "write")
  /\ UNCHANGED <<chans, send_buf, owed, half, calls, device, overlap>>

\* The request is what the send buffer holds by now, or the write fails.
Write(t) ==
  /\ stage[t] = "write"
  /\ \/ /\ owed' = Append(owed, IF call[t].cmd \in TunnerCmds THEN send_buf
                                ELSE [NoReq EXCEPT !.cmd = call[t].cmd, !.id = call[t].id])
        /\ MoveTo(t, IF call[t].read THEN "header" ELSE "idle")
     \/ MoveTo(t, "idle") /\ UNCHANGED owed
  /\ UNCHANGED <<chans, send_buf, recv_buf, half, input, call, calls, device, overlap>>

\* Nothing came for a second.
NoTimeout(t) == FALSE /\ UNCHANGED McuVars
Timeout(t) ==
  /\ stage[t] \in {"header", "body"} /\ input = <<>>
  /\ MoveTo(t, "idle")
  /\ UNCHANGED <<chans, line, call, calls, device, overlap>>

\* A body in place of a header has no sync byte there (parameters that start with
\* it by chance are not modelled): all input is thrown away.
ReadHeader(t) ==
  /\ stage[t] = "header" /\ input # <<>>
  /\ LET u == Head(input)
     IN  /\ recv_buf' = [recv_buf EXCEPT !.hdr = u]
         /\ call' = [call EXCEPT ![t].hdr = u]
         /\ \/ u.part = "hdr" /\ u.of.size # "large" /\ MoveTo(t, "body") /\ input' = Tail(input)
            \/ u.part = "hdr" /\ u.of.size = "large" /\ MoveTo(t, "idle") /\ input' = Tail(input)
            \/ u.part = "body" /\ MoveTo(t, "idle") /\ input' = <<>>
  /\ UNCHANGED <<chans, send_buf, owed, half, calls, device, overlap>>

ReadBody(t) ==
  /\ stage[t] = "body" /\ input # <<>>
  /\ recv_buf' = [recv_buf EXCEPT !.body = Head(input)]
  /\ input' = Tail(input)
  /\ MoveTo(t, "check")
  /\ UNCHANGED <<chans, send_buf, owed, half, call, calls, device, overlap>>

Accepts(c) == c.hdr.of.cmd = c.cmd /\ c.hdr.of.size = "ok"

\* The header was copied when it came, the parameters are taken from the buffer now.
CheckAnswer(t) ==
  /\ stage[t] = "check"
  /\ call' = IF Accepts(call[t]) THEN [call EXCEPT ![t].result = recv_buf.body] ELSE call
  /\ MoveTo(t, "idle")
  /\ UNCHANGED <<chans, line, calls, device, overlap>>

\* The MCU: its answer comes header first, or not at all.
McuHeader ==
  /\ owed # <<>> /\ half = NoReq
  /\ \E size \in {"ok", "other", "large"} :
       LET r == [Head(owed) EXCEPT !.size = size]
       IN  half' = r /\ input' = Append(input, Hdr(r))
  /\ owed' = Tail(owed)
  /\ UNCHANGED <<chans, send_buf, recv_buf, stage, call, calls, device, overlap>>
McuBody ==
  /\ half # NoReq
  /\ input' = Append(input, Body(half))
  /\ half' = NoReq
  /\ UNCHANGED <<chans, send_buf, recv_buf, owed, stage, call, calls, device, overlap>>
McuSilent ==
  /\ owed # <<>> /\ owed' = Tail(owed)
  /\ UNCHANGED <<chans, send_buf, recv_buf, half, input, stage, call, calls, device, overlap>>

Exchange(t) == Flush(t) \/ Write(t) \/ Timeout(t) \/ ReadHeader(t) \/ ReadBody(t) \/ CheckAnswer(t)
-----------------------------------------------------------------------------
(* The tuner chip of the one channel product *)

\* tunner_device_set_param: the flag is set, never waited for.
DeviceSet ==
  \E t \in Caller, i \in TunnerIds, p \in Params :
    /\ chans = 1 /\ stage[t] = "idle" /\ calls < MaxCalls
    /\ calls' = calls + 1
    /\ tunergetflag' = TRUE
    /\ call' = [call EXCEPT ![t] = [NoCall EXCEPT !.tunner = i, !.param = p]]
    /\ MoveTo(t, "set")
    /\ UNCHANGED <<chans, line, chip, tunner, locked, overlap>>

DoSetParam(t) ==
  /\ stage[t] = "set"
  /\ chip' = call[t].param
  /\ MoveTo(t, "put")
  /\ UNCHANGED <<chans, line, call, calls, tunergetflag, tunner, locked, overlap>>

PutKeepsFlag(t) ==
  /\ stage[t] = "put"
  /\ tunner' = [tunner EXCEPT ![call[t].tunner] = call[t].param]
  /\ MoveTo(t, "idle")
  /\ UNCHANGED <<chans, line, call, calls, tunergetflag, chip, locked, overlap>>

\* Saved after the chip has been set, whichever tuner was meant.
PutParam(t) ==
  /\ stage[t] = "put"
  /\ tunner' = [tunner EXCEPT ![call[t].tunner] = call[t].param]
  /\ tunergetflag' = FALSE
  /\ MoveTo(t, "idle")
  /\ UNCHANGED <<chans, line, call, calls, chip, locked, overlap>>

DeviceGetStatus ==
  \E t \in Caller :
    /\ chans = 1 /\ stage[t] = "idle" /\ calls < MaxCalls
    /\ calls' = calls + 1
    /\ tunergetflag' = TRUE
    /\ MoveTo(t, "status")
    /\ UNCHANGED <<chans, line, call, chip, tunner, locked, overlap>>

GetSignalInfo(t) ==
  /\ stage[t] = "status"
  /\ tunergetflag' = FALSE
  /\ MoveTo(t, IF t = "main" THEN "looked" ELSE "idle")
  /\ locked' \in BOOLEAN
  /\ UNCHANGED <<chans, line, call, calls, chip, tunner, overlap>>

\* tunner_device_check: nothing while another thread uses the chip.
DeviceCheck ==
  /\ chans = 1 /\ stage["main"] = "idle" /\ ~tunergetflag
  /\ MoveTo("main", "look")
  /\ UNCHANGED <<chans, line, call, calls, device, overlap>>
LookAtStatus ==
  /\ stage["main"] = "look"
  /\ tunergetflag' = TRUE
  /\ MoveTo("main", "status")
  /\ UNCHANGED <<chans, line, call, calls, chip, tunner, locked, overlap>>
ResetChip ==
  /\ stage["main"] = "looked"
  /\ IF locked THEN MoveTo("main", "idle") /\ UNCHANGED chip
     ELSE MoveTo("main", "restart") /\ chip' = None
  /\ UNCHANGED <<chans, line, call, calls, tunergetflag, tunner, locked, overlap>>
DoSetInfo ==
  /\ stage["main"] = "restart"
  /\ chip' = tunner[0]
  /\ MoveTo("main", "idle")
  /\ UNCHANGED <<chans, line, call, calls, tunergetflag, tunner, locked, overlap>>

MainStep == DeviceCheck \/ LookAtStatus \/ GetSignalInfo("main") \/ ResetChip \/ DoSetInfo
CallerStep(t) == Exchange(t) \/ DoSetParam(t) \/ PutParam(t) \/ GetSignalInfo(t)

McuNext ==
  \/ GetParam \/ SetParam \/ DeviceSet \/ DeviceGetStatus
  \/ \E t \in Caller : CallerStep(t)
  \/ MainStep
  \/ McuHeader \/ McuBody \/ McuSilent

Fairness == WF_McuVars(MainStep) /\ WF_McuVars(\E t \in Caller : CallerStep(t))
McuSpec == McuInit /\ [][McuNext]_McuVars /\ Fairness
-----------------------------------------------------------------------------
(* Properties *)

Req == [cmd : Cmds \cup {None}, id : 0..MaxCalls, size : {"ok", "other", "large"}]
Unit == [part : {"hdr", "body", None}, of : Req]
\* Every variable has its type. The chip is without parameters only while the
\* main loop restarts it.
McuTypeOK ==
  /\ chans \in Products /\ send_buf \in Req /\ half \in Req
  /\ recv_buf \in [hdr : Unit, body : Unit]
  /\ \A i \in DOMAIN owed : owed[i] \in Req
  /\ \A i \in DOMAIN input : input[i] \in Unit
  /\ call \in [McuThread -> [cmd : Cmds \cup {None}, id : 0..MaxCalls, read : BOOLEAN, clean : BOOLEAN,
                          hdr : Unit, result : Unit, tunner : TunnerIds, param : Params \cup {None}]]
  /\ tunner \in [TunnerIds -> Params] /\ chip \in Params \cup {None}
  /\ chip = None => stage["main"] = "restart"
  /\ {tunergetflag, locked, overlap} \subseteq BOOLEAN

\* As long as the threads do not meet on the line, parameters handed to a caller
\* are a whole answer to the command it asked for, even when earlier answers
\* came late, were cut off by a timeout or had another size.
AnswerIsWhole ==
  ~overlap => \A t \in Caller : call[t].result # NoUnit =>
                /\ call[t].result.part = "body"
                /\ call[t].result.of.cmd = call[t].cmd
                /\ call[t].result.of = call[t].hdr.of

\* If moreover the MCU owed nothing when the line was flushed, the answer is the
\* one to this very request and not what was left over from another.
AnswerIsOwn ==
  ~overlap => \A t \in Caller : call[t].result # NoUnit /\ call[t].clean =>
                call[t].result.of.id = call[t].id

\* Every call comes back: a silent MCU costs a timeout and no more.
CallsEnd == <>[](\A t \in Caller : stage[t] = "idle")

\* However sets, status reads and the main loop's restarts interleave, in the end
\* the chip works with the saved parameters of tuner 0, or it has a lock.
ChipRecovers == <>[](chip = tunner[0] \/ locked \/ stage["main"] # "idle")

\* What a caller is handed answers its own command and, on a line that owed
\* nothing, its own request (ctrl_mcu_send_and_recv_cmd).
AnswerIsRight == McuTypeOK /\ AnswerIsWhole /\ AnswerIsOwn
==============================================================================
