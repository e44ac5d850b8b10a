----------------------------- MODULE PsiWorker -----------------------------
(***************************************************************************)
(* psi_worker.c: the front panel thread and the SNMP agent ask one worker  *)
(* thread to parse the psi.  psi_parsing_active_manager is both the busy   *)
(* flag of psi_worker_request_parse_psi and the argument of the parse, and *)
(* no lock protects it.  The worker's message queue is the Mailbox that    *)
(* MessageQueue implements; a message carries, as history, the manager     *)
(* that asked for it.                                                      *)
(***************************************************************************)
EXTENDS Naturals, Sequences

CONSTANTS
    FpThread, Agent,    \* the threads that call psi_worker_request_parse_psi
    MaxQueue            \* bound: messages in the queue

ASSUME PsiWorkerAssumption == FpThread # Agent /\ MaxQueue \in Nat

Managers == {"FP", "SNMP"}

\* start_parse_psi_set asks for either parse, the front panel for its own.
Requesters == {FpThread, Agent}
Asks(t) == IF t = Agent THEN Managers ELSE {"FP"}

VARIABLES
    manager,    \* psi_parsing_active_manager, "none" for -1
    mblist,     \* the queued messages, last put first
    req_pc,     \* where each requester is
    req_mgr,    \* its request_manager argument
    worker_pc,  \* where the worker is
    job,        \* the manager that asked for the message in hand
    run,        \* the parse that runs: fp_psi_parse or uvSI_psi_parse
    overlap     \* history: two requests passed the busy check together

requests == <<req_pc, req_mgr>>
worker == <<worker_pc, job, run>>
WorkerVars == <<manager, mblist, requests, worker, overlap>>

\* Every variable has its type.
WorkerTypeOK ==
    /\ manager \in Managers \cup {"none"}
    /\ mblist \in Seq(Managers)
    /\ req_pc \in [Requesters -> {"idle", "alloc", "set", "put"}]
    /\ req_mgr \in [Requesters -> Managers]
    /\ worker_pc \in {"get", "dispatch", "parse", "clear"}
    /\ job \in Managers /\ run \in Managers
    /\ overlap \in BOOLEAN

WorkerInit ==
    /\ manager = "none"
    /\ mblist = <<>>
    /\ req_pc = [t \in Requesters |-> "idle"]
    /\ req_mgr = [t \in Requesters |-> "SNMP"]
    /\ worker_pc = "get" /\ job = "SNMP" /\ run = "SNMP"
    /\ overlap = FALSE

-----------------------------------------------------------------------------
(* psi_worker_request_parse_psi                                            *)

InRequest == {t \in Requesters : req_pc[t] # "idle"}

\* Nothing of an earlier request is left, so that the worker waits.
Quiet == mblist = <<>> /\ worker_pc = "get" /\ InRequest = {}

Refuse(t) ==
    /\ req_pc[t] = "idle" /\ manager # "none"
    /\ UNCHANGED WorkerVars

\* Mutants: the flag is set before the allocation; the check is dropped.
CheckAndSet(t, m) ==
    /\ req_pc[t] = "idle" /\ manager = "none"
    /\ Len(mblist) < MaxQueue
    /\ manager' = m
    /\ req_pc' = [req_pc EXCEPT ![t] = "alloc"]
    /\ req_mgr' = [req_mgr EXCEPT ![t] = m]
    /\ UNCHANGED <<mblist, worker, overlap>>

CheckNothing(t, m) ==
    /\ req_pc[t] = "idle"
    /\ Len(mblist) < MaxQueue
    /\ req_pc' = [req_pc EXCEPT ![t] = "alloc"]
    /\ req_mgr' = [req_mgr EXCEPT ![t] = m]
    /\ overlap' = (IF Quiet THEN FALSE ELSE overlap \/ InRequest # {})
    /\ UNCHANGED <<manager, mblist, worker>>

\* The busy check; a request that passes it while another request is on its
\* way overlaps.
Check(t, m) ==
    /\ req_pc[t] = "idle" /\ manager = "none"
    /\ Len(mblist) < MaxQueue
    /\ req_pc' = [req_pc EXCEPT ![t] = "alloc"]
    /\ req_mgr' = [req_mgr EXCEPT ![t] = m]
    /\ overlap' = (IF Quiet THEN FALSE ELSE overlap \/ InRequest # {})
    /\ UNCHANGED <<manager, mblist, worker>>

\* message_block_new fails when there is no memory: -ENOMEM.
AllocFails(t) ==
    /\ req_pc[t] = "alloc"
    /\ req_pc' = [req_pc EXCEPT ![t] = "idle"]
    /\ UNCHANGED <<manager, mblist, req_mgr, worker, overlap>>

Alloc(t) ==
    /\ req_pc[t] = "alloc"
    /\ req_pc' = [req_pc EXCEPT ![t] = "set"]
    /\ UNCHANGED <<manager, mblist, req_mgr, worker, overlap>>

SetManager(t) ==
    /\ req_pc[t] = "set"
    /\ manager' = req_mgr[t]
    /\ req_pc' = [req_pc EXCEPT ![t] = "put"]
    /\ UNCHANGED <<mblist, req_mgr, worker, overlap>>

PutMessage(t) ==
    /\ req_pc[t] = "put"
    /\ mblist' = <<req_mgr[t]>> \o mblist
    /\ req_pc' = [req_pc EXCEPT ![t] = "idle"]
    /\ UNCHANGED <<manager, req_mgr, worker, overlap>>

RequestStep(t) == AllocFails(t) \/ Alloc(t) \/ SetManager(t) \/ PutMessage(t)

-----------------------------------------------------------------------------
(* psi_worker_thread                                                       *)

GetMessage ==
    /\ worker_pc = "get" /\ mblist # <<>>
    /\ job' = Head(mblist)
    /\ mblist' = Tail(mblist)
    /\ worker_pc' = "dispatch"
    /\ UNCHANGED <<manager, requests, run, overlap>>

\* Mutant: no default for a message without manager.
DispatchNoDefault ==
    /\ worker_pc = "dispatch"
    /\ run' = manager
    /\ worker_pc' = "parse"
    /\ UNCHANGED <<manager, mblist, requests, job, overlap>>

\* Every manager but the front panel gets the SNMP parse, -1 included.
Dispatch ==
    /\ worker_pc = "dispatch"
    /\ run' = IF manager = "FP" THEN "FP" ELSE "SNMP"
    /\ worker_pc' = "parse"
    /\ UNCHANGED <<manager, mblist, requests, job, overlap>>

ParseDone ==
    /\ worker_pc = "parse"
    /\ worker_pc' = "clear"
    /\ UNCHANGED <<manager, mblist, requests, job, run, overlap>>

\* Mutant: the worker forgets to clear the flag.
ClearNothing ==
    /\ worker_pc = "clear"
    /\ worker_pc' = "get"
    /\ UNCHANGED <<manager, mblist, requests, job, run, overlap>>

ClearManager ==
    /\ worker_pc = "clear"
    /\ manager' = "none"
    /\ worker_pc' = "get"
    /\ UNCHANGED <<mblist, requests, job, run, overlap>>

WorkerStep == GetMessage \/ Dispatch \/ ParseDone \/ ClearManager

-----------------------------------------------------------------------------
WorkerNext ==
    \/ \E t \in Requesters :
        \/ Refuse(t)
        \/ \E m \in Asks(t) : Check(t, m)
        \/ RequestStep(t)
    \/ WorkerStep

WorkerSpec == WorkerInit /\ [][WorkerNext]_WorkerVars

\* The threads run; every parse ends (PsiParse), and nobody has to ask.
WorkerFairness == WF_WorkerVars(WorkerStep) /\ \A t \in Requesters : WF_WorkerVars(RequestStep(t))

WorkerFairSpec == WorkerSpec /\ WorkerFairness

-----------------------------------------------------------------------------
(* Properties                                                              *)

WorkerBusy == worker_pc # "get"

\* The busy flag never outlives its cause: while it is set, a requester is
\* about to put its message, or one is queued, or the worker is at work on
\* one and will clear it.  A flag without a cause would refuse every later
\* parse until the device restarts.
BusyHasCause ==
    manager # "none" =>
        \/ \E t \in Requesters : req_pc[t] = "put"
        \/ mblist # <<>>
        \/ WorkerBusy

\* "return error if it's busy": no request is accepted while another one
\* has not been served.
OneRequestAtATime == Len(mblist) <= IF WorkerBusy THEN 0 ELSE 1

\* Requests that do not overlap in the unlocked check are served one at a
\* time, and each by the parse of the manager that asked for it.
RequestsServed ==
    ~overlap => /\ OneRequestAtATime
                /\ worker_pc \in {"parse", "clear"} => run = job

\* Without an overlap a request is in one place, and the manager is its.
OneRequest ==
    /\ \A t, u \in InRequest : t = u
    /\ InRequest # {} => mblist = <<>> /\ ~WorkerBusy
    /\ WorkerBusy => mblist = <<>> /\ manager # "none"
    /\ mblist # <<>> => \E m \in Managers : mblist = <<m>> /\ manager = m
    /\ worker_pc = "dispatch" => manager = job
    /\ worker_pc \in {"parse", "clear"} => run = job
    /\ \A t \in Requesters :
        /\ req_pc[t] \in {"alloc", "set"} => manager = "none"
        /\ req_pc[t] = "put" => manager = req_mgr[t]

WorkerIInv == WorkerTypeOK /\ BusyHasCause /\ (~overlap => OneRequest)

\* A parse request is never refused for ever: the busy flag is cleared again.
BusyEnds == manager # "none" ~> manager = "none"
=============================================================================
