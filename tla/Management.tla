----------------------------- MODULE Management -----------------------------
(***************************************************************************)
(* Who manages the multiplexer.  The device has two managers: the front    *)
(* panel (a serial line, served by fp_thread) and SNMP clients (served by  *)
(* wu_agent_loop).  They share, without a lock, the login status           *)
(* sg_mib_heartDevice.flag, management_mode, the heart-beat time and the   *)
(* tables the two of them edit; a third thread, the main loop, ends the    *)
(* SNMP session when the heart beat stops, and a fourth, the psi worker,   *)
(* suspends that check while it parses.  One action per step of a thread   *)
(* that another thread can observe.                                        *)
(***************************************************************************)
EXTENDS Naturals

CONSTANTS
    Clients,        \* addresses of SNMP clients
    Configs,        \* values of a configuration table
    HeartTimeout,   \* seconds without heart beat a session survives (15)
    MaxVarBinds,    \* bound: variable bindings of one request
    MaxVersion      \* bound: value of a table version

ASSUME ManagementAssumption ==
    /\ Clients # {} /\ Configs # {}
    /\ HeartTimeout \in Nat
    /\ MaxVarBinds \in Nat \ {0}
    /\ MaxVersion \in Nat

VARIABLES
    management_mode,    \* "FP" | "SNMP"
    flag,               \* sg_mib_heartDevice.flag, the login status
    login_addr,         \* address of the candidate manager
    heart_age,          \* time(NULL) - heart_device_time, saturating
    disable_check,      \* the heart-beat check is suspended
    \* agent thread
    agent_pc,           \* where wu_agent_loop is
    addr,               \* sender of the datagram in hand
    readonly,           \* client->readonly
    nvars,              \* variable bindings left in the datagram
    vb,                 \* the variable binding in hand
    \* front panel thread, main loop, psi worker
    fp_pc, fp_cmd, main_pc, parsing,
    \* configuration tables, one value each
    prog,               \* g_prog_info_table, the front panel's edition
    eeprom,             \* g_eeprom_param, the applied tables
    mib,                \* sg_mib_pid_trans_info and sg_mib_trans.table
    eeprom_version, snmp_version,   \* g_param_mng_info
    save_pid_trans_info,            \* a save is pending for the main loop
    \* history variables
    owner,              \* the client of the last accepted login
    race,               \* an SNMP request overlapped entering the fp mode
    dirty               \* tables a client edited and has not applied

session == <<flag, login_addr, owner>>
agent   == <<agent_pc, addr, readonly, nvars, vb>>
fp      == <<fp_pc, fp_cmd>>
tables  == <<prog, eeprom, mib, eeprom_version, snmp_version,
             save_pid_trans_info, dirty>>
check   == <<heart_age, disable_check>>
vars    == <<management_mode, session, agent, fp, main_pc, parsing, tables,
             check, race>>

LoginStatus == {"SUCCESS", "BUSY", "USER_NAME_INVALID", "PASSWORD_INVALID",
                "IDLE"}
Credentials == {"good", "bad_user", "bad_password"}
Tables      == {"pid_trans_info", "pid_map_table"}

\* What a set request may carry; "other" stands for the objects whose setter
\* touches nothing of this module.
VarBinds == [obj : {"load_info"},    val : Credentials]
    \cup    [obj : {"heart_device"}, val : LoginStatus]
    \cup    [obj : Tables,           val : Configs]
    \cup    [obj : {"apply_psi", "other"}, val : {"none"}]

NoBinding == [obj |-> "other", val |-> "none"]

\* Front panel commands.  "edit" stands for the program writes, which
\* change g_prog_info_table; "read" for READ_TS_STATUS and the read of the
\* output rate; "enter" also for every other command that forces the fp mode
\* and edits no table.
FpCmds == {"enter", "leave", "read", "edit", "apply"}

\* Every variable has its type.
TypeOK ==
    /\ management_mode \in {"FP", "SNMP"}
    /\ flag \in LoginStatus
    /\ login_addr \in Clients /\ owner \in Clients /\ addr \in Clients
    /\ heart_age \in 0 .. HeartTimeout + 1
    /\ disable_check \in BOOLEAN
    /\ agent_pc \in {"recv", "get", "set", "setter", "load", "psi", "save"}
    /\ readonly \in BOOLEAN
    /\ nvars \in 0 .. MaxVarBinds
    /\ vb \in VarBinds
    /\ fp_pc \in {"idle", "enter_flag", "enter_prog", "enter_mode", "cmd",
                  "apply_psi", "apply_write", "apply_info",
                  "leave_sync", "leave_mode"}
    /\ fp_cmd \in FpCmds
    /\ main_pc \in {"check", "expire", "save"}
    /\ parsing \in BOOLEAN
    /\ prog \in Configs
    /\ eeprom \in [Tables -> Configs] /\ mib \in [Tables -> Configs]
    /\ eeprom_version \in [Tables -> Nat] /\ snmp_version \in [Tables -> Nat]
    /\ save_pid_trans_info \in BOOLEAN
    /\ race \in BOOLEAN
    /\ dirty \in SUBSET Tables

\* After boot: main() entered and left the front panel mode once, so both
\* editions of the tables are the ones loaded from the EEPROM.
Init ==
    /\ management_mode = "SNMP"
    /\ flag = "IDLE"
    /\ login_addr \in Clients /\ owner = login_addr /\ addr = login_addr
    /\ heart_age = 0
    /\ disable_check = FALSE
    /\ agent_pc = "recv" /\ readonly = FALSE /\ nvars = 0
    /\ vb = NoBinding
    /\ fp_pc = "idle" /\ fp_cmd = "read"
    /\ main_pc = "check"
    /\ parsing = FALSE
    /\ prog \in Configs
    /\ eeprom = [t \in Tables |-> prog] /\ mib = eeprom
    /\ eeprom_version = [t \in Tables |-> 1] /\ snmp_version = eeprom_version
    /\ save_pid_trans_info = FALSE
    /\ race = FALSE
    /\ dirty = {}

-----------------------------------------------------------------------------
(* The heart beat                                                          *)

\* Mutant: enable_snmp_connection_check forgets the flag.
EnableCheckKeepsFlag == heart_age' = 0 /\ UNCHANGED disable_check

\* enable_snmp_connection_check also restarts the heart beat.
DisableCheck == disable_check' = TRUE /\ UNCHANGED heart_age
EnableCheck  == disable_check' = FALSE /\ heart_age' = 0

\* One second passes (the clock saturates once the session is overdue).
Tick ==
    /\ heart_age <= HeartTimeout
    /\ heart_age' = heart_age + 1
    /\ UNCHANGED <<management_mode, session, agent, fp, main_pc, parsing,
                   tables, disable_check, race>>

HeartBeatLost ==
    ~disable_check /\ flag = "SUCCESS" /\ heart_age > HeartTimeout

\* xmux_snmp_check_connection tests and later clears the login status.
MainCheck ==
    /\ main_pc = "check"
    /\ main_pc' = IF HeartBeatLost THEN "expire" ELSE "save"
    /\ UNCHANGED <<management_mode, session, agent, fp, parsing, tables,
                   check, race>>

MainExpire ==
    /\ main_pc = "expire"
    /\ flag' = "IDLE"
    /\ main_pc' = "save"
    /\ UNCHANGED <<management_mode, login_addr, owner, agent, fp, parsing,
                   tables, check, race>>

\* pid_trans_info_save_check, then the second of sleep.
MainSave ==
    /\ main_pc = "save"
    /\ save_pid_trans_info' = FALSE
    /\ main_pc' = "check"
    /\ UNCHANGED <<management_mode, session, agent, fp, parsing, prog, eeprom,
                   mib, eeprom_version, snmp_version, dirty, check, race>>

\* uvSI_psi_parse in the psi worker suspends the check while it runs.
ParseBegin ==
    /\ ~parsing
    /\ parsing' = TRUE
    /\ DisableCheck
    /\ UNCHANGED <<management_mode, session, agent, fp, main_pc, tables, race>>

ParseEnd ==
    /\ parsing
    /\ parsing' = FALSE
    /\ EnableCheck
    /\ UNCHANGED <<management_mode, session, agent, fp, main_pc, tables, race>>

\* fp_psi_parse in the psi worker rewrites the front panel's edition, in
\* either mode (an SNMP client may ask for it too).
FpPsiParse ==
    /\ ~parsing
    /\ prog' \in Configs
    /\ UNCHANGED <<management_mode, session, agent, fp, main_pc, parsing, eeprom,
                   mib, eeprom_version, snmp_version, save_pid_trans_info,
                   dirty, check, race>>

-----------------------------------------------------------------------------
(* The SNMP agent                                                          *)

EnteringFp == fp_pc \in {"enter_prog", "enter_mode"}

\* Mutant: a second client takes the session's address over.
GrantAccessAny(c) ==
    /\ readonly' = (flag = "SUCCESS" /\ c # login_addr)
    /\ login_addr' = c

\* A datagram of another client than the manager is granted read access only;
\* without a session its sender becomes the candidate manager.
GrantAccess(c) ==
    IF flag = "SUCCESS" /\ c # login_addr
    THEN readonly' = TRUE /\ UNCHANGED login_addr
    ELSE readonly' = FALSE /\ login_addr' = c

AgentRecv(c) ==
    /\ agent_pc = "recv"
    /\ addr' = c
    /\ GrantAccess(c)
    /\ nvars' \in 1 .. MaxVarBinds
    /\ agent_pc' \in {"get", "set"}
    /\ race' = (race \/ (agent_pc' = "set" /\ EnteringFp))
    /\ UNCHANGED <<management_mode, flag, owner, vb, fp, main_pc, parsing,
                   tables, check>>

\* All bindings are processed: the response is sent.
AgentReply ==
    /\ agent_pc \in {"get", "set"} /\ nvars = 0
    /\ agent_pc' = "recv"
    /\ UNCHANGED <<management_mode, session, addr, readonly, nvars, vb, fp,
                   main_pc, parsing, tables, check, race>>

\* Mutant: one binding too many.
AgentGetPastEnd ==
    /\ agent_pc = "get"
    /\ nvars' = nvars - 1
    /\ UNCHANGED <<management_mode, session, agent_pc, addr, readonly, vb, fp,
                   main_pc, parsing, tables, check, race>>

\* A get of the heart device is a heart beat, whoever sends it; the other
\* getters leave this module's state alone.
AgentGet ==
    /\ agent_pc = "get" /\ nvars > 0
    /\ nvars' = nvars - 1
    /\ heart_age' \in {0, heart_age}
    /\ UNCHANGED <<management_mode, session, agent_pc, addr, readonly, vb, fp,
                   main_pc, parsing, tables, disable_check, race>>

\* set_request_process_var_bind up to the call of the setter.  An object that
\* is not registered is refused in any state.
MaySet(o) == ~readonly /\ (flag = "SUCCESS" \/ o = "load_info")

AgentRefuse ==
    /\ agent_pc = "set" /\ nvars > 0
    /\ nvars' = nvars - 1
    /\ UNCHANGED <<management_mode, session, agent_pc, addr, readonly, vb, fp,
                   main_pc, parsing, tables, check, race>>

AgentAccept(v) ==
    /\ agent_pc = "set" /\ nvars > 0
    /\ MaySet(v.obj)
    /\ vb' = v
    /\ nvars' = nvars - 1
    /\ heart_age' = 0
    /\ agent_pc' = "setter"
    /\ UNCHANGED <<management_mode, session, addr, readonly, fp, main_pc,
                   parsing, tables, disable_check, race>>

SetterDone == agent_pc' = "set" /\ vb' = NoBinding

\* load_info_set: the front panel has precedence, else the credentials count.
LoadBusy ==
    /\ agent_pc = "setter" /\ vb.obj = "load_info"
    /\ management_mode = "FP"
    /\ flag' = "BUSY"
    /\ SetterDone
    /\ UNCHANGED <<management_mode, login_addr, owner, addr, readonly, nvars,
                   fp, main_pc, parsing, tables, check, race>>

LoadMode ==
    /\ agent_pc = "setter" /\ vb.obj = "load_info"
    /\ management_mode # "FP"
    /\ agent_pc' = "load"
    /\ UNCHANGED <<management_mode, session, addr, readonly, nvars, vb, fp,
                   main_pc, parsing, tables, check, race>>

LoginResult(cred) ==
    CASE cred = "good"         -> "SUCCESS"
      [] cred = "bad_user"     -> "USER_NAME_INVALID"
      [] cred = "bad_password" -> "PASSWORD_INVALID"

LoadResult ==
    /\ agent_pc = "load"
    /\ flag' = LoginResult(vb.val)
    /\ owner' = IF vb.val = "good" THEN addr ELSE owner
    /\ SetterDone
    /\ UNCHANGED <<management_mode, login_addr, addr, readonly, nvars, fp,
                   main_pc, parsing, tables, check, race>>

\* heart_device_set copies the whole structure, the login status included.
HeartDeviceSet ==
    /\ agent_pc = "setter" /\ vb.obj = "heart_device"
    /\ flag' = vb.val
    /\ SetterDone
    /\ UNCHANGED <<management_mode, login_addr, owner, addr, readonly, nvars,
                   fp, main_pc, parsing, tables, check, race>>

\* pid_trans_info_set edits the SNMP copy only; pid_trans_set applies the
\* table at once as well (pid_map_table_validate refuses none).
TableSet ==
    /\ agent_pc = "setter" /\ vb.obj \in Tables
    /\ mib' = [mib EXCEPT ![vb.obj] = vb.val]
    /\ IF vb.obj = "pid_map_table"
       THEN /\ eeprom' = [eeprom EXCEPT !["pid_map_table"] = vb.val]
            /\ dirty' = dirty \ {"pid_map_table"}
       ELSE /\ dirty' = dirty \cup {vb.obj}
            /\ UNCHANGED eeprom
    /\ SetterDone
    /\ UNCHANGED <<management_mode, session, addr, readonly, nvars, fp,
                   main_pc, parsing, prog, eeprom_version, snmp_version,
                   save_pid_trans_info, check, race>>

\* apply_psi_set: refused while a save is pending; it downloads the psi with
\* the heart-beat check suspended, then takes the SNMP edition over.
ApplyPsiSet ==
    /\ agent_pc = "setter" /\ vb.obj = "apply_psi"
    /\ IF save_pid_trans_info
       THEN SetterDone /\ UNCHANGED check
       ELSE agent_pc' = "psi" /\ DisableCheck /\ UNCHANGED vb
    /\ UNCHANGED <<management_mode, session, addr, readonly, nvars, fp,
                   main_pc, parsing, tables, race>>

ApplyPsiDone ==
    /\ agent_pc = "psi"
    /\ EnableCheck
    /\ agent_pc' = "save"
    /\ UNCHANGED <<management_mode, session, addr, readonly, nvars, vb, fp,
                   main_pc, parsing, tables, race>>

PidTransInfoRequestSave ==
    /\ agent_pc = "save"
    /\ eeprom' = [eeprom EXCEPT !["pid_trans_info"] = mib["pid_trans_info"]]
    /\ dirty' = dirty \ {"pid_trans_info"}
    /\ save_pid_trans_info' = TRUE
    /\ SetterDone
    /\ UNCHANGED <<management_mode, session, addr, readonly, nvars, fp,
                   main_pc, parsing, prog, mib, eeprom_version, snmp_version,
                   check, race>>

OtherSet ==
    /\ agent_pc = "setter" /\ vb.obj = "other"
    /\ SetterDone
    /\ UNCHANGED <<management_mode, session, addr, readonly, nvars, fp,
                   main_pc, parsing, tables, check, race>>

AgentStep ==
    \/ AgentReply \/ AgentGet \/ AgentRefuse
    \/ \E v \in VarBinds : AgentAccept(v)
    \/ LoadBusy \/ LoadMode \/ LoadResult \/ HeartDeviceSet \/ TableSet
    \/ ApplyPsiSet \/ ApplyPsiDone \/ PidTransInfoRequestSave \/ OtherSet

-----------------------------------------------------------------------------
(* The front panel                                                         *)

\* front_panel_check_recv_cmd forces the fp mode for every command but the
\* harmless ones; the ENTER command asks for it.
NeedsFpMode(c) == c \notin {"leave", "read"} /\ management_mode # "FP"

FpRecv(c) ==
    /\ fp_pc = "idle"
    /\ c = "apply" => \A t \in Tables : eeprom_version[t] < MaxVersion
    /\ fp_cmd' = c
    /\ fp_pc' = IF NeedsFpMode(c) THEN "enter_flag" ELSE "cmd"
    /\ UNCHANGED <<management_mode, session, agent, main_pc, parsing, tables,
                   check, race>>

\* Mutant: enter_fp_management_mode leaves the session up.
EnterFlagKeepsSession ==
    /\ fp_pc = "enter_flag"
    /\ fp_pc' = "enter_prog"
    /\ race' = (agent_pc \notin {"recv", "get"})
    /\ UNCHANGED <<management_mode, session, agent, fp_cmd, main_pc, parsing,
                   tables, check>>

\* enter_fp_management_mode: the mode changes last.
EnterFlag ==
    /\ fp_pc = "enter_flag"
    /\ flag' = "BUSY"
    /\ fp_pc' = "enter_prog"
    /\ race' = (agent_pc \notin {"recv", "get"})
    /\ UNCHANGED <<management_mode, login_addr, owner, agent, fp_cmd, main_pc,
                   parsing, tables, check>>

EnterProg ==
    /\ fp_pc = "enter_prog"
    /\ prog' = eeprom["pid_trans_info"]
    /\ fp_pc' = "enter_mode"
    /\ UNCHANGED <<management_mode, session, agent, fp_cmd, main_pc, parsing,
                   eeprom, mib, eeprom_version, snmp_version,
                   save_pid_trans_info, dirty, check, race>>

EnterMode ==
    /\ fp_pc = "enter_mode"
    /\ management_mode' = "FP"
    /\ fp_pc' = "cmd"
    /\ UNCHANGED <<session, agent, fp_cmd, main_pc, parsing, tables, check,
                   race>>

FpDone == fp_pc' = "idle" /\ fp_cmd' = "read"

\* The handlers that are one step: reads, and ENTER or LEAVE in that mode.
FpNothing ==
    /\ fp_pc = "cmd"
    /\ fp_cmd \in {"enter", "read"} \/ (fp_cmd = "leave" /\ management_mode # "FP")
    /\ FpDone
    /\ UNCHANGED <<management_mode, session, agent, main_pc, parsing,
                   tables, check, race>>

FpEdit ==
    /\ fp_pc = "cmd" /\ fp_cmd = "edit"
    /\ prog' \in Configs
    /\ FpDone
    /\ UNCHANGED <<management_mode, session, agent, main_pc, parsing,
                   eeprom, mib, eeprom_version, snmp_version,
                   save_pid_trans_info, dirty, check, race>>

\* Mutant: the apply does not count the version up.
FpPublishSameVersion(t) ==
    /\ eeprom' = [eeprom EXCEPT ![t] = prog]
    /\ UNCHANGED <<prog, mib, eeprom_version, snmp_version,
                   save_pid_trans_info, dirty>>

\* _apply_pid_map_table_and_psi: the pid map table, the psi download, and at
\* last the pid_trans_info, each with its version.
FpPublish(t) ==
    /\ eeprom' = [eeprom EXCEPT ![t] = prog]
    /\ eeprom_version' = [eeprom_version EXCEPT ![t] = @ + 1]
    /\ UNCHANGED <<prog, mib, snmp_version, save_pid_trans_info, dirty>>

FpApplyMap ==
    /\ fp_pc = "cmd" /\ fp_cmd = "apply"
    /\ FpPublish("pid_map_table")
    /\ fp_pc' = "apply_psi"
    /\ UNCHANGED <<management_mode, session, agent, fp_cmd, main_pc, parsing,
                   check, race>>

FpApplyPsi ==
    /\ fp_pc = "apply_psi"
    /\ DisableCheck
    /\ fp_pc' = "apply_write"
    /\ UNCHANGED <<management_mode, session, agent, fp_cmd, main_pc, parsing,
                   tables, race>>

FpApplyWritten ==
    /\ fp_pc = "apply_write"
    /\ EnableCheck
    /\ fp_pc' = "apply_info"
    /\ UNCHANGED <<management_mode, session, agent, fp_cmd, main_pc, parsing,
                   tables, race>>

FpApplyInfo ==
    /\ fp_pc = "apply_info"
    /\ FpPublish("pid_trans_info")
    /\ FpDone
    /\ UNCHANGED <<management_mode, session, agent, main_pc, parsing,
                   check, race>>

\* leave_fp_management_mode: the status first, then the tables, then the mode.
LeaveStart ==
    /\ fp_pc = "cmd" /\ fp_cmd = "leave" /\ management_mode = "FP"
    /\ flag' = "IDLE"
    /\ fp_pc' = "leave_sync"
    /\ UNCHANGED <<management_mode, login_addr, owner, agent, fp_cmd, main_pc,
                   parsing, tables, check, race>>

Outdated == {t \in Tables : eeprom_version[t] # snmp_version[t]}

LeaveSync ==
    /\ fp_pc = "leave_sync"
    /\ snmp_version' = eeprom_version
    /\ mib' = [t \in Tables |-> IF t \in Outdated THEN eeprom[t] ELSE mib[t]]
    /\ dirty' = dirty \ Outdated
    /\ fp_pc' = "leave_mode"
    /\ UNCHANGED <<management_mode, session, agent, fp_cmd, main_pc, parsing,
                   prog, eeprom, eeprom_version, save_pid_trans_info, check,
                   race>>

LeaveMode ==
    /\ fp_pc = "leave_mode"
    /\ management_mode' = "SNMP"
    /\ FpDone
    /\ race' = FALSE
    /\ UNCHANGED <<session, agent, main_pc, parsing, tables, check>>

FpStep ==
    \/ EnterFlag \/ EnterProg \/ EnterMode \/ FpNothing \/ FpEdit
    \/ FpApplyMap \/ FpApplyPsi \/ FpApplyWritten \/ FpApplyInfo
    \/ LeaveStart \/ LeaveSync \/ LeaveMode

-----------------------------------------------------------------------------
MainStep == MainCheck \/ MainExpire \/ MainSave

Next ==
    \/ Tick \/ MainStep \/ ParseBegin \/ ParseEnd \/ FpPsiParse
    \/ \E c \in Clients : AgentRecv(c)
    \/ AgentStep
    \/ \E c \in FpCmds : FpRecv(c)
    \/ FpStep

Spec == Init /\ [][Next]_vars

\* Time passes and every thread that has work to do runs; clients and the
\* operator need not send anything.
Fairness ==
    /\ WF_vars(Tick) /\ WF_vars(MainStep) /\ WF_vars(ParseEnd)
    /\ WF_vars(AgentStep) /\ WF_vars(FpStep)

FairSpec == Spec /\ Fairness

-----------------------------------------------------------------------------
(* Properties                                                              *)

\* The agent is past the login check of an object other than load_info.
PrivilegedSetter ==
    \/ agent_pc = "setter" /\ vb.obj # "load_info"
    \/ agent_pc \in {"psi", "save"}

\* At most one client manages the device: as long as a session is up, the
\* address that wu_agent_loop takes for the manager's is the one whose login
\* was accepted, and no setter but the login ever runs for another client.
SingleManager ==
    /\ flag = "SUCCESS" => login_addr = owner
    /\ PrivilegedSetter => addr = owner

\* The front panel locks SNMP out: in the front panel mode there is no SNMP
\* session and no setter running, unless a set request was in flight or came
\* in while enter_fp_management_mode was between its two assignments.
FpExclusive ==
    management_mode = "FP" /\ ~race => flag # "SUCCESS" /\ ~PrivilegedSetter

\* What the front panel applied is what SNMP shows: once it has left its mode,
\* a table no client has edited since is the applied one (the version numbers
\* that leave_fp_management_mode compares miss nothing).
MibFollowsEeprom ==
    management_mode = "SNMP" /\ fp_pc \in {"idle", "enter_flag"}
        => \A t \in Tables \ dirty : mib[t] = eeprom[t]

\* A session whose heart beat stops is ended by the main loop, whatever the
\* parses and downloads that suspend the check do.
SessionExpires == flag = "SUCCESS" ~> (flag # "SUCCESS" \/ heart_age = 0)

-----------------------------------------------------------------------------
(* The inductive invariant behind SingleManager, FpExclusive and           *)
(* MibFollowsEeprom (proved in FrontPanelProofs).                          *)

\* A request that is not read-only comes from the address login_addr names.
OwnerInv ==
    /\ SingleManager
    /\ agent_pc # "recv" /\ ~readonly => addr = login_addr
    /\ agent_pc \in {"setter", "load", "psi", "save"} => ~readonly
    /\ agent_pc = "load" => vb.obj = "load_info"

\* The front panel thread applies and leaves in its mode only, and enters it
\* from the other one.
FpControl ==
    /\ fp_pc \in {"enter_flag", "enter_prog", "enter_mode"}
            => management_mode = "SNMP"
    /\ fp_pc \in {"apply_psi", "apply_write", "apply_info", "leave_sync",
                  "leave_mode"} => management_mode = "FP"
    /\ fp_pc = "cmd" /\ fp_cmd \in {"edit", "apply"} => management_mode = "FP"

\* Without an overlap, no request can open a session from the moment the
\* status is BUSY until the front panel leaves.
FpInv ==
    (management_mode = "FP" \/ EnteringFp) /\ ~race =>
        /\ flag # "SUCCESS"
        /\ agent_pc # "load"
        /\ ~PrivilegedSetter
        /\ EnteringFp => agent_pc \in {"recv", "get"}

\* Equal versions mean equal tables, they only grow, and outside
\* the fp mode they are equal.
TablesInv ==
    /\ \A t \in Tables \ dirty :
            eeprom_version[t] = snmp_version[t] => mib[t] = eeprom[t]
    /\ \A t \in Tables : snmp_version[t] <= eeprom_version[t]
    /\ management_mode = "SNMP" \/ fp_pc = "leave_mode"
            => eeprom_version = snmp_version

IInv == TypeOK /\ OwnerInv /\ FpControl /\ FpInv /\ TablesInv
=============================================================================
