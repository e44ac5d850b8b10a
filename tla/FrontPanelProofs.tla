-------------------------- MODULE FrontPanelProofs --------------------------
(***************************************************************************)
(* Proofs about the front panel's parts.  Management: for every set of     *)
(* clients and of configurations and every heart-beat timeout, the agent   *)
(* and the panel do not manage at the same time.  ProgramSelect: for any   *)
(* streams and whatever a user types, output pids tell streams apart, an   *)
(* apply maps every stream, and an offer is accepted.                      *)
(***************************************************************************)
EXTENDS Management, ProgramSelect, FiniteSetTheorems, WellFoundedInduction, TLAPS

-----------------------------------------------------------------------------
(* Management: the steps *)

\* The threads' steps, one per action of Next.
LEMMA NextCases ==
    ASSUME [Next]_vars
    PROVE  \/ Tick \/ MainCheck \/ MainExpire \/ MainSave
           \/ ParseBegin \/ ParseEnd \/ FpPsiParse
           \/ \E c \in Clients : AgentRecv(c)
           \/ AgentReply \/ AgentGet \/ AgentRefuse
           \/ \E v \in VarBinds : AgentAccept(v)
           \/ LoadBusy \/ LoadMode \/ LoadResult \/ HeartDeviceSet
           \/ TableSet \/ ApplyPsiSet \/ ApplyPsiDone
           \/ PidTransInfoRequestSave \/ OtherSet
           \/ \E c \in FpCmds : FpRecv(c)
           \/ EnterFlag \/ EnterProg \/ EnterMode \/ FpNothing \/ FpEdit
           \/ FpApplyMap \/ FpApplyPsi \/ FpApplyWritten \/ FpApplyInfo
           \/ LeaveStart \/ LeaveSync \/ LeaveMode
           \/ UNCHANGED vars
  BY DEF Next, MainStep, AgentStep, FpStep

\* A variable binding's value has the type its object calls for.
LEMMA VarBindTypes ==
    ASSUME NEW v \in VarBinds
    PROVE  /\ v.obj = "load_info" => v.val \in Credentials
           /\ v.obj = "heart_device" => v.val \in LoginStatus
           /\ v.obj \in Tables => v.val \in Configs
  BY DEF VarBinds, Tables

\* The cleared binding is one.
LEMMA NoBindingType == NoBinding \in VarBinds
  BY DEF NoBinding, VarBinds

\* load_info_set writes SUCCESS for the good credentials only.
LEMMA LoginResultType ==
    ASSUME NEW c \in Credentials
    PROVE  /\ LoginResult(c) \in LoginStatus
           /\ LoginResult(c) = "SUCCESS" <=> c = "good"
  BY DEF Credentials, LoginStatus, LoginResult

\* enable_snmp_connection_check leaves both variables in their types.
LEMMA EnableCheckType ==
    ASSUME EnableCheck
    PROVE  /\ disable_check' \in BOOLEAN
           /\ heart_age' \in 0 .. HeartTimeout + 1
<1>1. disable_check' \in BOOLEAN
  BY DEF EnableCheck
<1>2. heart_age' \in 0 .. HeartTimeout + 1
  BY ManagementAssumption DEF EnableCheck
<1>3. QED
  BY <1>1, <1>2

\* Type correctness; the value that LoadResult reads is a login's.
LEMMA TypeStep ==
    ASSUME TypeOK, agent_pc = "load" => vb.obj = "load_info", [Next]_vars
    PROVE  TypeOK'
<1> USE ManagementAssumption DEF TypeOK, session, agent, fp, tables, check
<1>1. CASE Tick
  BY <1>1 DEF Tick
<1>2. CASE MainCheck
  BY <1>2 DEF MainCheck
<1>3. CASE MainExpire
  BY <1>3 DEF MainExpire, LoginStatus
<1>4. CASE MainSave
  BY <1>4, ZenonT(60) DEF MainSave
<1>5. CASE ParseBegin
  BY <1>5 DEF ParseBegin, DisableCheck
<1>6. CASE ParseEnd
  <2>1. EnableCheck /\ parsing' \in BOOLEAN
    BY <1>6 DEF ParseEnd
  <2>2. QED
    BY <1>6, <2>1, EnableCheckType DEF ParseEnd
<1>36. CASE FpPsiParse
  BY <1>36 DEF FpPsiParse
<1>7. ASSUME NEW c \in Clients, AgentRecv(c) PROVE TypeOK'
  <2>1. race' \in BOOLEAN
    BY <1>7, Zenon DEF AgentRecv
  <2>2. readonly' \in BOOLEAN /\ login_addr' \in Clients
    BY <1>7 DEF AgentRecv, GrantAccess
  <2>3. QED
    BY <1>7, <2>1, <2>2 DEF AgentRecv
<1>8. CASE AgentReply
  BY <1>8 DEF AgentReply
<1>9. CASE AgentGet
  BY <1>9 DEF AgentGet
<1>10. CASE AgentRefuse
  BY <1>10 DEF AgentRefuse
<1>11. ASSUME NEW v \in VarBinds, AgentAccept(v) PROVE TypeOK'
  BY <1>11 DEF AgentAccept
<1>12. CASE LoadBusy
  BY <1>12, NoBindingType DEF LoadBusy, SetterDone, LoginStatus
<1>13. CASE LoadMode
  BY <1>13 DEF LoadMode
<1>14. CASE LoadResult
  BY <1>14, VarBindTypes, LoginResultType, NoBindingType DEF LoadResult, SetterDone
<1>15. CASE HeartDeviceSet
  BY <1>15, VarBindTypes, NoBindingType DEF HeartDeviceSet, SetterDone
<1>16. CASE TableSet
  BY <1>16, VarBindTypes, NoBindingType DEF TableSet, SetterDone
<1>17. CASE ApplyPsiSet
  BY <1>17, NoBindingType, ZenonT(60) DEF ApplyPsiSet, SetterDone, DisableCheck
<1>18. CASE ApplyPsiDone
  BY <1>18, EnableCheckType DEF ApplyPsiDone
<1>19. CASE PidTransInfoRequestSave
  BY <1>19, NoBindingType DEF PidTransInfoRequestSave, SetterDone, Tables
<1>20. CASE OtherSet
  BY <1>20, NoBindingType DEF OtherSet, SetterDone
<1>21. ASSUME NEW c \in FpCmds, FpRecv(c) PROVE TypeOK'
  BY <1>21 DEF FpRecv
<1>22. CASE EnterFlag
  <2>1. race' \in BOOLEAN
    BY <1>22, Zenon DEF EnterFlag
  <2>2. QED
    BY <1>22, <2>1 DEF EnterFlag, LoginStatus
<1>23. CASE EnterProg
  BY <1>23 DEF EnterProg, Tables
<1>24. CASE EnterMode
  BY <1>24 DEF EnterMode
<1>25. CASE FpNothing
  BY <1>25 DEF FpNothing, FpDone, FpCmds
<1>26. CASE FpEdit
  BY <1>26 DEF FpEdit, FpDone, FpCmds
<1>27. CASE FpApplyMap
  BY <1>27 DEF FpApplyMap, FpPublish, Tables
<1>28. CASE FpApplyPsi
  BY <1>28 DEF FpApplyPsi, DisableCheck
<1>29. CASE FpApplyWritten
  BY <1>29, EnableCheckType DEF FpApplyWritten
<1>30. CASE FpApplyInfo
  BY <1>30 DEF FpApplyInfo, FpDone, FpCmds, FpPublish, Tables
<1>31. CASE LeaveStart
  BY <1>31 DEF LeaveStart, LoginStatus
<1>32. CASE LeaveSync
  BY <1>32 DEF LeaveSync, Outdated
<1>33. CASE LeaveMode
  BY <1>33 DEF LeaveMode, FpDone, FpCmds
<1>34. CASE UNCHANGED vars
  BY <1>34 DEF vars
<1>35. QED
  BY <1>1, <1>2, <1>3, <1>4, <1>5, <1>6, <1>7, <1>8, <1>9, <1>10, <1>11,
     <1>12, <1>13, <1>14, <1>15, <1>16, <1>17, <1>18, <1>19, <1>20, <1>21,
     <1>22, <1>23, <1>24, <1>25, <1>26, <1>27, <1>28, <1>29, <1>30, <1>31,
     <1>32, <1>33, <1>34, <1>36, NextCases

\* Only the agent can make a client the owner, and only the sender it serves.
LEMMA OwnerStep ==
    ASSUME TypeOK, OwnerInv, [Next]_vars
    PROVE  OwnerInv'
<1> USE DEF TypeOK, OwnerInv, SingleManager, PrivilegedSetter,
          session, agent
<1>1. CASE Tick
  BY <1>1 DEF Tick
<1>2. CASE MainCheck
  BY <1>2 DEF MainCheck
<1>3. CASE MainExpire
  BY <1>3 DEF MainExpire
<1>4. CASE MainSave
  BY <1>4 DEF MainSave
<1>5. CASE ParseBegin
  BY <1>5 DEF ParseBegin
<1>6. CASE ParseEnd
  BY <1>6 DEF ParseEnd
<1>36. CASE FpPsiParse
  BY <1>36 DEF FpPsiParse
<1>7. ASSUME NEW c \in Clients, AgentRecv(c) PROVE OwnerInv'
  BY <1>7 DEF AgentRecv, GrantAccess
<1>8. CASE AgentReply
  BY <1>8 DEF AgentReply
<1>9. CASE AgentGet
  BY <1>9 DEF AgentGet
<1>10. CASE AgentRefuse
  BY <1>10 DEF AgentRefuse
<1>11. ASSUME NEW v \in VarBinds, AgentAccept(v) PROVE OwnerInv'
  BY <1>11 DEF AgentAccept, MaySet
<1>12. CASE LoadBusy
  BY <1>12 DEF LoadBusy, SetterDone
<1>13. CASE LoadMode
  BY <1>13 DEF LoadMode
<1>14. CASE LoadResult
  BY <1>14, VarBindTypes, LoginResultType DEF LoadResult, SetterDone
<1>15. CASE HeartDeviceSet
  BY <1>15 DEF HeartDeviceSet, SetterDone
<1>16. CASE TableSet
  BY <1>16 DEF TableSet, SetterDone
<1>17. CASE ApplyPsiSet
  BY <1>17 DEF ApplyPsiSet, SetterDone, check
<1>18. CASE ApplyPsiDone
  BY <1>18 DEF ApplyPsiDone
<1>19. CASE PidTransInfoRequestSave
  BY <1>19 DEF PidTransInfoRequestSave, SetterDone
<1>20. CASE OtherSet
  BY <1>20 DEF OtherSet, SetterDone
<1>21. ASSUME NEW c \in FpCmds, FpRecv(c) PROVE OwnerInv'
  BY <1>21 DEF FpRecv
<1>22. CASE EnterFlag
  BY <1>22 DEF EnterFlag
<1>23. CASE EnterProg
  BY <1>23 DEF EnterProg
<1>24. CASE EnterMode
  BY <1>24 DEF EnterMode
<1>25. CASE FpNothing
  BY <1>25 DEF FpNothing, FpDone
<1>26. CASE FpEdit
  BY <1>26 DEF FpEdit, FpDone
<1>27. CASE FpApplyMap
  BY <1>27 DEF FpApplyMap
<1>28. CASE FpApplyPsi
  BY <1>28 DEF FpApplyPsi
<1>29. CASE FpApplyWritten
  BY <1>29 DEF FpApplyWritten
<1>30. CASE FpApplyInfo
  BY <1>30 DEF FpApplyInfo, FpDone
<1>31. CASE LeaveStart
  BY <1>31 DEF LeaveStart
<1>32. CASE LeaveSync
  BY <1>32 DEF LeaveSync
<1>33. CASE LeaveMode
  BY <1>33 DEF LeaveMode, FpDone
<1>34. CASE UNCHANGED vars
  BY <1>34 DEF vars
<1>35. QED
  BY <1>1, <1>2, <1>3, <1>4, <1>5, <1>6, <1>7, <1>8, <1>9, <1>10, <1>11,
     <1>12, <1>13, <1>14, <1>15, <1>16, <1>17, <1>18, <1>19, <1>20, <1>21,
     <1>22, <1>23, <1>24, <1>25, <1>26, <1>27, <1>28, <1>29, <1>30, <1>31,
     <1>32, <1>33, <1>34, <1>36, NextCases

\* The front panel thread alone moves fp_pc and management_mode.
LEMMA FpControlStep ==
    ASSUME TypeOK, FpControl, [Next]_vars
    PROVE  FpControl'
<1> USE DEF TypeOK, FpControl, fp
<1>1. CASE Tick
  BY <1>1 DEF Tick
<1>2. CASE MainCheck
  BY <1>2 DEF MainCheck
<1>3. CASE MainExpire
  BY <1>3 DEF MainExpire
<1>4. CASE MainSave
  BY <1>4 DEF MainSave
<1>5. CASE ParseBegin
  BY <1>5 DEF ParseBegin
<1>6. CASE ParseEnd
  BY <1>6 DEF ParseEnd
<1>36. CASE FpPsiParse
  BY <1>36 DEF FpPsiParse
<1>7. ASSUME NEW c \in Clients, AgentRecv(c) PROVE FpControl'
  BY <1>7 DEF AgentRecv
<1>8. CASE AgentReply
  BY <1>8 DEF AgentReply
<1>9. CASE AgentGet
  BY <1>9 DEF AgentGet
<1>10. CASE AgentRefuse
  BY <1>10 DEF AgentRefuse
<1>11. ASSUME NEW v \in VarBinds, AgentAccept(v) PROVE FpControl'
  BY <1>11 DEF AgentAccept
<1>12. CASE LoadBusy
  BY <1>12 DEF LoadBusy, SetterDone
<1>13. CASE LoadMode
  BY <1>13 DEF LoadMode
<1>14. CASE LoadResult
  BY <1>14 DEF LoadResult, SetterDone
<1>15. CASE HeartDeviceSet
  BY <1>15 DEF HeartDeviceSet, SetterDone
<1>16. CASE TableSet
  BY <1>16 DEF TableSet, SetterDone
<1>17. CASE ApplyPsiSet
  BY <1>17 DEF ApplyPsiSet, SetterDone
<1>18. CASE ApplyPsiDone
  BY <1>18 DEF ApplyPsiDone
<1>19. CASE PidTransInfoRequestSave
  BY <1>19 DEF PidTransInfoRequestSave, SetterDone
<1>20. CASE OtherSet
  BY <1>20 DEF OtherSet, SetterDone
<1>21. ASSUME NEW c \in FpCmds, FpRecv(c) PROVE FpControl'
  BY <1>21 DEF FpRecv, NeedsFpMode, FpCmds
<1>22. CASE EnterFlag
  BY <1>22 DEF EnterFlag
<1>23. CASE EnterProg
  BY <1>23 DEF EnterProg
<1>24. CASE EnterMode
  BY <1>24 DEF EnterMode
<1>25. CASE FpNothing
  BY <1>25 DEF FpNothing, FpDone
<1>26. CASE FpEdit
  BY <1>26 DEF FpEdit, FpDone
<1>27. CASE FpApplyMap
  BY <1>27 DEF FpApplyMap
<1>28. CASE FpApplyPsi
  BY <1>28 DEF FpApplyPsi
<1>29. CASE FpApplyWritten
  BY <1>29 DEF FpApplyWritten
<1>30. CASE FpApplyInfo
  BY <1>30 DEF FpApplyInfo, FpDone
<1>31. CASE LeaveStart
  BY <1>31 DEF LeaveStart
<1>32. CASE LeaveSync
  BY <1>32 DEF LeaveSync
<1>33. CASE LeaveMode
  BY <1>33 DEF LeaveMode, FpDone
<1>34. CASE UNCHANGED vars
  BY <1>34 DEF vars
<1>35. QED
  BY <1>1, <1>2, <1>3, <1>4, <1>5, <1>6, <1>7, <1>8, <1>9, <1>10, <1>11,
     <1>12, <1>13, <1>14, <1>15, <1>16, <1>17, <1>18, <1>19, <1>20, <1>21,
     <1>22, <1>23, <1>24, <1>25, <1>26, <1>27, <1>28, <1>29, <1>30, <1>31,
     <1>32, <1>33, <1>34, <1>36, NextCases

\* Without an overlap no step of the agent opens a session in the fp mode.
LEMMA FpStepInv ==
    ASSUME TypeOK, OwnerInv, FpControl, FpInv, [Next]_vars
    PROVE  FpInv'
<1> USE DEF TypeOK, OwnerInv, FpControl, FpInv, EnteringFp, PrivilegedSetter,
          session, agent, fp
<1>1. CASE Tick
  BY <1>1 DEF Tick
<1>2. CASE MainCheck
  BY <1>2 DEF MainCheck
<1>3. CASE MainExpire
  BY <1>3 DEF MainExpire
<1>4. CASE MainSave
  BY <1>4 DEF MainSave
<1>5. CASE ParseBegin
  BY <1>5 DEF ParseBegin
<1>6. CASE ParseEnd
  BY <1>6 DEF ParseEnd
<1>36. CASE FpPsiParse
  BY <1>36 DEF FpPsiParse
<1>7. ASSUME NEW c \in Clients, AgentRecv(c) PROVE FpInv'
  BY <1>7 DEF AgentRecv, GrantAccess
<1>8. CASE AgentReply
  BY <1>8 DEF AgentReply
<1>9. CASE AgentGet
  BY <1>9 DEF AgentGet
<1>10. CASE AgentRefuse
  BY <1>10 DEF AgentRefuse
<1>11. ASSUME NEW v \in VarBinds, AgentAccept(v) PROVE FpInv'
  BY <1>11 DEF AgentAccept, MaySet
<1>12. CASE LoadBusy
  BY <1>12 DEF LoadBusy, SetterDone
<1>13. CASE LoadMode
  BY <1>13 DEF LoadMode
<1>14. CASE LoadResult
  BY <1>14, VarBindTypes, LoginResultType DEF LoadResult, SetterDone
<1>15. CASE HeartDeviceSet
  BY <1>15 DEF HeartDeviceSet, SetterDone
<1>16. CASE TableSet
  BY <1>16 DEF TableSet, SetterDone
<1>17. CASE ApplyPsiSet
  BY <1>17 DEF ApplyPsiSet, SetterDone, check
<1>18. CASE ApplyPsiDone
  BY <1>18 DEF ApplyPsiDone
<1>19. CASE PidTransInfoRequestSave
  BY <1>19 DEF PidTransInfoRequestSave, SetterDone
<1>20. CASE OtherSet
  BY <1>20 DEF OtherSet, SetterDone
<1>21. ASSUME NEW c \in FpCmds, FpRecv(c) PROVE FpInv'
  BY <1>21 DEF FpRecv, NeedsFpMode
<1>22. CASE EnterFlag
  BY <1>22 DEF EnterFlag
<1>23. CASE EnterProg
  BY <1>23 DEF EnterProg
<1>24. CASE EnterMode
  BY <1>24 DEF EnterMode
<1>25. CASE FpNothing
  BY <1>25 DEF FpNothing, FpDone
<1>26. CASE FpEdit
  BY <1>26 DEF FpEdit, FpDone
<1>27. CASE FpApplyMap
  BY <1>27 DEF FpApplyMap
<1>28. CASE FpApplyPsi
  BY <1>28 DEF FpApplyPsi
<1>29. CASE FpApplyWritten
  BY <1>29 DEF FpApplyWritten
<1>30. CASE FpApplyInfo
  BY <1>30 DEF FpApplyInfo, FpDone
<1>31. CASE LeaveStart
  BY <1>31 DEF LeaveStart
<1>32. CASE LeaveSync
  BY <1>32 DEF LeaveSync
<1>33. CASE LeaveMode
  BY <1>33 DEF LeaveMode, FpDone
<1>34. CASE UNCHANGED vars
  BY <1>34 DEF vars
<1>35. QED
  BY <1>1, <1>2, <1>3, <1>4, <1>5, <1>6, <1>7, <1>8, <1>9, <1>10, <1>11,
     <1>12, <1>13, <1>14, <1>15, <1>16, <1>17, <1>18, <1>19, <1>20, <1>21,
     <1>22, <1>23, <1>24, <1>25, <1>26, <1>27, <1>28, <1>29, <1>30, <1>31,
     <1>32, <1>33, <1>34, <1>36, NextCases

\* Every write of an applied table either bumps its version or comes from the
\* SNMP edition itself.
LEMMA TablesStep ==
    ASSUME TypeOK, FpControl, TablesInv, [Next]_vars
    PROVE  TablesInv'
<1> USE DEF TypeOK, FpControl, TablesInv, fp, tables
<1>1. CASE Tick
  BY <1>1 DEF Tick
<1>2. CASE MainCheck
  BY <1>2 DEF MainCheck
<1>3. CASE MainExpire
  BY <1>3 DEF MainExpire
<1>4. CASE MainSave
  BY <1>4 DEF MainSave
<1>5. CASE ParseBegin
  BY <1>5 DEF ParseBegin
<1>6. CASE ParseEnd
  BY <1>6 DEF ParseEnd
<1>36. CASE FpPsiParse
  BY <1>36 DEF FpPsiParse
<1>7. ASSUME NEW c \in Clients, AgentRecv(c) PROVE TablesInv'
  BY <1>7 DEF AgentRecv
<1>8. CASE AgentReply
  BY <1>8 DEF AgentReply
<1>9. CASE AgentGet
  BY <1>9 DEF AgentGet
<1>10. CASE AgentRefuse
  BY <1>10 DEF AgentRefuse
<1>11. ASSUME NEW v \in VarBinds, AgentAccept(v) PROVE TablesInv'
  BY <1>11 DEF AgentAccept
<1>12. CASE LoadBusy
  BY <1>12 DEF LoadBusy, SetterDone
<1>13. CASE LoadMode
  BY <1>13 DEF LoadMode
<1>14. CASE LoadResult
  BY <1>14 DEF LoadResult, SetterDone
<1>15. CASE HeartDeviceSet
  BY <1>15 DEF HeartDeviceSet, SetterDone
<1>16. CASE TableSet
  BY <1>16, VarBindTypes DEF TableSet, SetterDone, Tables
<1>17. CASE ApplyPsiSet
  BY <1>17 DEF ApplyPsiSet, SetterDone
<1>18. CASE ApplyPsiDone
  BY <1>18 DEF ApplyPsiDone
<1>19. CASE PidTransInfoRequestSave
  BY <1>19 DEF PidTransInfoRequestSave, SetterDone, Tables
<1>20. CASE OtherSet
  BY <1>20 DEF OtherSet, SetterDone
<1>21. ASSUME NEW c \in FpCmds, FpRecv(c) PROVE TablesInv'
  BY <1>21 DEF FpRecv, NeedsFpMode
<1>22. CASE EnterFlag
  BY <1>22 DEF EnterFlag
<1>23. CASE EnterProg
  BY <1>23 DEF EnterProg
<1>24. CASE EnterMode
  BY <1>24 DEF EnterMode
<1>25. CASE FpNothing
  BY <1>25 DEF FpNothing, FpDone
<1>26. CASE FpEdit
  BY <1>26 DEF FpEdit, FpDone
<1>27. CASE FpApplyMap
  BY <1>27 DEF FpApplyMap, FpPublish, Tables
<1>28. CASE FpApplyPsi
  BY <1>28 DEF FpApplyPsi
<1>29. CASE FpApplyWritten
  BY <1>29 DEF FpApplyWritten
<1>30. CASE FpApplyInfo
  BY <1>30 DEF FpApplyInfo, FpDone, FpPublish, Tables
<1>31. CASE LeaveStart
  BY <1>31 DEF LeaveStart
<1>32. CASE LeaveSync
  BY <1>32 DEF LeaveSync, Outdated, Tables
<1>33. CASE LeaveMode
  BY <1>33 DEF LeaveMode, FpDone
<1>34. CASE UNCHANGED vars
  BY <1>34 DEF vars
<1>35. QED
  BY <1>1, <1>2, <1>3, <1>4, <1>5, <1>6, <1>7, <1>8, <1>9, <1>10, <1>11,
     <1>12, <1>13, <1>14, <1>15, <1>16, <1>17, <1>18, <1>19, <1>20, <1>21,
     <1>22, <1>23, <1>24, <1>25, <1>26, <1>27, <1>28, <1>29, <1>30, <1>31,
     <1>32, <1>33, <1>34, <1>36, NextCases

\* All parts together are inductive.
LEMMA IInvInductive == IInv /\ [Next]_vars => IInv'
  BY TypeStep, OwnerStep, FpControlStep, FpStepInv, TablesStep
     DEF IInv, OwnerInv

\* The state main() reaches after boot satisfies the invariant.
LEMMA IInvInit == Init => IInv
<1> SUFFICES ASSUME Init PROVE IInv
  OBVIOUS
<1>1. TypeOK
  <2>1. vb \in VarBinds
    BY NoBindingType DEF Init
  <2>2. /\ eeprom \in [Tables -> Configs] /\ mib \in [Tables -> Configs]
        /\ eeprom_version \in [Tables -> Nat]
        /\ snmp_version \in [Tables -> Nat]
    BY DEF Init
  <2>3. heart_age \in 0 .. HeartTimeout + 1 /\ nvars \in 0 .. MaxVarBinds
    BY ManagementAssumption DEF Init
  <2>4. QED
    BY <2>1, <2>2, <2>3 DEF Init, TypeOK, LoginStatus, FpCmds
<1>2. OwnerInv /\ FpControl /\ FpInv
  BY DEF Init, OwnerInv, SingleManager, PrivilegedSetter, FpControl, FpInv,
     EnteringFp
<1>3. TablesInv
  BY DEF Init, TablesInv, Tables
<1>4. QED
  BY <1>1, <1>2, <1>3 DEF IInv

\* Hence the invariant holds in every reachable state.
LEMMA Inductive == Spec => []IInv
  BY IInvInit, IInvInductive, PTL DEF Spec

\* Every variable keeps its type in every behaviour.
THEOREM TypeCorrect == Spec => []TypeOK
<1>1. IInv => TypeOK
  BY DEF IInv
<1>2. QED
  BY <1>1, Inductive, PTL

\* At most one SNMP client manages the device (wu_agent_loop and
\* set_request_process_var_bind), for any number of clients.
THEOREM OneManager == Spec => []SingleManager
<1>1. IInv => SingleManager
  BY DEF IInv, OwnerInv
<1>2. QED
  BY <1>1, Inductive, PTL

\* A request that neither overlaps enter_fp_management_mode nor is in flight
\* when it runs cannot open a session or run a setter in the fp mode.
THEOREM FpExcludesSnmp == Spec => []FpExclusive
<1>1. IInv => FpExclusive
  BY DEF IInv, FpInv, FpExclusive
<1>2. QED
  BY <1>1, Inductive, PTL

\* leave_fp_management_mode leaves no applied table out of the SNMP edition.
THEOREM SnmpSeesApplied == Spec => []MibFollowsEeprom
<1>1. IInv => MibFollowsEeprom
  BY DEF IInv, TablesInv, MibFollowsEeprom
<1>2. QED
  BY <1>1, Inductive, PTL

-----------------------------------------------------------------------------
(* ProgramSelect: the tables *)

\* The entries of selected programs, what they are sent under, and the tables.
Used(t) == {e \in Entries : t[e[1]].sel}
Out(t, e) == t[e[1]].out[e[2]]
Triple(t, e) == <<e[1][1], InPid(e), Out(t, e)>>
Row == [sel : BOOLEAN, out : Seq(Nat)]
Chosen(p, out) == out[1] \in Pids /\ \A k \in 1..Len(Ins(p)) : out[k] \in OutPids
TableOK(t) ==
  /\ t \in [Programs -> Row]
  /\ \A p \in Programs : /\ Len(t[p].out) = Len(Ins(p))
                         /\ t[p].sel => Chosen(p, t[p].out)

\* Streams that differ have different pids, and one stream has one pid.
Distinct(t) ==
  \A e, f \in Used(t) : e # f /\ Out(t, e) = Out(t, f) =>
    SameInput(e, f) /\ e[2] > 1 /\ f[2] > 1
Agrees(t) ==
  \A e, f \in Used(t) : SameInput(e, f) /\ e[2] > 1 /\ f[2] > 1 => Out(t, e) = Out(t, f)

-----------------------------------------------------------------------------
\* A set of naturals that is not empty has a least element, and a greatest one
\* if it is bounded.
LEMMA LeastNat ==
  ASSUME NEW T, T \subseteq Nat, T # {}
  PROVE  \E x \in T : \A y \in T : x <= y
<1> DEFINE R == OpToRel(<, Nat)
<1>1. IsWellFoundedOn(R, Nat)
  BY NatLessThanWellFounded
<1> HIDE DEF R
<1>2. PICK x \in T : \A y \in T : ~(<<y, x>> \in R)
  BY <1>1, WFMin
<1>3. \A y \in T : y < x => <<y, x>> \in R
  BY DEF R, OpToRel
<1>4. ASSUME NEW y \in T PROVE x <= y
  <2>1. ~(y < x)
    BY <1>2, <1>3
  <2>2. x \in Nat /\ y \in Nat
    OBVIOUS
  <2> QED BY <2>1, <2>2
<1> QED BY <1>4

LEMMA GreatestNat ==
  ASSUME NEW N \in Nat, NEW T, T \subseteq 0..N, T # {}
  PROVE  \E x \in T : \A y \in T : y <= x
<1> DEFINE S == {z \in 0..N : N - z \in T}
<1>1. S \subseteq Nat
  OBVIOUS
<1>2. PICK t \in T : TRUE
  OBVIOUS
<1>3. N - t \in S
  <2>1. t \in 0..N
    OBVIOUS
  <2>2. N - t \in 0..N /\ N - (N - t) = t
    BY <2>1
  <2> QED BY <2>2, <1>2
<1>4. PICK z \in S : \A y \in S : z <= y
  <2>1. S # {}
    BY <1>3
  <2> HIDE DEF S
  <2> QED BY <1>1, <2>1, LeastNat
<1>5. N - z \in T
  BY <1>4
<1>6. ASSUME NEW y \in T PROVE y <= N - z
  <2>1. y \in 0..N
    OBVIOUS
  <2>2. N - y \in 0..N /\ N - (N - y) = y
    BY <2>1
  <2>3. N - y \in S
    BY <2>2
  <2>4. z <= N - y
    BY <2>3, <1>4
  <2> QED BY <2>1, <2>4, <1>4
<1> QED BY <1>5, <1>6

-----------------------------------------------------------------------------
(* The programs and their entries *)

LEMMA ProgramFacts ==
  ASSUME NEW p \in Programs
  PROVE  /\ p = <<p[1], p[2]>> /\ p[1] \in Channels /\ p[2] \in 1..Len(Stream[p[1]])
         /\ Len(Stream[p[1]]) \in Nat /\ Channels = 1..Len(Stream) /\ Len(Stream) \in Nat
         /\ Ins(p) \in Seq(Nat) /\ Len(Ins(p)) \in Nat /\ Len(Ins(p)) >= 2
         /\ Ins(p)[1] \in Pids
<1>1. PICK c \in Channels : p \in {c} \X DOMAIN Stream[c]
  BY DEF Programs
<1>2. Stream \in Seq(Seq(Seq(Nat)))
  BY StreamAssumption
<1>3. Channels = 1..Len(Stream) /\ Len(Stream) \in Nat
  BY <1>2 DEF Channels
<1>4. Stream[c] \in Seq(Seq(Nat))
  BY <1>1, <1>2, <1>3
<1>5. Len(Stream[c]) \in Nat /\ DOMAIN Stream[c] = 1..Len(Stream[c])
  BY <1>4
<1>6. p = <<p[1], p[2]>> /\ p[1] = c /\ p[2] \in 1..Len(Stream[c])
  BY <1>1, <1>5
<1>7. Stream[c][p[2]] \in Seq(Nat)
  BY <1>4, <1>5, <1>6
<1>8. Ins(p) \in Seq(Nat)
  BY <1>6, <1>7 DEF Ins
<1>9. Len(Ins(p)) \in Nat
  BY <1>8
<1>10. Len(Ins(p)) >= 2 /\ Ins(p)[1] \in Pids
  BY StreamAssumption
<1> QED BY <1>3, <1>5, <1>6, <1>8, <1>9, <1>10

\* When all pids are legal, every entry is visited.
LEMMA EntryFacts ==
  ASSUME LegalStreams
  PROVE  /\ \A p \in Programs : \A k \in 1..Len(Ins(p)) :
              <<p, k>> \in Entries /\ Ins(p)[k] \in Pids /\ InPid(<<p, k>>) = Ins(p)[k]
         /\ \A e \in Entries : /\ e[1] \in Programs /\ e[2] \in 1..Len(Ins(e[1]))
                               /\ e = <<e[1], e[2]>> /\ InPid(e) = Ins(e[1])[e[2]]
                               /\ InPid(e) \in Pids /\ e[1][1] \in Channels
<1>1. ASSUME NEW p \in Programs PROVE Listed(p) = 1..Len(Ins(p))
  <2>1. Ins(p) \in Seq(Nat) /\ DOMAIN Ins(p) = 1..Len(Ins(p)) /\ Len(Ins(p)) \in Nat
    BY ProgramFacts
  <2>2. \A k \in DOMAIN Ins(p) : prog_pid_val_isvalid(Ins(p)[k])
    BY DEF LegalStreams
  <2>3. \A k \in 1..Len(Ins(p)) : \A j \in 1..k : j \in DOMAIN Ins(p)
    BY <2>1
  <2> QED BY <2>1, <2>2, <2>3 DEF Listed
<1>2. ASSUME NEW p \in Programs, NEW k \in 1..Len(Ins(p))
      PROVE  <<p, k>> \in Entries /\ Ins(p)[k] \in Pids /\ InPid(<<p, k>>) = Ins(p)[k]
  <2>1. <<p, k>> \in {p} \X Listed(p)
    BY <1>1
  <2>2. k \in DOMAIN Ins(p)
    BY ProgramFacts
  <2> QED BY <2>1, <2>2 DEF Entries, InPid, LegalStreams, prog_pid_val_isvalid
<1>3. ASSUME NEW e \in Entries
      PROVE /\ e[1] \in Programs /\ e[2] \in 1..Len(Ins(e[1])) /\ e = <<e[1], e[2]>>
            /\ InPid(e) = Ins(e[1])[e[2]] /\ InPid(e) \in Pids /\ e[1][1] \in Channels
  <2>1. PICK p \in Programs : e \in {p} \X Listed(p)
    BY DEF Entries
  <2>2. e = <<e[1], e[2]>> /\ e[1] = p /\ e[2] \in 1..Len(Ins(p))
    BY <2>1, <1>1
  <2> QED BY <2>2, <1>2, ProgramFacts DEF InPid
<1> QED BY <1>2, <1>3

\* No PMT is sent on the pid of a stream of its channel.
LEMMA PmtApart ==
  ASSUME LegalStreams, NEW e \in Entries, NEW f \in Entries, SameInput(e, f), e[2] = 1
  PROVE  f[2] = 1
<1>1. /\ e[1] \in Programs /\ f[1] \in Programs /\ f[2] \in 1..Len(Ins(f[1]))
      /\ InPid(e) = Ins(e[1])[e[2]] /\ InPid(f) = Ins(f[1])[f[2]]
  BY EntryFacts
<1>2. Ins(e[1])[1] = Ins(f[1])[f[2]] /\ e[1][1] = f[1][1]
  BY <1>1 DEF SameInput
<1>3. Len(Ins(f[1])) \in Nat
  BY <1>1, ProgramFacts
<1>4. f[2] \notin 2..Len(Ins(f[1]))
  BY <1>1, <1>2, StreamAssumption
<1> QED BY <1>1, <1>3, <1>4

\* Entries of one channel are visited one after the other.
LEMMA Order ==
  ASSUME LegalStreams, NEW e \in Entries, NEW f \in Entries, e[1][1] = f[1][1]
  PROVE  /\ e # f => Precedes(e, f) \/ Precedes(f, e)
         /\ ~(Precedes(e, f) /\ Precedes(f, e))
<1>1. /\ e = <<e[1], e[2]>> /\ f = <<f[1], f[2]>> /\ e[1] \in Programs /\ f[1] \in Programs
      /\ e[2] \in 1..Len(Ins(e[1])) /\ f[2] \in 1..Len(Ins(f[1]))
  BY EntryFacts
<1>2. /\ e[1] = <<e[1][1], e[1][2]>> /\ f[1] = <<f[1][1], f[1][2]>>
      /\ e[1][2] \in Int /\ f[1][2] \in Int /\ e[2] \in Int /\ f[2] \in Int
  <2>1. Len(Ins(e[1])) \in Nat /\ Len(Ins(f[1])) \in Nat
    BY <1>1, ProgramFacts
  <2> QED BY <1>1, <2>1, ProgramFacts, SMTT(60)
<1>3. e[1][2] = f[1][2] /\ e[2] = f[2] => e = f
  BY <1>1, <1>2
<1> QED BY <1>2, <1>3 DEF Precedes

\* Among the entries of a channel there is a last one.
LEMMA LastEntry ==
  ASSUME LegalStreams, NEW c \in Channels, NEW S, S \subseteq Entries, S # {},
         \A e \in S : e[1][1] = c
  PROVE  \E e \in S : \A f \in S : f # e => Precedes(f, e)
<1> DEFINE Ps == {e[1][2] : e \in S}
<1>0. PICK e0 \in S : TRUE
  OBVIOUS
<1>1. \A e \in S : e[1] \in Programs /\ e[1][2] \in 0..Len(Stream[c])
  <2> SUFFICES ASSUME NEW e \in S PROVE e[1] \in Programs /\ e[1][2] \in 0..Len(Stream[c])
    OBVIOUS
  <2>1. e[1] \in Programs /\ e[1][1] = c
    BY EntryFacts
  <2> QED BY <2>1, ProgramFacts
<1>2. Len(Stream[c]) \in Nat
  BY <1>0, <1>1, ProgramFacts
<1>3. PICK n \in Ps : \A y \in Ps : y <= n
  <2>1. Ps \subseteq 0..Len(Stream[c]) /\ Ps # {}
    BY <1>0, <1>1
  <2> HIDE DEF Ps
  <2> QED BY <2>1, <1>2, GreatestNat
<1>4. PICK e1 \in S : e1[1][2] = n
  BY <1>3
<1> DEFINE q == e1[1]
           Ks == {e[2] : e \in {f \in S : f[1] = q}}
<1>5. Len(Ins(q)) \in Nat /\ \A e \in S : e[1] = q => e[2] \in 0..Len(Ins(q))
  <2>1. q \in Programs /\ Len(Ins(q)) \in Nat
    BY <1>1, ProgramFacts
  <2>2. \A e \in S : e[1] = q => e[2] \in 1..Len(Ins(q))
    BY EntryFacts
  <2> QED BY <2>1, <2>2
<1>6. PICK k \in Ks : \A y \in Ks : y <= k
  <2>1. Ks \subseteq 0..Len(Ins(q)) /\ Ks # {}
    BY <1>5
  <2> HIDE DEF Ks
  <2> QED BY <2>1, <1>5, GreatestNat
<1>7. PICK e \in S : e[1] = q /\ e[2] = k
  BY <1>6
<1>8. ASSUME NEW f \in S, f # e PROVE Precedes(f, e)
  <2>1. Precedes(f, e) \/ Precedes(e, f)
    BY <1>8, Order
  <2>2. f[1][2] <= n /\ e[1][2] = n /\ e[1][2] \in Int /\ f[1][2] \in Int
    BY <1>1, <1>2, <1>3, <1>4, <1>7
  <2>3. CASE f[1][2] = n
    <3>1. f[1] = q
      <4>1. f[1] \in Programs /\ q \in Programs /\ f[1][1] = q[1] /\ f[1][2] = q[2]
        BY <1>1, <1>4, <2>3
      <4>2. f[1] = <<f[1][1], f[1][2]>>
        BY <4>1, ProgramFacts
      <4>3. q = <<q[1], q[2]>>
        BY <4>1, ProgramFacts
      <4> QED BY <4>1, <4>2, <4>3
    <3>2. f[2] <= k /\ f[2] \in Int /\ k \in Int
      BY <3>1, <1>5, <1>6, <1>7
    <3> QED BY <3>2, <2>1, <2>2, <2>3, <1>7 DEF Precedes
  <2>4. CASE f[1][2] < n
    BY <2>2, <2>4 DEF Precedes
  <2> QED BY <2>2, <2>3, <2>4
<1> QED BY <1>7, <1>8
-----------------------------------------------------------------------------
(* io_table as build_io_table leaves it *)

IoType == [map : SUBSET (Channels \X Pids \X Nat), pmt : SUBSET (Channels \X Pids),
           input : SUBSET Pids, pmtOut : SUBSET Nat]
Pmts == {<<p[1], Ins(p)[1]>> : p \in Programs}

Held(t) == {e \in Used(t) : \A f \in Used(t) \ {e} :
              SameInput(e, f) => IF e[2] = 1 THEN Precedes(e, f) ELSE Precedes(f, e)}

\* An input pid of a channel has one output pid, and an output pid one input pid.
Functional(io) == \A m, n \in io.map : m[1] = n[1] /\ m[2] = n[2] => m = n
OneToOne(io) == /\ \A m, n \in io.map : m[3] = n[3] => m = n
                /\ \A m \in io.map : m[3] \notin io.pmtOut

LEMMA BuildIs ==
  ASSUME NEW t
  PROVE  build_io_table(t) =
           [map    |-> {Triple(t, e) : e \in Held(t)},
            pmt    |-> Pmts,
            input  |-> {InPid(e) : e \in Entries},
            pmtOut |-> {Out(t, e) : e \in {f \in Used(t) \ Held(t) : f[2] = 1}}]
BY DEF build_io_table, Triple, Held, Used, Out, Pmts

LEMMA UsedFacts ==
  ASSUME LegalStreams, NEW t, TableOK(t), NEW e \in Used(t)
  PROVE  /\ e \in Entries /\ e[1] \in Programs /\ e[2] \in 1..Len(Ins(e[1])) /\ t[e[1]].sel
         /\ e = <<e[1], e[2]>> /\ InPid(e) \in Pids /\ e[1][1] \in Channels
         /\ Out(t, e) \in OutPids /\ Out(t, e) \in Nat
         /\ Triple(t, e)[1] = e[1][1] /\ Triple(t, e)[2] = InPid(e) /\ Triple(t, e)[3] = Out(t, e)
         /\ Triple(t, e) \in Channels \X Pids \X Nat
<1>1. e \in Entries /\ t[e[1]].sel
  BY DEF Used
<1>2. /\ e[1] \in Programs /\ e[2] \in 1..Len(Ins(e[1])) /\ e = <<e[1], e[2]>>
      /\ InPid(e) \in Pids /\ e[1][1] \in Channels
  BY <1>1, EntryFacts
<1>3. Out(t, e) \in OutPids
  BY <1>1, <1>2 DEF TableOK, Out, Chosen
<1>4. Out(t, e) \in Nat
  BY <1>3, StreamAssumption DEF Pids, OutPids, Pad
<1> QED BY <1>1, <1>2, <1>3, <1>4 DEF Triple

\* Of the entries of a stream the last is held, with the pid they all have.
LEMMA HeldFor ==
  ASSUME LegalStreams, NEW t, TableOK(t), Agrees(t), NEW e \in Used(t), e[2] # 1
  PROVE  \E h \in Held(t) : Triple(t, h) = Triple(t, e)
<1> DEFINE S == {f \in Used(t) : SameInput(e, f)}
<1>1. e \in S
  BY DEF SameInput
<1>2. S \subseteq Entries /\ e[1][1] \in Channels /\ \A f \in S : f[1][1] = e[1][1]
  BY UsedFacts DEF SameInput
<1>3. PICK h \in S : \A f \in S : f # h => Precedes(f, h)
  <2> HIDE DEF S
  <2> QED BY <1>1, <1>2, LastEntry
<1>4. h \in Entries /\ e \in Entries /\ SameInput(h, e) /\ h \in Used(t)
  BY <1>3, <1>2, UsedFacts DEF SameInput
<1>5. h[2] # 1
  BY <1>4, PmtApart
<1>6. h \in Held(t)
  <2> SUFFICES ASSUME NEW f \in Used(t) \ {h}, SameInput(h, f) PROVE Precedes(f, h)
    BY <1>4, <1>5 DEF Held
  <2>1. f \in S
    BY <1>4 DEF SameInput
  <2> QED BY <2>1, <1>3
<1>7. e[2] > 1 /\ h[2] > 1
  <2>1. /\ e[2] \in 1..Len(Ins(e[1])) /\ h[2] \in 1..Len(Ins(h[1]))
        /\ e[1] \in Programs /\ h[1] \in Programs
    BY <1>4, UsedFacts
  <2>2. Len(Ins(e[1])) \in Nat /\ Len(Ins(h[1])) \in Nat
    BY <2>1, ProgramFacts
  <2> QED BY <2>1, <2>2, <1>5
<1>8. Out(t, h) = Out(t, e)
  BY <1>4, <1>7 DEF Agrees
<1> QED BY <1>4, <1>6, <1>8 DEF Triple, SameInput

LEMMA HeldOnce ==
  ASSUME LegalStreams, NEW t, TableOK(t), NEW e \in Held(t), NEW f \in Held(t), SameInput(e, f)
  PROVE  e = f
<1>1. e \in Used(t) /\ f \in Used(t) /\ e \in Entries /\ f \in Entries
  BY UsedFacts DEF Held
<1> SUFFICES ASSUME e # f PROVE FALSE
  OBVIOUS
<1>2. e[1][1] = f[1][1] /\ SameInput(f, e)
  BY DEF SameInput
<1>3. e[2] = 1 <=> f[2] = 1
  BY <1>1, <1>2, PmtApart
<1>4. IF e[2] = 1 THEN Precedes(e, f) ELSE Precedes(f, e)
  BY <1>1 DEF Held
<1>5. IF f[2] = 1 THEN Precedes(f, e) ELSE Precedes(e, f)
  BY <1>1, <1>2 DEF Held
<1> QED BY <1>1, <1>2, <1>3, <1>4, <1>5, Order

\* What the table says of the entries of selected programs.
LEMMA BuildFacts ==
  ASSUME LegalStreams, NEW t, TableOK(t), Distinct(t), Agrees(t), NEW io, io = build_io_table(t)
  PROVE  /\ io \in IoType
         /\ io.pmt = Pmts
         /\ io.input = {InPid(e) : e \in Entries}
         /\ \A m \in io.map : \E e \in Used(t) : m = Triple(t, e)
         /\ \A x \in io.pmtOut : \E e \in Used(t) : e[2] = 1 /\ x = Out(t, e)
         /\ \A e \in Used(t) : \/ Triple(t, e) \in io.map
                               \/ e[2] = 1 /\ Out(t, e) \in io.pmtOut
         /\ Functional(io)
         /\ OneToOne(io)
<1>1. /\ io.map = {Triple(t, e) : e \in Held(t)} /\ io.pmt = Pmts
      /\ io.input = {InPid(e) : e \in Entries}
      /\ io.pmtOut = {Out(t, e) : e \in {f \in Used(t) \ Held(t) : f[2] = 1}}
  BY BuildIs
<1>2. Held(t) \subseteq Used(t)
  BY DEF Held
<1>3. io \in IoType
  <2>1. io.map \in SUBSET (Channels \X Pids \X Nat)
    BY <1>1, <1>2, UsedFacts
  <2>2. io.pmt \in SUBSET (Channels \X Pids)
    BY <1>1, ProgramFacts DEF Pmts
  <2>3. io.input \in SUBSET Pids
    BY <1>1, EntryFacts
  <2>4. io.pmtOut \in SUBSET Nat
    BY <1>1, UsedFacts
  <2> DEFINE r == [map |-> io.map, pmt |-> io.pmt, input |-> io.input, pmtOut |-> io.pmtOut]
  <2>5. io = r
    BY BuildIs, <1>1
  <2>6. r \in IoType
    BY <2>1, <2>2, <2>3, <2>4 DEF IoType
  <2> QED BY <2>5, <2>6
<1>4. \A m \in io.map : \E e \in Used(t) : m = Triple(t, e)
  BY <1>1, <1>2
<1>5. \A x \in io.pmtOut : \E e \in Used(t) : e[2] = 1 /\ x = Out(t, e)
  BY <1>1
<1>6. ASSUME NEW e \in Used(t)
      PROVE  Triple(t, e) \in io.map \/ (e[2] = 1 /\ Out(t, e) \in io.pmtOut)
  <2>1. CASE e[2] # 1
    BY <2>1, <1>1, HeldFor
  <2>2. CASE e[2] = 1
    BY <2>2, <1>1
  <2> QED BY <2>1, <2>2
<1>7. ASSUME NEW m \in io.map, NEW n \in io.map, m[1] = n[1] /\ m[2] = n[2] PROVE m = n
  <2>1. PICK e \in Held(t), f \in Held(t) : m = Triple(t, e) /\ n = Triple(t, f)
    BY <1>1
  <2>2. SameInput(e, f)
    BY <2>1, <1>2, <1>7, UsedFacts DEF SameInput
  <2> QED BY <2>1, <2>2, HeldOnce
<1>8. ASSUME NEW m \in io.map, NEW n \in io.map, m[3] = n[3] PROVE m = n
  <2>1. PICK e \in Held(t), f \in Held(t) : m = Triple(t, e) /\ n = Triple(t, f)
    BY <1>1
  <2>2. Out(t, e) = Out(t, f) /\ e \in Used(t) /\ f \in Used(t)
    BY <2>1, <1>2, <1>8, UsedFacts
  <2>3. e = f \/ SameInput(e, f)
    BY <2>2 DEF Distinct
  <2> QED BY <2>1, <2>3, HeldOnce
<1>9. ASSUME NEW m \in io.map, m[3] \in io.pmtOut PROVE FALSE
  <2>1. PICK e \in Held(t) : m = Triple(t, e)
    BY <1>1
  <2>2. PICK f \in Used(t) \ Held(t) : f[2] = 1 /\ m[3] = Out(t, f)
    BY <1>1, <1>9
  <2>3. Out(t, e) = Out(t, f) /\ e \in Used(t) /\ e # f
    BY <2>1, <2>2, <1>2, UsedFacts
  <2>4. f[2] > 1
    BY <2>2, <2>3 DEF Distinct
  <2> QED BY <2>2, <2>4
<1> QED BY <1>1, <1>3, <1>4, <1>5, <1>6, <1>7, <1>8, <1>9 DEF Functional, OneToOne

-----------------------------------------------------------------------------
(* io_table while the entries of a program are added to it *)

\* The entry is a stream that program p has, too.
Shares(p, f) ==
  f[1][1] = p[1] /\ f[2] > 1 /\ \E j \in 2..Len(Ins(p)) : Ins(p)[j] = InPid(f)

\* The pid is not the output pid of another stream.
Good(t, p, x) == \A f \in Used(t) : ~Shares(p, f) => Out(t, f) # x

\* Of table t and program p, which is not selected in it: io_table still knows the
\* streams that p does not have, and those p has under the pid of the table or,
\* for the first k entries, under o.
Keeps(t, p, io) ==
  \A f \in Used(t) : ~Shares(p, f) => Out(t, f) \in io.pmtOut \/ Triple(t, f) \in io.map
Known(t, p, o, k, io) ==
  \A m \in io.map : \A i \in 2..Len(Ins(p)) : m[1] = p[1] /\ m[2] = Ins(p)[i] =>
    \/ \E f \in Used(t) : Shares(p, f) /\ InPid(f) = m[2] /\ Out(t, f) = m[3]
    \/ \E j \in 2..k : Ins(p)[j] = m[2] /\ o[j] = m[3]
Tracks(t, p, o, k, io) ==
  /\ io \in IoType /\ io.pmt = Pmts /\ Functional(io)
  /\ Keeps(t, p, io) /\ Known(t, p, o, k, io)
  /\ \A j \in 2..k : <<p[1], Ins(p)[j], o[j]>> \in io.map

LEMMA SetPid ==
  ASSUME NEW io \in IoType, NEW c \in Channels, NEW in \in Pids, NEW x \in Nat,
         NEW new, new = io_table_set_pid(io, c, in, x)
  PROVE  /\ new \in IoType
         /\ new.map = {m \in io.map : ~(m[1] = c /\ m[2] = in)} \cup {<<c, in, x>>}
         /\ new.pmt = io.pmt /\ new.input = io.input /\ new.pmtOut = io.pmtOut
BY DEF io_table_set_pid, IoType

LEMMA SetPmtPid ==
  ASSUME NEW io \in IoType, NEW c \in Channels, NEW in \in Pids, NEW x \in Nat,
         NEW new, new = io_table_set_pmt_pid(io, c, in, x)
  PROVE  /\ new \in IoType
         /\ new.pmt = io.pmt /\ new.input = io.input
         /\ Mapped(io, c, in) => new.map = io.map /\ new.pmtOut = io.pmtOut \cup {x}
         /\ ~Mapped(io, c, in) => new.map = io.map \cup {<<c, in, x>>} /\ new.pmtOut = io.pmtOut
<1>1. CASE Mapped(io, c, in)
  BY <1>1 DEF io_table_set_pmt_pid, IoType
<1>2. CASE ~Mapped(io, c, in)
  <2>1. new = io_table_set_pid(io, c, in, x)
    BY <1>2 DEF io_table_set_pmt_pid
  <2>2. {m \in io.map : ~(m[1] = c /\ m[2] = in)} = io.map
    BY <1>2 DEF Mapped
  <2> QED BY <1>2, <2>1, <2>2, SetPid
<1> QED BY <1>1, <1>2

LEMMA PidFacts ==
  /\ MaxPid \in Nat /\ ChanPids \in Nat /\ ProgramMax \in Nat
  /\ RuleChan \in Nat /\ RuleProg \in Nat
  /\ NullPid \in Nat /\ NullPid \notin OutPids /\ OutPids \subseteq Nat /\ Pids \subseteq OutPids
  /\ Pids = 2..MaxPid /\ IsFiniteSet(Pids) /\ Pad \notin Pids
<1>1. /\ MaxPid \in Nat /\ ChanPids \in Nat /\ ProgramMax \in Nat
      /\ RuleChan \in Nat /\ RuleProg \in Nat
  <2>1. {MaxPid, ChanPids, DataMax, ProgramMax, RuleChan, RuleProg} \cup UserPids \subseteq Nat
    BY StreamAssumption
  <2> QED BY <2>1
<1>2. NullPid \in Nat /\ NullPid \notin OutPids
  <2>1. MaxPid >= 2
    BY StreamAssumption
  <2> QED BY <1>1, <2>1 DEF NullPid, OutPids, Pids, Pad
<1>3. IsFiniteSet(Pids)
  BY <1>1, FS_Interval DEF Pids
<1> QED BY <1>1, <1>2, <1>3 DEF Pids, OutPids, Pad

InUse(io) == io.input \cup io.pmtOut \cup UNION {{m[2], m[3]} : m \in io.map}

\* The pid that is free is one that is in no use, if there is one.
LEMMA FreePid ==
  ASSUME NEW io \in IoType, NEW x, x = pick_free_pid(io)
  PROVE  /\ x \in Nat
         /\ x \notin Pids => Pids \subseteq InUse(io)
         /\ x = NullPid \/ x \in Pids \ InUse(io)
<1>1. MaxPid \in Nat /\ NullPid \in Nat /\ Pids \subseteq Nat
  BY PidFacts
<1>2. CASE Pids \subseteq InUse(io)
  BY <1>1, <1>2 DEF pick_free_pid, InUse
<1>3. CASE ~(Pids \subseteq InUse(io))
  <2>1. x = Min(Pids \ InUse(io))
    BY <1>3 DEF pick_free_pid, InUse
  <2>2. \E y \in Pids \ InUse(io) : \A z \in Pids \ InUse(io) : y <= z
    <3> DEFINE T == Pids \ InUse(io)
    <3>1. T \subseteq Nat /\ T # {}
      BY <1>1, <1>3
    <3> HIDE DEF T
    <3>2. \E y \in T : \A z \in T : y <= z
      BY <3>1, LeastNat
    <3> QED BY <3>2 DEF T
  <2>3. x \in Pids \ InUse(io)
    BY <2>1, <2>2 DEF Min
  <2> QED BY <2>3, <1>1
<1> QED BY <1>2, <1>3

LEMMA FreeGood ==
  ASSUME LegalStreams, NEW t, TableOK(t), NEW p \in Programs, NEW io \in IoType, Keeps(t, p, io)
  PROVE  Good(t, p, pick_free_pid(io))
<1> DEFINE x == pick_free_pid(io)
<1> SUFFICES ASSUME NEW f \in Used(t), ~Shares(p, f), Out(t, f) = x PROVE FALSE
  BY DEF Good
<1>1. Out(t, f) \in OutPids /\ Triple(t, f)[3] = x
  BY UsedFacts
<1>2. Out(t, f) \in InUse(io)
  <2>1. CASE Out(t, f) \in io.pmtOut
    BY <2>1 DEF InUse
  <2>2. CASE Triple(t, f) \in io.map
    BY <2>2, <1>1 DEF InUse
  <2> QED BY <2>1, <2>2 DEF Keeps
<1>3. x = NullPid \/ x \notin InUse(io)
  BY FreePid
<1>4. NullPid \notin OutPids
  BY PidFacts
<1> QED BY <1>1, <1>2, <1>3, <1>4

-----------------------------------------------------------------------------
(* The PMT's entry *)

LEMMA StartKeeps ==
  ASSUME LegalStreams, NEW t, TableOK(t), Distinct(t), Agrees(t), NEW p \in Programs,
         NEW io, io = build_io_table(t)
  PROVE  /\ io \in IoType /\ Keeps(t, p, io)
         /\ \A x : is_out_pid_usable(io, p[1], Ins(p)[1], x) => Good(t, p, x)
<1>1. io \in IoType /\ Keeps(t, p, io) /\ io.pmt = Pmts
  BY BuildFacts DEF Keeps
<1>2. <<p[1], Ins(p)[1]>> \in io.pmt
  BY <1>1 DEF Pmts
<1>3. ASSUME NEW x, is_out_pid_usable(io, p[1], Ins(p)[1], x) PROVE Good(t, p, x)
  <2>1. x \notin io.pmtOut /\ ~IsOutput(io, x)
    BY <1>2, <1>3 DEF is_out_pid_usable
  <2> SUFFICES ASSUME NEW f \in Used(t), ~Shares(p, f), Out(t, f) = x PROVE FALSE
    BY DEF Good
  <2>2. Triple(t, f) \in io.map /\ Triple(t, f)[3] = x
    BY <1>1, <2>1, UsedFacts DEF Keeps
  <2> QED BY <2>1, <2>2 DEF IsOutput
<1> QED BY <1>1, <1>3

LEMMA TracksPmt ==
  ASSUME LegalStreams, NEW t, TableOK(t), Distinct(t), Agrees(t), NEW p \in Programs,
         NEW o, NEW x \in Nat,
         NEW io, io = io_table_set_pmt_pid(build_io_table(t), p[1], Ins(p)[1], x)
  PROVE  Tracks(t, p, o, 1, io)
<1> DEFINE io0 == build_io_table(t)
           c == p[1]
           in == Ins(p)[1]
<1>1. /\ io0 \in IoType /\ io0.pmt = Pmts /\ Functional(io0)
      /\ \A m \in io0.map : \E e \in Used(t) : m = Triple(t, e)
      /\ Keeps(t, p, io0)
  BY BuildFacts, StartKeeps
<1>2. c \in Channels /\ in \in Pids
  BY ProgramFacts
<1> HIDE DEF io0
<1>3. /\ io \in IoType /\ io.pmt = io0.pmt
      /\ \/ io.map = io0.map /\ io.pmtOut = io0.pmtOut \cup {x}
         \/ io.map = io0.map \cup {<<c, in, x>>} /\ io.pmtOut = io0.pmtOut /\ ~Mapped(io0, c, in)
  BY <1>1, <1>2, SetPmtPid DEF io0
<1>4. Functional(io)
  <2>1. CASE io.map = io0.map
    BY <2>1, <1>1 DEF Functional
  <2>2. CASE io.map = io0.map \cup {<<c, in, x>>} /\ ~Mapped(io0, c, in)
    BY <2>2, <1>1 DEF Functional, Mapped
  <2> QED BY <2>1, <2>2, <1>3
<1>5. Keeps(t, p, io)
  BY <1>1, <1>3 DEF Keeps
<1>6. ASSUME NEW m \in io.map, NEW i \in 2..Len(Ins(p)), m[1] = c /\ m[2] = Ins(p)[i]
      PROVE  \E f \in Used(t) : Shares(p, f) /\ InPid(f) = m[2] /\ Out(t, f) = m[3]
  <2>0. i \in 1..Len(Ins(p)) /\ i # 1 /\ 1 \in 1..Len(Ins(p)) /\ Len(Ins(p)) \in Nat
    BY ProgramFacts
  <2>1. /\ <<p, i>> \in Entries /\ InPid(<<p, i>>) = Ins(p)[i]
        /\ <<p, 1>> \in Entries /\ InPid(<<p, 1>>) = in
    BY <2>0, EntryFacts
  <2>2. m \in io0.map
    <3>1. SUFFICES ASSUME m = <<c, in, x>> PROVE FALSE
      BY <1>3
    <3>2. SameInput(<<p, 1>>, <<p, i>>)
      BY <2>1, <3>1, <1>6 DEF SameInput
    <3>3. <<p, i>>[2] = 1
      <4>1. <<p, 1>>[2] = 1
        OBVIOUS
      <4> QED BY <4>1, <2>1, <3>2, PmtApart
    <3> QED BY <3>3, <2>0
  <2>3. PICK e \in Used(t) : m = Triple(t, e)
    BY <2>2, <1>1
  <2>4. /\ m[1] = e[1][1] /\ m[2] = InPid(e) /\ m[3] = Out(t, e) /\ e \in Entries
        /\ e[1] \in Programs /\ e[2] \in 1..Len(Ins(e[1]))
    BY <2>3, UsedFacts
  <2>5. SameInput(e, <<p, i>>)
    BY <2>1, <2>4, <1>6 DEF SameInput
  <2>6. e[2] # 1
    BY <2>1, <2>4, <2>5, <2>0, PmtApart
  <2>7. e[2] > 1
    <3>1. Len(Ins(e[1])) \in Nat
      BY <2>4, ProgramFacts
    <3> QED BY <3>1, <2>4, <2>6
  <2> QED BY <2>4, <2>7, <1>6 DEF Shares
<1>7. Known(t, p, o, 1, io)
  BY <1>6 DEF Known
<1>8. \A j \in 2..1 : <<p[1], Ins(p)[j], o[j]>> \in io.map
  OBVIOUS
<1> QED BY <1>1, <1>3, <1>4, <1>5, <1>7, <1>8 DEF Tracks

-----------------------------------------------------------------------------
(* The other entries *)

LEMMA TracksNext ==
  ASSUME LegalStreams, NEW t, TableOK(t), NEW p \in Programs, NEW o,
         NEW k \in 2..Len(Ins(p)), NEW io, Tracks(t, p, o, k - 1, io), o[k] \in Nat,
         \A j \in 2..(k - 1) : Ins(p)[j] = Ins(p)[k] => o[j] = o[k],
         NEW new, new = io_table_set_pid(io, p[1], Ins(p)[k], o[k])
  PROVE  Tracks(t, p, o, k, new)
<1> DEFINE c == p[1]
           in == Ins(p)[k]
<1>0. /\ Len(Ins(p)) \in Nat /\ k \in 1..Len(Ins(p)) /\ k - 1 \in Nat /\ k \in 2..k
      /\ \A j \in 2..k : j = k \/ j \in 2..(k - 1)
      /\ \A j \in 2..(k - 1) : j \in 2..k
  BY ProgramFacts, SMTT(60)
<1>1. c \in Channels /\ in \in Pids /\ io \in IoType
  BY <1>0, ProgramFacts, EntryFacts DEF Tracks
<1>2. /\ new \in IoType
      /\ new.map = {m \in io.map : ~(m[1] = c /\ m[2] = in)} \cup {<<c, in, o[k]>>}
      /\ new.pmt = io.pmt /\ new.pmtOut = io.pmtOut
  BY <1>1, SetPid, SMTT(60)
<1>3. Functional(new)
  BY <1>2 DEF Functional, Tracks
<1>4. Keeps(t, p, new)
  <2> SUFFICES ASSUME NEW f \in Used(t), ~Shares(p, f)
               PROVE  Out(t, f) \in new.pmtOut \/ Triple(t, f) \in new.map
    BY DEF Keeps
  <2>1. CASE Out(t, f) \in io.pmtOut
    BY <2>1, <1>2
  <2>2. CASE Triple(t, f) \in io.map
    <3>1. ~(Triple(t, f)[1] = c /\ Triple(t, f)[2] = in)
      <4> SUFFICES ASSUME Triple(t, f)[1] = c, Triple(t, f)[2] = in PROVE FALSE
        OBVIOUS
      <4>1. /\ f[1][1] = c /\ InPid(f) = in /\ f \in Entries /\ f[1] \in Programs
            /\ f[2] \in 1..Len(Ins(f[1]))
        BY UsedFacts
      <4>2. <<p, k>> \in Entries /\ InPid(<<p, k>>) = in
        BY <1>0, EntryFacts
      <4>3. SameInput(f, <<p, k>>)
        BY <4>1, <4>2 DEF SameInput
      <4>4. f[2] # 1
        BY <4>1, <4>2, <4>3, <1>0, PmtApart
      <4>5. f[2] > 1
        <5>1. Len(Ins(f[1])) \in Nat
          BY <4>1, ProgramFacts
        <5> QED BY <5>1, <4>1, <4>4
      <4>6. Shares(p, f)
        BY <4>1, <4>5 DEF Shares
      <4> QED BY <4>6
    <3> QED BY <2>2, <3>1, <1>2
  <2> QED BY <2>1, <2>2 DEF Tracks, Keeps
<1>5. Known(t, p, o, k, new)
  <2> SUFFICES ASSUME NEW m \in new.map, NEW i \in 2..Len(Ins(p)), m[1] = c, m[2] = Ins(p)[i]
               PROVE  \/ \E f \in Used(t) : Shares(p, f) /\ InPid(f) = m[2] /\ Out(t, f) = m[3]
                      \/ \E j \in 2..k : Ins(p)[j] = m[2] /\ o[j] = m[3]
    BY DEF Known
  <2>1. CASE m \in io.map
    <3>1. \/ \E f \in Used(t) : Shares(p, f) /\ InPid(f) = m[2] /\ Out(t, f) = m[3]
          \/ \E j \in 2..(k - 1) : Ins(p)[j] = m[2] /\ o[j] = m[3]
      BY <2>1 DEF Tracks, Known
    <3> QED BY <3>1, <1>0
  <2>2. CASE m = <<c, in, o[k]>>
    BY <2>2, <1>0
  <2> QED BY <2>1, <2>2, <1>2
<1>6. ASSUME NEW j \in 2..k PROVE <<c, Ins(p)[j], o[j]>> \in new.map
  <2>1. CASE Ins(p)[j] = in
    <3>1. o[j] = o[k]
      BY <2>1, <1>0
    <3> QED BY <2>1, <3>1, <1>2
  <2>2. CASE Ins(p)[j] # in
    <3>1. <<c, Ins(p)[j], o[j]>> \in io.map
      BY <2>2, <1>0 DEF Tracks
    <3> QED BY <3>1, <2>2, <1>2
  <2> QED BY <2>1, <2>2
<1> QED BY <1>2, <1>3, <1>4, <1>5, <1>6 DEF Tracks

\* A pid that a stream of the program has already is no other stream's.
LEMMA MappedGood ==
  ASSUME LegalStreams, NEW t, TableOK(t), Distinct(t), NEW p \in Programs, NEW o,
         NEW k \in 2..Len(Ins(p)), NEW io, Tracks(t, p, o, k - 1, io),
         \A j \in 2..(k - 1) : Good(t, p, o[j]),
         NEW m \in io.map, m[1] = p[1], m[2] = Ins(p)[k]
  PROVE  Good(t, p, m[3])
<1>1. \/ \E f \in Used(t) : Shares(p, f) /\ InPid(f) = m[2] /\ Out(t, f) = m[3]
      \/ \E j \in 2..(k - 1) : Ins(p)[j] = m[2] /\ o[j] = m[3]
  BY DEF Tracks, Known
<1>2. CASE \E j \in 2..(k - 1) : Ins(p)[j] = m[2] /\ o[j] = m[3]
  BY <1>2
<1>3. ASSUME NEW f \in Used(t), Shares(p, f) /\ InPid(f) = m[2] /\ Out(t, f) = m[3]
      PROVE  Good(t, p, m[3])
  <2> SUFFICES ASSUME NEW g \in Used(t), ~Shares(p, g), Out(t, g) = m[3] PROVE FALSE
    BY DEF Good
  <2>1. f # g
    BY <1>3
  <2>2. SameInput(f, g) /\ g[2] > 1
    BY <2>1, <1>3 DEF Distinct
  <2>3. Shares(p, g)
    BY <2>2, <1>3 DEF Shares, SameInput
  <2> QED BY <2>3
<1> QED BY <1>1, <1>2, <1>3

LEMMA UsableGood ==
  ASSUME LegalStreams, NEW t, TableOK(t), Distinct(t), NEW p \in Programs, NEW o,
         NEW k \in 2..Len(Ins(p)), NEW io, Tracks(t, p, o, k - 1, io),
         \A j \in 2..(k - 1) : Good(t, p, o[j]),
         NEW x, is_out_pid_usable(io, p[1], Ins(p)[k], x)
  PROVE  Good(t, p, x)
<1> DEFINE m == <<p[1], Ins(p)[k], x>>
<1>1. CASE m \in io.map
  <2>1. m[1] = p[1] /\ m[2] = Ins(p)[k] /\ m[3] = x
    OBVIOUS
  <2> HIDE DEF m
  <2>2. Good(t, p, m[3])
    BY <1>1, <2>1, MappedGood
  <2> QED BY <2>1, <2>2
<1>2. CASE m \notin io.map
  <2>1. x \notin io.pmtOut /\ ~IsOutput(io, x)
    BY <1>2 DEF is_out_pid_usable
  <2> SUFFICES ASSUME NEW f \in Used(t), ~Shares(p, f), Out(t, f) = x PROVE FALSE
    BY DEF Good
  <2>2. Triple(t, f) \in io.map /\ Triple(t, f)[3] = x
    BY <2>1, UsedFacts DEF Keeps, Tracks
  <2> QED BY <2>1, <2>2 DEF IsOutput
<1> QED BY <1>1, <1>2

-----------------------------------------------------------------------------
(* What a read offers *)

\* A function of the naturals up to N can be computed one step at a time.
Steps(T, a, N, G) ==
  {f \in [0..N -> T] : f[0] = a /\ \A n \in 1..N : f[n] = G[<<n, f[n - 1]>>]}
LEMMA StepsExist ==
  ASSUME NEW T, NEW a \in T, NEW N \in Nat, NEW G \in [(1..N) \X T -> T]
  PROVE  Steps(T, a, N, G) # {}
<1> DEFINE Bad == {m \in 0..N : Steps(T, a, m, G) = {}}
<1> SUFFICES ASSUME Bad # {} PROVE FALSE
  <2>1. N \in 0..N
    OBVIOUS
  <2> QED BY <2>1
<1>1. PICK m \in Bad : \A y \in Bad : m <= y
  <2>1. Bad \subseteq Nat
    OBVIOUS
  <2> HIDE DEF Bad
  <2> QED BY <2>1, LeastNat
<1>2. m \in 0..N /\ Steps(T, a, m, G) = {}
  BY <1>1
<1>3. m # 0
  <2> DEFINE g == [n \in 0..0 |-> a]
  <2>1. g \in [0..0 -> T] /\ g[0] = a
    OBVIOUS
  <2>2. g \in Steps(T, a, 0, G)
    BY <2>1 DEF Steps
  <2> QED BY <2>2, <1>2
<1>4. m \in 1..N /\ m - 1 \in 0..N /\ m - 1 < m /\ m - 1 \in 0..(m - 1)
  BY <1>2, <1>3
<1>5. m - 1 \notin Bad
  BY <1>1, <1>4
<1>6. PICK f \in Steps(T, a, m - 1, G) : TRUE
  BY <1>4, <1>5
<1> DEFINE g == [n \in 0..m |-> IF n = m THEN G[<<m, f[m - 1]>>] ELSE f[n]]
<1>7. f \in [0..(m - 1) -> T] /\ f[0] = a /\ \A n \in 1..(m - 1) : f[n] = G[<<n, f[n - 1]>>]
  BY <1>6 DEF Steps
<1>8. G[<<m, f[m - 1]>>] \in T
  BY <1>4, <1>7
<1>9. g \in [0..m -> T] /\ g[0] = a
  BY <1>4, <1>7, <1>8
<1>10. ASSUME NEW n \in 1..m PROVE g[n] = G[<<n, g[n - 1]>>]
  <2>1. n - 1 \in 0..m /\ n - 1 # m /\ n \in 0..m
    BY <1>4
  <2>2. g[n - 1] = f[n - 1]
    BY <2>1
  <2>3. CASE n = m
    BY <2>1, <2>2, <2>3
  <2>4. CASE n # m
    <3>1. n \in 1..(m - 1)
      BY <2>4, <1>4
    <3> QED BY <3>1, <2>1, <2>2, <2>4, <1>7
  <2> QED BY <2>3, <2>4
<1>11. g \in Steps(T, a, m, G)
  BY <1>9, <1>10 DEF Steps
<1> QED BY <1>2, <1>11

\* The output pids of program p, and what fix_selected_program_output_pid holds.
Outs(p) == [1..Len(Ins(p)) -> Nat]
Acc(p) == [io : IoType, out : Outs(p)]

LEMMA OutIsPid ==
  ASSUME LegalStreams, NEW io \in IoType, NEW c, NEW in \in Pids
  PROVE  /\ io_table_get_out_pid(io, c, in) \in Nat
         /\ io_table_get_pmt_out_pid(io, c, in) \in Nat
         /\ Mapped(io, c, in) =>
              \E m \in io.map : m[1] = c /\ m[2] = in /\ io_table_get_out_pid(io, c, in) = m[3]
<1>1. pick_free_pid(io) \in Nat /\ in \in Nat
  BY FreePid, PidFacts
<1>2. CASE Mapped(io, c, in)
  <2>1. PICK m \in io.map : m[1] = c /\ m[2] = in
    BY <1>2 DEF Mapped
  <2> DEFINE n == CHOOSE n \in io.map : n[1] = c /\ n[2] = in
  <2>2. n \in io.map /\ n[1] = c /\ n[2] = in
    BY <2>1
  <2>3. io_table_get_out_pid(io, c, in) = n[3]
    BY <1>2 DEF io_table_get_out_pid, OutPid
  <2> HIDE DEF n
  <2>4. n[3] \in Nat
    BY <2>2 DEF IoType
  <2> QED BY <1>1, <2>2, <2>3, <2>4 DEF io_table_get_pmt_out_pid
<1>3. CASE ~Mapped(io, c, in)
  BY <1>1, <1>3 DEF io_table_get_out_pid, io_table_get_pmt_out_pid
<1> QED BY <1>2, <1>3

PmtOut(t, p) == io_table_get_pmt_out_pid(build_io_table(t), p[1], Ins(p)[1])
NextOut(p, acc, k) == io_table_get_out_pid(acc.io, p[1], Ins(p)[k])
LEMMA FixSteps ==
  ASSUME LegalStreams, NEW t, TableOK(t), Distinct(t), Agrees(t), NEW p \in Programs
  PROVE  /\ FixUpTo(t, p)[0] =
              [io |-> io_table_set_pmt_pid(build_io_table(t), p[1], Ins(p)[1], PmtOut(t, p)),
               out |-> [t[p].out EXCEPT ![1] = PmtOut(t, p)]]
         /\ \A n \in 0..(Len(Ins(p)) - 1) : FixUpTo(t, p)[n] \in Acc(p)
         /\ \A n \in 1..(Len(Ins(p)) - 1) :
              LET acc == FixUpTo(t, p)[n - 1]
                  x == NextOut(p, acc, n + 1)
              IN  FixUpTo(t, p)[n] = [io |-> io_table_set_pid(acc.io, p[1], Ins(p)[n + 1], x),
                                      out |-> [acc.out EXCEPT ![n + 1] = x]]
<1> DEFINE N == Len(Ins(p)) - 1
           T == Acc(p)
           a == [io |-> io_table_set_pmt_pid(build_io_table(t), p[1], Ins(p)[1], PmtOut(t, p)),
                 out |-> [t[p].out EXCEPT ![1] = PmtOut(t, p)]]
           After(n, acc) ==
             [io |-> io_table_set_pid(acc.io, p[1], Ins(p)[n + 1], NextOut(p, acc, n + 1)),
              out |-> [acc.out EXCEPT ![n + 1] = NextOut(p, acc, n + 1)]]
           Fix(acc, k) ==
             LET out == io_table_get_out_pid(acc.io, p[1], Ins(p)[k])
             IN IF ~prog_pid_val_isvalid(Ins(p)[k]) THEN acc
                ELSE [io |-> io_table_set_pid(acc.io, p[1], Ins(p)[k], out),
                      out |-> [acc.out EXCEPT ![k] = out]]
           G == [x \in (1..N) \X T |-> Fix(x[2], x[1] + 1)]
           Solves(f) == f = [n \in 0..N |-> IF n = 0 THEN a ELSE Fix(f[n - 1], n + 1)]
<1>1. /\ N \in Nat /\ N >= 1 /\ Len(Ins(p)) = N + 1 /\ p[1] \in Channels
      /\ \A n \in 1..N : Ins(p)[n + 1] \in Pids /\ n + 1 \in 1..Len(Ins(p))
  <2>1. Len(Ins(p)) \in Nat /\ Len(Ins(p)) >= 2 /\ p[1] \in Channels
    BY ProgramFacts
  <2>2. \A k \in 1..Len(Ins(p)) : Ins(p)[k] \in Pids
    BY EntryFacts
  <2> QED BY <2>1, <2>2
<1>2. \A n \in 1..N, acc \in T : Fix(acc, n + 1) = After(n, acc) /\ After(n, acc) \in T
  <2> SUFFICES ASSUME NEW n \in 1..N, NEW acc \in T
               PROVE  Fix(acc, n + 1) = After(n, acc) /\ After(n, acc) \in T
    OBVIOUS
  <2>1. Ins(p)[n + 1] \in Pids /\ acc.io \in IoType /\ acc.out \in Outs(p)
    BY <1>1 DEF Acc
  <2>2. NextOut(p, acc, n + 1) \in Nat
    BY <2>1, OutIsPid DEF NextOut
  <2>3. io_table_set_pid(acc.io, p[1], Ins(p)[n + 1], NextOut(p, acc, n + 1)) \in IoType
    BY <2>1, <2>2, <1>1, SetPid
  <2>4. [acc.out EXCEPT ![n + 1] = NextOut(p, acc, n + 1)] \in Outs(p)
    BY <2>1, <2>2 DEF Outs
  <2>5. After(n, acc) \in T
    BY <2>3, <2>4 DEF Acc
  <2>6. prog_pid_val_isvalid(Ins(p)[n + 1])
    BY <2>1 DEF prog_pid_val_isvalid
  <2> QED BY <2>5, <2>6 DEF NextOut
<1>3. a \in T
  <2>1. build_io_table(t) \in IoType /\ Ins(p)[1] \in Pids
    BY BuildFacts, ProgramFacts
  <2>2. PmtOut(t, p) \in Nat
    BY <2>1, OutIsPid DEF PmtOut
  <2>3. io_table_set_pmt_pid(build_io_table(t), p[1], Ins(p)[1], PmtOut(t, p)) \in IoType
    BY <2>1, <2>2, <1>1, SetPmtPid
  <2>4. t[p].out \in Outs(p)
    <3>1. t[p] \in Row /\ Len(t[p].out) = Len(Ins(p))
      BY DEF TableOK
    <3>2. t[p].out \in Seq(Nat)
      BY <3>1 DEF Row
    <3>3. t[p].out \in [1..Len(t[p].out) -> Nat]
      BY <3>2
    <3> QED BY <3>1, <3>3 DEF Outs
  <2>5. [t[p].out EXCEPT ![1] = PmtOut(t, p)] \in Outs(p)
    BY <2>2, <2>4 DEF Outs
  <2> QED BY <2>3, <2>5 DEF Acc
<1> HIDE DEF a, After, Fix, T, N
<1>4. G \in [(1..N) \X T -> T]
  BY <1>2
<1>5. PICK f \in Steps(T, a, N, G) : TRUE
  <2> HIDE DEF G
  <2> QED BY <1>1, <1>3, <1>4, StepsExist, Zenon
<1>6. f \in [0..N -> T] /\ f[0] = a /\ \A n \in 1..N : f[n] = Fix(f[n - 1], n + 1)
  <2>1. f \in [0..N -> T] /\ f[0] = a /\ \A n \in 1..N : f[n] = G[<<n, f[n - 1]>>]
    BY <1>5 DEF Steps
  <2>2. \A n \in 1..N : f[n - 1] \in T
    BY <2>1, <1>1
  <2> QED BY <2>1, <2>2
<1>7. Solves(f)
  <2>1. \A n \in 0..N : f[n] = IF n = 0 THEN a ELSE Fix(f[n - 1], n + 1)
    BY <1>6, <1>1
  <2> QED BY <2>1, <1>6
<1>8. FixUpTo(t, p) = CHOOSE g : Solves(g)
  BY DEF FixUpTo, Fix, N, a, PmtOut
<1>9. Solves(FixUpTo(t, p))
  BY <1>7, <1>8
<1> DEFINE h == FixUpTo(t, p)
<1> HIDE DEF h
<1>10. h = [n \in 0..N |-> IF n = 0 THEN a ELSE Fix(h[n - 1], n + 1)]
  BY <1>9 DEF h
<1>11. h[0] = a /\ \A n \in 1..N : h[n] = Fix(h[n - 1], n + 1)
  <2>1. 0 \in 0..N /\ \A n \in 1..N : n \in 0..N /\ n # 0
    BY <1>1
  <2> QED BY <2>1, <1>10
<1>12. \A n \in 0..N : h[n] \in T
  <2> DEFINE Bad == {n \in 0..N : h[n] \notin T}
  <2> SUFFICES ASSUME Bad # {} PROVE FALSE
    OBVIOUS
  <2>1. PICK m \in Bad : \A y \in Bad : m <= y
    <3>1. Bad \subseteq Nat
      BY <1>1
    <3> HIDE DEF Bad
    <3> QED BY <3>1, LeastNat
  <2>2. m # 0
    BY <2>1, <1>11, <1>3
  <2>3. m \in 1..N /\ m - 1 \in 0..N /\ m - 1 \notin Bad
    BY <2>1, <2>2, <1>1
  <2> QED BY <2>1, <2>3, <1>2, <1>11
<1>13. \A n \in 1..N : h[n] = After(n, h[n - 1])
  <2>1. \A n \in 1..N : n - 1 \in 0..N
    BY <1>1
  <2> QED BY <2>1, <1>2, <1>11, <1>12
<1> QED BY <1>11, <1>12, <1>13 DEF h, a, After, T, N

LEMMA TracksSame ==
  ASSUME NEW t, NEW p, NEW k, NEW io, NEW o, NEW o2, Tracks(t, p, o, k, io),
         \A j \in 2..k : o2[j] = o[j]
  PROVE  Tracks(t, p, o2, k, io)
<1>1. Known(t, p, o2, k, io)
  BY DEF Tracks, Known
<1> QED BY <1>1 DEF Tracks

\* A pid is given to an entry which no other stream has, and the same to the
\* entries of one stream.
LEMMA NextGood ==
  ASSUME LegalStreams, NEW t, TableOK(t), Distinct(t), NEW p \in Programs,
         NEW k \in 2..Len(Ins(p)), NEW acc \in Acc(p), Tracks(t, p, acc.out, k - 1, acc.io),
         \A j \in 2..(k - 1) : Good(t, p, acc.out[j])
  PROVE  /\ Good(t, p, NextOut(p, acc, k))
         /\ \A j \in 2..(k - 1) : Ins(p)[j] = Ins(p)[k] => acc.out[j] = NextOut(p, acc, k)
<1> DEFINE c == p[1]
           in == Ins(p)[k]
           io == acc.io
           x == NextOut(p, acc, k)
<1>1. io \in IoType /\ in \in Pids
  <2>1. k \in 1..Len(Ins(p))
    BY ProgramFacts
  <2> QED BY <2>1, EntryFacts DEF Acc
<1>2. CASE Mapped(io, c, in)
  <2>1. PICK m \in io.map : m[1] = c /\ m[2] = in /\ x = m[3]
    BY <1>1, <1>2, OutIsPid DEF NextOut
  <2>2. Good(t, p, x)
    BY <2>1, MappedGood
  <2>3. ASSUME NEW j \in 2..(k - 1), Ins(p)[j] = in PROVE acc.out[j] = x
    <3> DEFINE n == <<c, Ins(p)[j], acc.out[j]>>
    <3>1. n \in io.map /\ n[1] = c /\ n[2] = in /\ n[3] = acc.out[j]
      BY <2>3 DEF Tracks
    <3> HIDE DEF n
    <3>2. n = m
      BY <3>1, <2>1 DEF Tracks, Functional
    <3> QED BY <3>1, <3>2, <2>1
  <2> QED BY <2>2, <2>3
<1>3. CASE ~Mapped(io, c, in)
  <2>1. \A j \in 2..(k - 1) : Ins(p)[j] # in
    <3> SUFFICES ASSUME NEW j \in 2..(k - 1), Ins(p)[j] = in PROVE FALSE
      OBVIOUS
    <3> DEFINE n == <<c, Ins(p)[j], acc.out[j]>>
    <3>1. n \in io.map /\ n[1] = c /\ n[2] = in
      BY DEF Tracks
    <3> QED BY <3>1, <1>3 DEF Mapped
  <2>2. CASE is_out_pid_usable(io, c, in, in)
    <3>1. x = in
      BY <1>3, <2>2 DEF NextOut, io_table_get_out_pid
    <3> QED BY <2>1, <2>2, <3>1, UsableGood
  <2>3. CASE ~is_out_pid_usable(io, c, in, in)
    <3>1. x = pick_free_pid(io)
      BY <1>3, <2>3 DEF NextOut, io_table_get_out_pid
    <3>2. Keeps(t, p, io)
      BY DEF Tracks
    <3> QED BY <2>1, <3>1, <3>2, <1>1, FreeGood
  <2> QED BY <2>2, <2>3
<1> QED BY <1>2, <1>3

LEMMA PmtGood ==
  ASSUME LegalStreams, NEW t, TableOK(t), Distinct(t), Agrees(t), NEW p \in Programs
  PROVE  Good(t, p, PmtOut(t, p))
<1> DEFINE io == build_io_table(t)
<1>1. /\ io \in IoType /\ Keeps(t, p, io)
      /\ \A x : is_out_pid_usable(io, p[1], Ins(p)[1], x) => Good(t, p, x)
  BY StartKeeps
<1> HIDE DEF io
<1>2. \/ PmtOut(t, p) = Ins(p)[1] /\ is_out_pid_usable(io, p[1], Ins(p)[1], Ins(p)[1])
      \/ PmtOut(t, p) = pick_free_pid(io)
  BY DEF PmtOut, io_table_get_pmt_out_pid, io
<1> QED BY <1>1, <1>2, FreeGood

\* After each entry, io_table is what it should be and the pids so far are good.
LEMMA FixTracks ==
  ASSUME LegalStreams, NEW t, TableOK(t), Distinct(t), Agrees(t), NEW p \in Programs
  PROVE  \A n \in 0..(Len(Ins(p)) - 1) :
           /\ Tracks(t, p, FixUpTo(t, p)[n].out, n + 1, FixUpTo(t, p)[n].io)
           /\ \A j \in 1..(n + 1) : Good(t, p, FixUpTo(t, p)[n].out[j])
<1> DEFINE N == Len(Ins(p)) - 1
           f == FixUpTo(t, p)
           Fine(n) == /\ Tracks(t, p, f[n].out, n + 1, f[n].io)
                      /\ \A j \in 1..(n + 1) : Good(t, p, f[n].out[j])
           Bad == {n \in 0..N : ~Fine(n)}
<1>1. N \in Nat /\ N >= 1 /\ Len(Ins(p)) = N + 1
  BY ProgramFacts
<1>2. /\ f[0] = [io |-> io_table_set_pmt_pid(build_io_table(t), p[1], Ins(p)[1], PmtOut(t, p)),
                 out |-> [t[p].out EXCEPT ![1] = PmtOut(t, p)]]
      /\ \A n \in 0..N : f[n] \in Acc(p)
      /\ \A n \in 1..N :
           LET x == NextOut(p, f[n - 1], n + 1)
           IN  f[n] = [io |-> io_table_set_pid(f[n - 1].io, p[1], Ins(p)[n + 1], x),
                       out |-> [f[n - 1].out EXCEPT ![n + 1] = x]]
  BY FixSteps
<1> HIDE DEF f
<1> SUFFICES ASSUME Bad # {} PROVE FALSE
  BY DEF f
<1>3. PICK n \in Bad : \A y \in Bad : n <= y
  <2>1. Bad \subseteq Nat
    BY <1>1
  <2> HIDE DEF Bad
  <2> QED BY <2>1, LeastNat
<1>4. n \in 0..N /\ ~Fine(n) /\ f[n] \in Acc(p)
  BY <1>3, <1>2
<1>5. CASE n = 0
  <2>0. 1 \in DOMAIN t[p].out
    <3>1. t[p].out \in Seq(Nat) /\ Len(t[p].out) = N + 1
      BY <1>1 DEF TableOK, Row
    <3> QED BY <3>1, <1>1
  <2>1. /\ f[0].io = io_table_set_pmt_pid(build_io_table(t), p[1], Ins(p)[1], PmtOut(t, p))
        /\ f[0].out[1] = PmtOut(t, p)
    BY <1>2, <2>0
  <2>2. PmtOut(t, p) \in Nat
    <3>1. build_io_table(t) \in IoType /\ Ins(p)[1] \in Pids
      BY BuildFacts, ProgramFacts
    <3> QED BY <3>1, OutIsPid DEF PmtOut
  <2>3. Tracks(t, p, f[0].out, 1, f[0].io)
    BY <2>1, <2>2, TracksPmt
  <2>4. \A j \in 1..1 : Good(t, p, f[0].out[j])
    BY <2>1, PmtGood
  <2> QED BY <1>4, <1>5, <2>3, <2>4
<1>6. CASE n # 0
  <2>1. /\ n \in 1..N /\ n - 1 \in 0..N /\ n - 1 \notin Bad /\ n + 1 \in 2..Len(Ins(p))
        /\ (n + 1) - 1 = n /\ (n - 1) + 1 = n
    BY <1>1, <1>3, <1>4, <1>6
  <2> DEFINE acc == f[n - 1]
             k == n + 1
             x == NextOut(p, acc, k)
  <2>2. /\ acc \in Acc(p) /\ Tracks(t, p, acc.out, k - 1, acc.io)
        /\ \A j \in 1..(k - 1) : Good(t, p, acc.out[j])
    <3>1. Fine(n - 1)
      BY <2>1
    <3> QED BY <3>1, <2>1, <1>2
  <2>3. f[n] = [io |-> io_table_set_pid(acc.io, p[1], Ins(p)[k], x),
                out |-> [acc.out EXCEPT ![k] = x]]
    BY <1>2, <2>1
  <2> HIDE DEF acc
  <2>4. \A j \in 2..(k - 1) : j \in 1..(k - 1)
    OBVIOUS
  <2>5. /\ Good(t, p, x)
        /\ \A j \in 2..(k - 1) : Ins(p)[j] = Ins(p)[k] => acc.out[j] = x
    BY <2>1, <2>2, <2>4, NextGood
  <2> DEFINE o == [acc.out EXCEPT ![k] = x]
  <2>6. o[k] = x /\ x \in Nat /\ \A j \in 1..(k - 1) : o[j] = acc.out[j]
    <3>1. acc.out \in Outs(p) /\ k \in 1..Len(Ins(p))
      BY <2>1, <2>2 DEF Acc
    <3>2. acc.io \in IoType /\ Ins(p)[k] \in Pids
      BY <3>1, <2>2, EntryFacts DEF Acc
    <3>3. x \in Nat
      BY <3>2, OutIsPid DEF NextOut
    <3> QED BY <3>1, <3>3, <2>1, SMTT(60) DEF Outs
  <2>7. f[n].out = o /\ f[n].io = io_table_set_pid(acc.io, p[1], Ins(p)[k], o[k])
    BY <2>3, <2>6
  <2> HIDE DEF o, x
  <2>8. Tracks(t, p, o, k - 1, acc.io)
    BY <2>2, <2>4, <2>6, TracksSame
  <2>9. Tracks(t, p, o, k, f[n].io)
    <3>1. \A j \in 2..(k - 1) : Ins(p)[j] = Ins(p)[k] => o[j] = o[k]
      BY <2>4, <2>5, <2>6
    <3> QED BY <3>1, <2>1, <2>6, <2>7, <2>8, TracksNext
  <2>10. \A j \in 1..(n + 1) : Good(t, p, f[n].out[j])
    <3> SUFFICES ASSUME NEW j \in 1..(n + 1) PROVE Good(t, p, o[j])
      BY <2>7
    <3>1. CASE j = k
      BY <3>1, <2>5, <2>6
    <3>2. CASE j # k
      <4>1. j \in 1..(k - 1)
        BY <3>2, <2>1
      <4> QED BY <4>1, <2>2, <2>6
    <3> QED BY <3>1, <3>2
  <2> QED BY <2>7, <2>9, <2>10, <1>4
<1> QED BY <1>5, <1>6

\* The pids a read offers: other streams do not have them.
LEMMA OfferGood ==
  ASSUME LegalStreams, NEW t, TableOK(t), Distinct(t), Agrees(t), NEW p \in Programs, ~t[p].sel
  PROVE  /\ prepare_program_output_pid(t, p) \in Outs(p)
         /\ \A j \in 1..Len(Ins(p)) : Good(t, p, prepare_program_output_pid(t, p)[j])
<1> DEFINE N == Len(Ins(p)) - 1
<1>1. N \in 0..N /\ N + 1 = Len(Ins(p))
  BY ProgramFacts
<1>2. prepare_program_output_pid(t, p) = FixUpTo(t, p)[N].out
  BY DEF prepare_program_output_pid, fix_selected_program_output_pid
<1>3. FixUpTo(t, p)[N] \in Acc(p)
  BY <1>1, FixSteps
<1>4. \A j \in 1..(N + 1) : Good(t, p, FixUpTo(t, p)[N].out[j])
  BY <1>1, FixTracks
<1> QED BY <1>1, <1>2, <1>3, <1>4 DEF Acc

-----------------------------------------------------------------------------
(* What a write checks and changes *)

\* The tables that differ from t in the output pids of programs other than p.
Like(t, p) ==
  {u \in [Programs -> Row] :
     TableOK(u) /\ u[p] = t[p] /\ \A q \in Programs : u[q].sel = t[q].sel}
Checked(t, p) == [ok : BOOLEAN, io : IoType, t : Like(t, p)]

\* An entry of another selected program of the channel, no PMT's.
OfOther(t, p, q, j) == q[1] = p[1] /\ q # p /\ t[q].sel /\ j > 1

LEMMA UpdateOther ==
  ASSUME LegalStreams, NEW t, NEW p \in Programs, NEW u \in Like(t, p), NEW in, NEW x \in OutPids,
         NEW v, v = update_channel_other_program_out_pid(u, p, in, x)
  PROVE  /\ v \in Like(t, p)
         /\ \A q \in Programs : \A j \in 1..Len(Ins(q)) :
              v[q].out[j] = IF OfOther(t, p, q, j) /\ Ins(q)[j] = in THEN x ELSE u[q].out[j]
<1> DEFINE New(q) == [k \in DOMAIN u[q].out |->
                        IF /\ k > 1
                           /\ Ins(q)[k] = in
                           /\ \A j \in 2..k : prog_pid_val_isvalid(Ins(q)[j])
                        THEN x ELSE u[q].out[k]]
           Stays(q) == q[1] # p[1] \/ q = p \/ ~u[q].sel
           R(q) == IF Stays(q) THEN u[q] ELSE [u[q] EXCEPT !.out = New(q)]
<1>1. v = [q \in Programs |-> R(q)]
  BY DEF update_channel_other_program_out_pid
<1>2. ASSUME NEW q \in Programs
      PROVE  /\ R(q) \in Row /\ Len(R(q).out) = Len(Ins(q)) /\ R(q).sel = t[q].sel
             /\ t[q].sel => Chosen(q, R(q).out)
             /\ \A j \in 1..Len(Ins(q)) :
                  R(q).out[j] = IF OfOther(t, p, q, j) /\ Ins(q)[j] = in THEN x ELSE u[q].out[j]
  <2>1. /\ u[q] \in Row /\ Len(u[q].out) = Len(Ins(q)) /\ u[q].sel = t[q].sel
        /\ t[q].sel => Chosen(q, u[q].out)
    BY DEF Like, TableOK
  <2>2. u[q].out \in Seq(Nat) /\ Len(Ins(q)) \in Nat /\ 1 \in 1..Len(Ins(q))
    BY <2>1, ProgramFacts DEF Row
  <2>3. DOMAIN u[q].out = 1..Len(Ins(q)) /\ \A k \in 1..Len(Ins(q)) : u[q].out[k] \in Nat
    BY <2>1, <2>2
  <2>4. CASE Stays(q)
    BY <2>1, <2>4 DEF OfOther
  <2>5. CASE ~Stays(q)
    <3>1. \A k \in 1..Len(Ins(q)) : \A j \in 2..k : prog_pid_val_isvalid(Ins(q)[j])
      <4>1. \A k \in 1..Len(Ins(q)) : \A j \in 2..k : j \in 1..Len(Ins(q))
        BY <2>2
      <4>2. \A j \in 1..Len(Ins(q)) : Ins(q)[j] \in Pids
        BY EntryFacts
      <4> QED BY <4>1, <4>2 DEF prog_pid_val_isvalid
    <3>2. New(q) = [k \in 1..Len(Ins(q)) |-> IF k > 1 /\ Ins(q)[k] = in THEN x ELSE u[q].out[k]]
      BY <2>3, <3>1
    <3>3. x \in Nat
      BY PidFacts
    <3>4. /\ New(q) \in [1..Len(Ins(q)) -> Nat]
          /\ \A k \in 1..Len(Ins(q)) :
               New(q)[k] = IF k > 1 /\ Ins(q)[k] = in THEN x ELSE u[q].out[k]
      BY <3>2, <3>3, <2>3
    <3> HIDE DEF New
    <3>5. New(q) \in Seq(Nat) /\ Len(New(q)) = Len(Ins(q))
      BY <3>4, <2>2
    <3>6. R(q) = [sel |-> u[q].sel, out |-> New(q)]
      BY <2>1, <2>5 DEF Row
    <3>7. R(q) \in Row /\ R(q).sel = t[q].sel /\ R(q).out = New(q)
      BY <3>5, <3>6, <2>1 DEF Row
    <3> HIDE DEF R
    <3>8. q[1] = p[1] /\ q # p /\ t[q].sel
      BY <2>5, <2>1
    <3>9. Chosen(q, New(q))
      BY <3>4, <3>8, <2>1, <2>2, SMTT(60) DEF Chosen
    <3> QED BY <3>4, <3>5, <3>7, <3>8, <3>9 DEF OfOther
  <2> QED BY <2>4, <2>5
<1>5. R(p) = u[p]
  OBVIOUS
<1> HIDE DEF R
<1>3. v \in [Programs -> Row]
  BY <1>1, <1>2
<1>4. TableOK(v)
  BY <1>1, <1>2, <1>3 DEF TableOK
<1> QED BY <1>1, <1>2, <1>3, <1>4, <1>5 DEF Like

UsableOrKept(p, out, old, io, k) ==
  Changed(old, out, k) => is_out_pid_usable(io, p[1], Ins(p)[k], out[k])
CheckNext(p, out, old, acc, k) ==
  IF ~acc.ok THEN acc
  ELSE IF ~UsableOrKept(p, out, old, acc.io, k) THEN [acc EXCEPT !.ok = FALSE]
  ELSE [ok |-> TRUE,
        io |-> io_table_set_pid(acc.io, p[1], Ins(p)[k], out[k]),
        t |-> update_channel_other_program_out_pid(acc.t, p, Ins(p)[k], out[k])]

LEMMA CheckSteps ==
  ASSUME LegalStreams, NEW t, TableOK(t), Distinct(t), Agrees(t), NEW p \in Programs,
         NEW out \in [1..Len(Ins(p)) -> OutPids], NEW old
  PROVE  /\ CheckUpTo(t, p, out, old)[0] =
              [ok |-> UsableOrKept(p, out, old, build_io_table(t), 1),
               io |-> io_table_set_pmt_pid(build_io_table(t), p[1], Ins(p)[1], out[1]),
               t |-> t]
         /\ \A n \in 0..(Len(Ins(p)) - 1) : CheckUpTo(t, p, out, old)[n] \in Checked(t, p)
         /\ \A n \in 1..(Len(Ins(p)) - 1) :
              CheckUpTo(t, p, out, old)[n] =
                CheckNext(p, out, old, CheckUpTo(t, p, out, old)[n - 1], n + 1)
<1> DEFINE N == Len(Ins(p)) - 1
           T == Checked(t, p)
           a == [ok |-> UsableOrKept(p, out, old, build_io_table(t), 1),
                 io |-> io_table_set_pmt_pid(build_io_table(t), p[1], Ins(p)[1], out[1]),
                 t |-> t]
           Usable(io, k) ==
             Changed(old, out, k) => is_out_pid_usable(io, p[1], Ins(p)[k], out[k])
           Check(acc, k) ==
             IF ~acc.ok \/ ~prog_pid_val_isvalid(Ins(p)[k]) THEN acc
             ELSE IF ~Usable(acc.io, k) THEN [acc EXCEPT !.ok = FALSE]
             ELSE [ok |-> TRUE,
                   io |-> io_table_set_pid(acc.io, p[1], Ins(p)[k], out[k]),
                   t |-> update_channel_other_program_out_pid(acc.t, p, Ins(p)[k], out[k])]
           G == [x \in (1..N) \X T |-> Check(x[2], x[1] + 1)]
           Solves(f) == f = [n \in 0..N |-> IF n = 0 THEN a ELSE Check(f[n - 1], n + 1)]
<1>1. /\ N \in Nat /\ N >= 1 /\ Len(Ins(p)) = N + 1 /\ p[1] \in Channels
      /\ \A n \in 1..N : Ins(p)[n + 1] \in Pids /\ out[n + 1] \in OutPids /\ out[n + 1] \in Nat
      /\ Ins(p)[1] \in Pids /\ out[1] \in Nat
  <2>1. Len(Ins(p)) \in Nat /\ Len(Ins(p)) >= 2 /\ p[1] \in Channels /\ Ins(p)[1] \in Pids
    BY ProgramFacts
  <2>2. \A k \in 1..Len(Ins(p)) : Ins(p)[k] \in Pids /\ out[k] \in OutPids
    BY EntryFacts
  <2>3. \A n \in 1..N : n + 1 \in 1..Len(Ins(p))
    BY <2>1
  <2>4. 1 \in 1..Len(Ins(p))
    BY <2>1
  <2>5. \A k \in 1..Len(Ins(p)) : out[k] \in Nat
    BY <2>2, PidFacts
  <2> QED BY <2>1, <2>2, <2>3, <2>4, <2>5
<1>2. \A n \in 1..N, acc \in T : Check(acc, n + 1) = CheckNext(p, out, old, acc, n + 1)
                                 /\ CheckNext(p, out, old, acc, n + 1) \in T
  <2> SUFFICES ASSUME NEW n \in 1..N, NEW acc \in T
               PROVE  /\ Check(acc, n + 1) = CheckNext(p, out, old, acc, n + 1)
                      /\ CheckNext(p, out, old, acc, n + 1) \in T
    OBVIOUS
  <2> DEFINE k == n + 1
  <2>1. /\ Ins(p)[k] \in Pids /\ out[k] \in OutPids /\ out[k] \in Nat
        /\ acc.io \in IoType /\ acc.ok \in BOOLEAN /\ acc.t \in Like(t, p)
    BY <1>1 DEF Checked
  <2>2. prog_pid_val_isvalid(Ins(p)[k])
    BY <2>1 DEF prog_pid_val_isvalid
  <2>3. io_table_set_pid(acc.io, p[1], Ins(p)[k], out[k]) \in IoType
    BY <2>1, <1>1, SetPid
  <2>4. update_channel_other_program_out_pid(acc.t, p, Ins(p)[k], out[k]) \in Like(t, p)
    BY <2>1, UpdateOther
  <2>5. [acc EXCEPT !.ok = FALSE] \in T
    BY DEF Checked
  <2>6. CheckNext(p, out, old, acc, k) \in T
    BY <2>3, <2>4, <2>5 DEF CheckNext, Checked
  <2> QED BY <2>2, <2>6 DEF CheckNext, UsableOrKept
<1>3. a \in T
  <2>1. build_io_table(t) \in IoType
    BY BuildFacts
  <2>2. io_table_set_pmt_pid(build_io_table(t), p[1], Ins(p)[1], out[1]) \in IoType
    BY <2>1, <1>1, SetPmtPid
  <2>3. t \in Like(t, p)
    BY DEF Like, TableOK
  <2>4. UsableOrKept(p, out, old, build_io_table(t), 1) \in BOOLEAN
    BY DEF UsableOrKept
  <2> QED BY <2>2, <2>3, <2>4 DEF Checked
<1> HIDE DEF a, Check, T, N
<1>4. G \in [(1..N) \X T -> T]
  BY <1>2
<1>5. PICK f \in Steps(T, a, N, G) : TRUE
  <2> HIDE DEF G
  <2> QED BY <1>1, <1>3, <1>4, StepsExist, Zenon
<1>6. f \in [0..N -> T] /\ f[0] = a /\ \A n \in 1..N : f[n] = Check(f[n - 1], n + 1)
  <2>1. f \in [0..N -> T] /\ f[0] = a /\ \A n \in 1..N : f[n] = G[<<n, f[n - 1]>>]
    BY <1>5 DEF Steps
  <2>2. \A n \in 1..N : f[n - 1] \in T
    BY <2>1, <1>1
  <2> QED BY <2>1, <2>2
<1>7. Solves(f)
  <2>1. \A n \in 0..N : f[n] = IF n = 0 THEN a ELSE Check(f[n - 1], n + 1)
    BY <1>6, <1>1
  <2> QED BY <2>1, <1>6
<1>8. CheckUpTo(t, p, out, old) = CHOOSE g : Solves(g)
  BY DEF CheckUpTo, Check, N, a, UsableOrKept
<1>9. Solves(CheckUpTo(t, p, out, old))
  BY <1>7, <1>8
<1> DEFINE h == CheckUpTo(t, p, out, old)
<1> HIDE DEF h
<1>10. h = [n \in 0..N |-> IF n = 0 THEN a ELSE Check(h[n - 1], n + 1)]
  BY <1>9 DEF h
<1>11. h[0] = a /\ \A n \in 1..N : h[n] = Check(h[n - 1], n + 1)
  <2>1. 0 \in 0..N /\ \A n \in 1..N : n \in 0..N /\ n # 0
    BY <1>1
  <2> QED BY <2>1, <1>10
<1>12. \A n \in 0..N : h[n] \in T
  <2> DEFINE Bad == {n \in 0..N : h[n] \notin T}
  <2> SUFFICES ASSUME Bad # {} PROVE FALSE
    OBVIOUS
  <2>1. PICK m \in Bad : \A y \in Bad : m <= y
    <3>1. Bad \subseteq Nat
      BY <1>1
    <3> HIDE DEF Bad
    <3> QED BY <3>1, LeastNat
  <2>2. m # 0
    BY <2>1, <1>11, <1>3
  <2>3. m \in 1..N /\ m - 1 \in 0..N /\ m - 1 \notin Bad
    BY <2>1, <2>2, <1>1
  <2> QED BY <2>1, <2>3, <1>2, <1>11
<1>13. \A n \in 1..N : h[n] = CheckNext(p, out, old, h[n - 1], n + 1)
  <2>1. \A n \in 1..N : n - 1 \in 0..N
    BY <1>1
  <2> QED BY <2>1, <1>2, <1>11, <1>12
<1> QED BY <1>11, <1>12, <1>13 DEF h, a, T, N

\* The other programs of the channel have the pids of the first k entries.
Updated(t, p, out, k, u) ==
  \A q \in Programs : \A j \in 1..Len(Ins(q)) :
    /\ \A m \in 2..k : OfOther(t, p, q, j) /\ Ins(p)[m] = Ins(q)[j] => u[q].out[j] = out[m]
    /\ (\A m \in 2..k : ~(OfOther(t, p, q, j) /\ Ins(p)[m] = Ins(q)[j])) =>
         u[q].out[j] = t[q].out[j]

\* Entries have the same output pid if and only if they have the same input pid.
Alike(p, out) == \A j, k \in 1..Len(Ins(p)) : Ins(p)[j] = Ins(p)[k] <=> out[j] = out[k]

\* A check that succeeds against the pids that were offered finds all pids good.
LEMMA CheckFine ==
  ASSUME LegalStreams, NEW t, TableOK(t), Distinct(t), Agrees(t), NEW p \in Programs,
         NEW out \in [1..Len(Ins(p)) -> OutPids], Alike(p, out),
         NEW old \in Outs(p), \A j \in 1..Len(Ins(p)) : Good(t, p, old[j])
  PROVE  \A n \in 0..(Len(Ins(p)) - 1) : CheckUpTo(t, p, out, old)[n].ok =>
           /\ Tracks(t, p, out, n + 1, CheckUpTo(t, p, out, old)[n].io)
           /\ Updated(t, p, out, n + 1, CheckUpTo(t, p, out, old)[n].t)
           /\ \A j \in 1..(n + 1) : Good(t, p, out[j])
<1> DEFINE N == Len(Ins(p)) - 1
           f == CheckUpTo(t, p, out, old)
           Fine(n) == /\ Tracks(t, p, out, n + 1, f[n].io)
                      /\ Updated(t, p, out, n + 1, f[n].t)
                      /\ \A j \in 1..(n + 1) : Good(t, p, out[j])
           Bad == {n \in 0..N : f[n].ok /\ ~Fine(n)}
<1>1. N \in Nat /\ N >= 1 /\ Len(Ins(p)) = N + 1 /\ 1 \in 1..Len(Ins(p))
  BY ProgramFacts
<1>2. /\ f[0] = [ok |-> UsableOrKept(p, out, old, build_io_table(t), 1),
                 io |-> io_table_set_pmt_pid(build_io_table(t), p[1], Ins(p)[1], out[1]),
                 t |-> t]
      /\ \A n \in 0..N : f[n] \in Checked(t, p)
      /\ \A n \in 1..N : f[n] = CheckNext(p, out, old, f[n - 1], n + 1)
  BY CheckSteps
<1> HIDE DEF f
<1> SUFFICES ASSUME Bad # {} PROVE FALSE
  BY DEF f
<1>3. PICK n \in Bad : \A y \in Bad : n <= y
  <2>1. Bad \subseteq Nat
    BY <1>1
  <2> HIDE DEF Bad
  <2> QED BY <2>1, LeastNat
<1>4. n \in 0..N /\ f[n].ok /\ ~Fine(n)
  BY <1>3
<1>5. ASSUME NEW k \in 1..Len(Ins(p)), NEW io, UsableOrKept(p, out, old, io, k),
             is_out_pid_usable(io, p[1], Ins(p)[k], out[k]) => Good(t, p, out[k])
      PROVE  Good(t, p, out[k])
  <2>1. CASE Changed(old, out, k)
    BY <1>5, <2>1 DEF UsableOrKept
  <2>2. CASE ~Changed(old, out, k)
    <3>1. k \in DOMAIN old
      BY DEF Outs
    <3>2. out[k] = old[k]
      BY <2>2, <3>1 DEF Changed
    <3> QED BY <3>2
  <2> QED BY <2>1, <2>2
<1>6. CASE n = 0
  <2>1. out[1] \in Nat
    BY <1>1, PidFacts
  <2>2. Tracks(t, p, out, 1, f[0].io)
    <3>1. f[0].io = io_table_set_pmt_pid(build_io_table(t), p[1], Ins(p)[1], out[1])
      BY <1>2
    <3> QED BY <3>1, <2>1, TracksPmt
  <2>3. Updated(t, p, out, 1, f[0].t)
    <3>1. f[0].t = t /\ 2..1 = {}
      BY <1>2
    <3> QED BY <3>1 DEF Updated
  <2>4. Good(t, p, out[1])
    <3>1. is_out_pid_usable(build_io_table(t), p[1], Ins(p)[1], out[1]) => Good(t, p, out[1])
      BY StartKeeps
    <3>2. UsableOrKept(p, out, old, build_io_table(t), 1)
      BY <1>2, <1>4, <1>6
    <3> QED BY <3>1, <3>2, <1>1, <1>5
  <2> QED BY <1>4, <1>6, <2>2, <2>3, <2>4
<1>7. CASE n # 0
  <2>1. /\ n \in 1..N /\ n - 1 \in 0..N /\ n - 1 \notin Bad /\ n + 1 \in 2..Len(Ins(p))
        /\ (n + 1) - 1 = n /\ (n - 1) + 1 = n /\ n + 1 \in 1..Len(Ins(p))
    BY <1>1, <1>3, <1>4, <1>7
  <2> DEFINE acc == f[n - 1]
             k == n + 1
  <2>2. f[n] = CheckNext(p, out, old, acc, k) /\ acc \in Checked(t, p)
    BY <1>2, <2>1
  <2>3. acc.ok /\ UsableOrKept(p, out, old, acc.io, k)
    <3>1. acc.ok
      BY <2>2, <1>4 DEF CheckNext, Checked
    <3>2. CASE ~UsableOrKept(p, out, old, acc.io, k)
      <4>1. f[n] = [acc EXCEPT !.ok = FALSE]
        BY <3>1, <3>2, <2>2 DEF CheckNext
      <4> QED BY <4>1, <2>2, <1>4 DEF Checked
    <3> QED BY <3>1, <3>2
  <2>4. f[n] = [ok |-> TRUE,
                io |-> io_table_set_pid(acc.io, p[1], Ins(p)[k], out[k]),
                t |-> update_channel_other_program_out_pid(acc.t, p, Ins(p)[k], out[k])]
    BY <2>2, <2>3 DEF CheckNext
  <2>5. /\ Tracks(t, p, out, k - 1, acc.io)
        /\ Updated(t, p, out, k - 1, acc.t)
        /\ \A j \in 1..(k - 1) : Good(t, p, out[j])
    BY <2>1, <2>3
  <2> HIDE DEF acc
  <2>6. \A j \in 2..(k - 1) : j \in 1..(k - 1)
    OBVIOUS
  <2>7. \A j \in 2..(k - 1) : Ins(p)[j] = Ins(p)[k] => out[j] = out[k]
    <3>1. \A j \in 2..(k - 1) : j \in 1..Len(Ins(p))
      BY <2>1, <1>1
    <3> QED BY <3>1, <2>1 DEF Alike
  <2>8. out[k] \in OutPids /\ out[k] \in Nat
    BY <2>1, PidFacts
  <2>9. Good(t, p, out[k])
    <3>1. is_out_pid_usable(acc.io, p[1], Ins(p)[k], out[k]) => Good(t, p, out[k])
      BY <2>1, <2>5, <2>6, UsableGood
    <3> QED BY <3>1, <2>1, <2>3, <1>5
  <2>10. Tracks(t, p, out, k, f[n].io)
    <3>1. f[n].io = io_table_set_pid(acc.io, p[1], Ins(p)[k], out[k])
      BY <2>4
    <3> QED BY <3>1, <2>1, <2>5, <2>7, <2>8, TracksNext
  <2>11. Updated(t, p, out, k, f[n].t)
    <3>1. \A q \in Programs : \A j \in 1..Len(Ins(q)) :
            f[n].t[q].out[j] = IF OfOther(t, p, q, j) /\ Ins(q)[j] = Ins(p)[k] THEN out[k]
                               ELSE acc.t[q].out[j]
      BY <2>2, <2>4, <2>8, UpdateOther DEF Checked
    <3> SUFFICES ASSUME NEW q \in Programs, NEW j \in 1..Len(Ins(q))
                 PROVE  /\ \A m \in 2..k : OfOther(t, p, q, j) /\ Ins(p)[m] = Ins(q)[j] =>
                             f[n].t[q].out[j] = out[m]
                        /\ (\A m \in 2..k : ~(OfOther(t, p, q, j) /\ Ins(p)[m] = Ins(q)[j])) =>
                             f[n].t[q].out[j] = t[q].out[j]
      BY DEF Updated
    <3>2. /\ \A m \in 2..(k - 1) : OfOther(t, p, q, j) /\ Ins(p)[m] = Ins(q)[j] =>
               acc.t[q].out[j] = out[m]
          /\ (\A m \in 2..(k - 1) : ~(OfOther(t, p, q, j) /\ Ins(p)[m] = Ins(q)[j])) =>
               acc.t[q].out[j] = t[q].out[j]
      BY <2>5 DEF Updated
    <3>3. /\ k \in 2..k /\ (\A m \in 2..k : m = k \/ m \in 2..(k - 1))
          /\ \A m \in 2..(k - 1) : m \in 2..k
      BY <2>1
    <3>4. CASE OfOther(t, p, q, j) /\ Ins(q)[j] = Ins(p)[k]
      BY <3>1, <3>3, <3>4, <2>7, ZenonT(60)
    <3>5. CASE ~(OfOther(t, p, q, j) /\ Ins(q)[j] = Ins(p)[k])
      <4>1. f[n].t[q].out[j] = acc.t[q].out[j]
        BY <3>1, <3>5
      <4> QED BY <4>1, <3>2, <3>3, <3>5
    <3> QED BY <3>4, <3>5
  <2>12. \A j \in 1..(n + 1) : Good(t, p, out[j])
    <3>1. \A j \in 1..(n + 1) : j = k \/ j \in 1..(k - 1)
      BY <2>1
    <3> QED BY <3>1, <2>5, <2>9
  <2> QED BY <2>10, <2>11, <2>12, <1>4
<1> QED BY <1>6, <1>7

\* Selecting a program whose pids are good keeps streams apart.
LEMMA SelectKeeps ==
  ASSUME LegalStreams, NEW t, TableOK(t), Distinct(t), Agrees(t), NEW p \in Programs, ~t[p].sel,
         NEW out \in [1..Len(Ins(p)) -> OutPids], out[1] \in Pids, Alike(p, out),
         \A j \in 1..Len(Ins(p)) : Good(t, p, out[j]),
         NEW u \in Like(t, p), Updated(t, p, out, Len(Ins(p)), u),
         NEW v, v = [u EXCEPT ![p] = [sel |-> TRUE, out |-> out]]
  PROVE  TableOK(v) /\ Distinct(v) /\ Agrees(v)
<1> DEFINE L == Len(Ins(p))
<1>1. L \in Nat /\ L >= 2
  BY ProgramFacts
<1>2. /\ v \in [Programs -> Row] /\ Len(v[p].out) = L /\ v[p].sel /\ v[p].out = out
      /\ \A q \in Programs \ {p} : v[q] = u[q]
  <2>1. out \in [1..L -> Nat]
    BY PidFacts
  <2>2. out \in Seq(Nat) /\ Len(out) = L
    BY <2>1, <1>1
  <2>3. u \in [Programs -> Row] /\ [sel |-> TRUE, out |-> out] \in Row
    BY <2>2 DEF Like, Row
  <2> QED BY <2>2, <2>3
<1>3. TableOK(v)
  <2>1. Chosen(p, out)
    BY DEF Chosen
  <2> QED BY <1>2, <2>1 DEF TableOK, Like
<1>4. ASSUME NEW e \in Used(v)
      PROVE  /\ e \in Entries /\ e[1] \in Programs
             /\ e[2] \in 1..Len(Ins(e[1])) /\ e = <<e[1], e[2]>>
             /\ e[1] = p => Out(v, e) = out[e[2]] /\ e[2] \in 1..L /\ InPid(e) = Ins(p)[e[2]]
             /\ e[1] # p => e \in Used(t)
             /\ e[1] # p /\ Shares(p, e) =>
                  \A m \in 2..L : Ins(p)[m] = InPid(e) => Out(v, e) = out[m]
             /\ e[1] # p /\ ~Shares(p, e) => Out(v, e) = Out(t, e)
  <2> DEFINE q == e[1]
             j == e[2]
  <2>1. /\ e \in Entries /\ q \in Programs /\ j \in 1..Len(Ins(q)) /\ e = <<q, j>>
        /\ InPid(e) = Ins(q)[j] /\ v[q].sel
    BY EntryFacts DEF Used
  <2>2. CASE q = p
    BY <2>1, <2>2, <1>2 DEF Out
  <2>3. CASE q # p
    <3>1. v[q] = u[q] /\ t[q].sel /\ e \in Used(t)
      BY <2>1, <2>3, <1>2 DEF Like, Used
    <3>2. /\ \A m \in 2..L : OfOther(t, p, q, j) /\ Ins(p)[m] = Ins(q)[j] => u[q].out[j] = out[m]
          /\ (\A m \in 2..L : ~(OfOther(t, p, q, j) /\ Ins(p)[m] = Ins(q)[j])) =>
               u[q].out[j] = t[q].out[j]
      BY <2>1 DEF Updated
    <3>3. OfOther(t, p, q, j) <=> q[1] = p[1] /\ j > 1
      BY <3>1, <2>3 DEF OfOther
    <3>4. Shares(p, e) <=> q[1] = p[1] /\ j > 1 /\ \E m \in 2..L : Ins(p)[m] = Ins(q)[j]
      BY <2>1 DEF Shares
    <3>5. Out(v, e) = u[q].out[j] /\ Out(t, e) = t[q].out[j]
      BY <3>1 DEF Out
    <3> HIDE DEF q, j, L
    <3>6. Shares(p, e) => \A m \in 2..L : Ins(p)[m] = InPid(e) => Out(v, e) = out[m]
      BY <2>1, <3>2, <3>3, <3>4, <3>5
    <3>7. ~Shares(p, e) => Out(v, e) = Out(t, e)
      BY <3>2, <3>3, <3>4, <3>5
    <3> QED BY <2>1, <2>3, <3>1, <3>6, <3>7 DEF q, j, L
  <2> QED BY <2>2, <2>3
\* An entry of p, or of a stream of p, has the pid of an entry of p with its input pid.
<1>5. ASSUME NEW e \in Used(v), e[1] = p \/ Shares(p, e)
      PROVE  \E m \in 1..L : /\ Out(v, e) = out[m] /\ InPid(e) = Ins(p)[m] /\ e[1][1] = p[1]
                             /\ e[2] > 1 <=> m > 1
  <2>1. CASE e[1] = p
    BY <2>1, <1>4
  <2>2. CASE e[1] # p
    <3>1. PICK m \in 2..L : Ins(p)[m] = InPid(e)
      BY <1>5, <2>2 DEF Shares
    <3>2. Shares(p, e)
      BY <1>5, <2>2
    <3>3. e[1][1] = p[1] /\ e[2] > 1 /\ m \in 1..L /\ m > 1
      BY <3>1, <3>2, <1>1 DEF Shares
    <3>4. Out(v, e) = out[m]
      BY <1>4, <2>2, <3>1, <3>2
    <3> QED BY <3>1, <3>3, <3>4
  <2> QED BY <2>1, <2>2
<1>6. ASSUME NEW e \in Used(v), NEW f \in Used(v), e[1] = p \/ Shares(p, e),
             ~(f[1] = p \/ Shares(p, f))
      PROVE  Out(v, e) # Out(v, f)
  <2>1. PICK m \in 1..L : Out(v, e) = out[m]
    BY <1>5, <1>6
  <2>2. f \in Used(t) /\ Out(v, f) = Out(t, f) /\ ~Shares(p, f)
    BY <1>4, <1>6
  <2>3. Good(t, p, out[m])
    OBVIOUS
  <2> QED BY <2>1, <2>2, <2>3 DEF Good
<1>7. ASSUME NEW e \in Used(v), NEW f \in Used(v), e # f, Out(v, e) = Out(v, f)
      PROVE  SameInput(e, f) /\ e[2] > 1 /\ f[2] > 1
  <2>1. CASE (e[1] = p \/ Shares(p, e)) /\ (f[1] = p \/ Shares(p, f))
    <3>1. PICK m \in 1..L : /\ Out(v, e) = out[m] /\ InPid(e) = Ins(p)[m] /\ e[1][1] = p[1]
                            /\ e[2] > 1 <=> m > 1
      BY <1>5, <2>1
    <3>2. PICK n \in 1..L : /\ Out(v, f) = out[n] /\ InPid(f) = Ins(p)[n] /\ f[1][1] = p[1]
                            /\ f[2] > 1 <=> n > 1
      BY <1>5, <2>1
    <3>3. Ins(p)[m] = Ins(p)[n]
      BY <3>1, <3>2, <1>7, ZenonT(60) DEF Alike
    <3>4. SameInput(e, f) /\ SameInput(f, e)
      BY <3>1, <3>2, <3>3 DEF SameInput
    <3>5. e[2] = 1 <=> f[2] = 1
      BY <3>4, <1>4, PmtApart
    <3>6. e[2] # 1
      <4> SUFFICES ASSUME e[2] = 1, f[2] = 1 PROVE FALSE
        BY <3>5
      <4>1. e[1] = p /\ f[1] = p
        BY <2>1 DEF Shares
      <4> QED BY <4>1, <1>4, <1>7
    <3>7. \A x \in Used(v) : x[2] # 1 => x[2] > 1
      <4> SUFFICES ASSUME NEW x \in Used(v), x[2] # 1 PROVE x[2] > 1
        OBVIOUS
      <4>1. x[1] \in Programs /\ x[2] \in 1..Len(Ins(x[1]))
        BY <1>4
      <4>2. Len(Ins(x[1])) \in Nat
        BY <4>1, ProgramFacts
      <4> QED BY <4>1, <4>2
    <3> QED BY <3>4, <3>5, <3>6, <3>7
  <2>2. CASE ~(e[1] = p \/ Shares(p, e)) /\ ~(f[1] = p \/ Shares(p, f))
    <3>1. e \in Used(t) /\ f \in Used(t) /\ Out(t, e) = Out(t, f)
      BY <2>2, <1>4, <1>7
    <3> QED BY <3>1, <1>7 DEF Distinct
  <2>3. CASE (e[1] = p \/ Shares(p, e)) /\ ~(f[1] = p \/ Shares(p, f))
    BY <2>3, <1>6, <1>7
  <2>4. CASE ~(e[1] = p \/ Shares(p, e)) /\ (f[1] = p \/ Shares(p, f))
    BY <2>4, <1>6, <1>7
  <2> QED BY <2>1, <2>2, <2>3, <2>4
<1>8. ASSUME NEW e \in Used(v), NEW f \in Used(v), SameInput(e, f), e[2] > 1, f[2] > 1
      PROVE  Out(v, e) = Out(v, f)
  <2>1. CASE (e[1] = p \/ Shares(p, e)) /\ (f[1] = p \/ Shares(p, f))
    <3>1. PICK m \in 1..L : Out(v, e) = out[m] /\ InPid(e) = Ins(p)[m]
      BY <1>5, <2>1
    <3>2. PICK n \in 1..L : Out(v, f) = out[n] /\ InPid(f) = Ins(p)[n]
      BY <1>5, <2>1
    <3> QED BY <3>1, <3>2, <1>8 DEF Alike, SameInput
  <2>2. CASE ~(e[1] = p \/ Shares(p, e)) /\ ~(f[1] = p \/ Shares(p, f))
    <3>1. e \in Used(t) /\ f \in Used(t) /\ Out(v, e) = Out(t, e) /\ Out(v, f) = Out(t, f)
      BY <2>2, <1>4
    <3> QED BY <3>1, <1>8 DEF Agrees
  <2>3. ASSUME NEW x \in Used(v), NEW y \in Used(v), SameInput(x, y), x[2] > 1, y[2] > 1,
               x[1] = p \/ Shares(p, x)
        PROVE  y[1] = p \/ Shares(p, y)
    <3>1. PICK m \in 1..L : InPid(x) = Ins(p)[m] /\ x[1][1] = p[1] /\ (x[2] > 1 <=> m > 1)
      BY <1>5, <2>3
    <3>2. m \in 2..L /\ Ins(p)[m] = InPid(y) /\ y[1][1] = p[1]
      BY <3>1, <2>3, <1>1 DEF SameInput
    <3> QED BY <3>2, <2>3 DEF Shares
  <2>4. SameInput(f, e)
    BY <1>8 DEF SameInput
  <2> QED BY <2>1, <2>2, <2>3, <2>4, <1>8
<1> QED BY <1>3, <1>7, <1>8, ZenonT(60) DEF Distinct, Agrees

-----------------------------------------------------------------------------
(* The commands *)

Without(t, p) == [t EXCEPT ![p].sel = FALSE]

\* Deselecting a program leaves the entries of the others.
LEMMA DeselectKeeps ==
  ASSUME LegalStreams, NEW t, TableOK(t), NEW p \in Programs,
         NEW u, u = Without(t, p)
  PROVE  /\ TableOK(u) /\ ~u[p].sel
         /\ \A q \in Programs : u[q].out = t[q].out /\ (q # p => u[q].sel = t[q].sel)
         /\ Used(u) = {e \in Used(t) : e[1] # p}
         /\ \A e : e \in Used(u) => Out(u, e) = Out(t, e)
         /\ Distinct(t) => Distinct(u)
         /\ Agrees(t) => Agrees(u)
<1>1. t \in [Programs -> Row]
  BY DEF TableOK
<1>2. /\ u \in [Programs -> Row] /\ u[p].sel = FALSE /\ u[p].out = t[p].out
      /\ \A q \in Programs \ {p} : u[q] = t[q]
  BY <1>1 DEF Row, Without
<1>3. \A q \in Programs : u[q].out = t[q].out /\ (q # p => u[q].sel = t[q].sel)
  BY <1>2
<1>4. TableOK(u)
  BY <1>2, <1>3 DEF TableOK
<1>5. Used(u) = {e \in Used(t) : e[1] # p}
  BY <1>2, <1>3, EntryFacts DEF Used
<1>6. \A e : e \in Used(u) => Out(u, e) = Out(t, e)
  BY <1>3, EntryFacts DEF Used, Out
<1>7. Distinct(t) => Distinct(u)
  BY <1>5, <1>6 DEF Distinct
<1>8. Agrees(t) => Agrees(u)
  BY <1>5, <1>6 DEF Agrees
<1> QED BY <1>2, <1>3, <1>4, <1>5, <1>6, <1>7, <1>8

\* The pids a read of a program answers are good when it is set aside.
LEMMA ShownGood ==
  ASSUME LegalStreams, NEW t, TableOK(t), Distinct(t), Agrees(t), NEW p \in Programs,
         NEW u, u = Without(t, p)
  PROVE  /\ prepare_program_output_pid(t, p) \in Outs(p)
         /\ \A j \in 1..Len(Ins(p)) : Good(u, p, prepare_program_output_pid(t, p)[j])
<1> DEFINE shown == prepare_program_output_pid(t, p)
<1>1. t \in [Programs -> Row] /\ t[p] \in Row /\ Len(t[p].out) = Len(Ins(p))
  BY DEF TableOK
<1>2. CASE ~t[p].sel
  <2>1. u = t
    <3>1. t[p] = [t[p] EXCEPT !.sel = FALSE]
      BY <1>1, <1>2 DEF Row
    <3> QED BY <1>1, <3>1 DEF Without
  <2> QED BY <1>2, <2>1, OfferGood
<1>3. CASE t[p].sel
  <2>1. shown = t[p].out
    BY <1>3 DEF prepare_program_output_pid
  <2>2. t[p].out \in Seq(Nat)
    BY <1>1 DEF Row
  <2>3. shown \in Outs(p)
    BY <1>1, <2>1, <2>2 DEF Outs
  <2>4. ASSUME NEW j \in 1..Len(Ins(p)) PROVE Good(u, p, shown[j])
    <3> SUFFICES ASSUME NEW f \in Used(u), ~Shares(p, f), Out(u, f) = shown[j] PROVE FALSE
      BY DEF Good
    <3>1. f \in Used(t) /\ f[1] # p /\ Out(t, f) = shown[j]
      <4>1. Used(u) = {e \in Used(t) : e[1] # p} /\ Out(u, f) = Out(t, f)
        BY DeselectKeeps
      <4> QED BY <4>1
    <3> DEFINE e == <<p, j>>
    <3>2. e \in Entries /\ InPid(e) = Ins(p)[j]
      BY EntryFacts
    <3>3. e \in Used(t) /\ Out(t, e) = shown[j] /\ e # f
      BY <3>1, <3>2, <1>3, <2>1 DEF Used, Out
    <3>4. SameInput(e, f) /\ j > 1 /\ f[2] > 1
      BY <3>1, <3>3 DEF Distinct
    <3>5. Len(Ins(p)) \in Nat
      BY ProgramFacts
    <3>6. j \in 2..Len(Ins(p)) /\ Ins(p)[j] = InPid(f) /\ f[1][1] = p[1]
      BY <3>2, <3>4, <3>5 DEF SameInput
    <3> QED BY <3>4, <3>6 DEF Shares
  <2> QED BY <2>3, <2>4
<1> QED BY <1>2, <1>3

LEMMA ValidPids ==
  ASSUME NEW p \in Programs, NEW out \in Outs(p), valid_program_pids(p, out)
  PROVE  out \in [1..Len(Ins(p)) -> OutPids] /\ out[1] \in Pids /\ Alike(p, out)
<1>1. DOMAIN out = 1..Len(Ins(p))
  BY DEF Outs
<1>2. out[1] \in Pids /\ \A k \in 1..Len(Ins(p)) : out[k] \in OutPids
  BY <1>1 DEF valid_program_pids, prog_pid_val_isvalid
<1>3. Alike(p, out)
  BY <1>1 DEF valid_program_pids, Alike
<1> QED BY <1>1, <1>2, <1>3 DEF Outs

Fits(t, p, out) ==
  /\ Cardinality(Selected(Without(t, p))) + 1 <= ProgramMax
  /\ valid_program_pids(p, out)
  /\ channel_mapped_pid_count(Without(t, p), p[1]) + program_mapped_pid_count(p) <= ChanPids

\* The check of a write of p, and what a write leaves that is refused or accepted.
CheckOf(t, p, out, old) == CheckUpTo(Without(t, p), p, out, old)[Len(Ins(p)) - 1]
Refused(t, p, u) == [u EXCEPT ![p].sel = t[p].sel]
Accepted(p, out, u) == [u EXCEPT ![p] = [sel |-> TRUE, out |-> out]]

LEMMA WriteIs ==
  ASSUME LegalStreams, NEW t, TableOK(t), Distinct(t), Agrees(t), NEW p \in Programs,
         NEW out \in Outs(p), NEW old,
         NEW res, res = check_and_select_program(t, p, out, old),
         NEW checked, checked = CheckOf(t, p, out, old)
  PROVE  \/ res.t = t
         \/ ~res.ok /\ checked.t \in Like(Without(t, p), p) /\ res.t = Refused(t, p, checked.t)
         \/ /\ res.ok /\ Fits(t, p, out)
            /\ out \in [1..Len(Ins(p)) -> OutPids] /\ out[1] \in Pids /\ Alike(p, out)
            /\ checked.ok /\ checked.t \in Like(Without(t, p), p)
            /\ res.t = Accepted(p, out, checked.t)
<1>1. res = IF t[p] = [sel |-> TRUE, out |-> out] THEN [ok |-> TRUE, t |-> t]
            ELSE IF ~Fits(t, p, out) THEN [ok |-> FALSE, t |-> t]
            ELSE IF ~checked.ok THEN [ok |-> FALSE, t |-> Refused(t, p, checked.t)]
            ELSE [ok |-> TRUE, t |-> Accepted(p, out, checked.t)]
  BY DEF check_and_select_program, check_user_output_pid, Fits, Without, CheckOf, Refused, Accepted
<1>2. CASE t[p] = [sel |-> TRUE, out |-> out] \/ ~Fits(t, p, out)
  BY <1>1, <1>2
<1>3. CASE ~(t[p] = [sel |-> TRUE, out |-> out]) /\ Fits(t, p, out)
  <2>1. out \in [1..Len(Ins(p)) -> OutPids] /\ out[1] \in Pids /\ Alike(p, out)
    BY <1>3, ValidPids DEF Fits
  <2>2. checked.t \in Like(Without(t, p), p)
    <3>1. TableOK(Without(t, p)) /\ Distinct(Without(t, p)) /\ Agrees(Without(t, p))
      BY DeselectKeeps
    <3>2. Len(Ins(p)) - 1 \in 0..(Len(Ins(p)) - 1)
      BY ProgramFacts
    <3>3. checked \in Checked(Without(t, p), p)
      BY <2>1, <3>1, <3>2, CheckSteps DEF CheckOf
    <3> QED BY <3>3 DEF Checked
  <2> QED BY <1>1, <1>3, <2>1, <2>2
<1> QED BY <1>2, <1>3

\* A write leaves a table, and one with good pids when it is accepted against the
\* pids that a read of the program answers.
LEMMA WriteKeeps ==
  ASSUME LegalStreams, NEW t, TableOK(t), Distinct(t), Agrees(t), NEW p \in Programs,
         NEW out \in Outs(p), NEW old,
         NEW res, res = check_and_select_program(t, p, out, old)
  PROVE  /\ TableOK(res.t)
         /\ res.ok /\ old = prepare_program_output_pid(t, p) => Distinct(res.t) /\ Agrees(res.t)
<1> DEFINE L == Len(Ins(p))
           rest == Without(t, p)
           checked == CheckOf(t, p, out, old)
           u == checked.t
<1>1. /\ TableOK(rest) /\ Distinct(rest) /\ Agrees(rest) /\ ~rest[p].sel
      /\ rest[p].out = t[p].out /\ t \in [Programs -> Row]
  BY DeselectKeeps DEF TableOK
<1> HIDE DEF rest, checked
<1>2. CASE res.t = t
  BY <1>2
<1>3. CASE ~res.ok /\ u \in Like(rest, p) /\ res.t = Refused(t, p, u)
  <2>1. u \in [Programs -> Row] /\ TableOK(u) /\ u[p] = rest[p]
    BY <1>3 DEF Like
  <2>2. res.t = [u EXCEPT ![p].sel = t[p].sel]
    BY <1>3 DEF Refused
  <2> HIDE DEF u
  <2>3. /\ res.t \in [Programs -> Row] /\ res.t[p].sel = t[p].sel /\ res.t[p].out = t[p].out
        /\ \A q \in Programs : q # p => res.t[q] = u[q]
    <3> DEFINE r == [u[p] EXCEPT !.sel = t[p].sel]
    <3>1. r \in Row /\ r.sel = t[p].sel /\ r.out = t[p].out
      <4>1. u[p] \in Row /\ t[p].sel \in BOOLEAN /\ u[p].out = t[p].out
        BY <2>1, <1>1 DEF Row
      <4> QED BY <4>1 DEF Row
    <3>2. res.t = [u EXCEPT ![p] = r]
      BY <2>2
    <3> HIDE DEF r
    <3> QED BY <2>1, <3>1, <3>2
  <2> QED BY <1>3, <2>1, <2>3 DEF TableOK
<1>4. CASE /\ res.ok /\ out \in [1..L -> OutPids] /\ out[1] \in Pids /\ Alike(p, out)
           /\ checked.ok /\ u \in Like(rest, p) /\ res.t = Accepted(p, out, u)
  <2>1. u \in [Programs -> Row] /\ TableOK(u)
    BY <1>4 DEF Like
  <2>2. res.t = [u EXCEPT ![p] = [sel |-> TRUE, out |-> out]]
    BY <1>4 DEF Accepted
  <2>3. L \in Nat /\ L >= 2 /\ L - 1 \in 0..(L - 1) /\ (L - 1) + 1 = L
    BY ProgramFacts
  <2>4. TableOK(res.t)
    <3>1. out \in Seq(Nat) /\ Len(out) = L
      <4>1. out \in [1..L -> Nat]
        BY <1>4, PidFacts
      <4> QED BY <4>1, <2>3
    <3>2. [sel |-> TRUE, out |-> out] \in Row
      BY <3>1 DEF Row
    <3> HIDE DEF u
    <3>3. /\ res.t \in [Programs -> Row] /\ res.t[p].out = out
          /\ \A q \in Programs : q # p => res.t[q] = u[q]
      BY <2>1, <2>2, <3>2
    <3>4. Chosen(p, out)
      BY <1>4 DEF Chosen
    <3> QED BY <2>1, <3>1, <3>3, <3>4, ZenonT(60) DEF TableOK
  <2>5. ASSUME old = prepare_program_output_pid(t, p)
        PROVE  Distinct(res.t) /\ Agrees(res.t)
    <3>1. old \in Outs(p) /\ \A j \in 1..L : Good(rest, p, old[j])
      BY <2>5, ShownGood DEF rest
    <3>2. checked = CheckUpTo(rest, p, out, old)[L - 1]
      BY DEF checked, rest, CheckOf
    <3>3. Updated(rest, p, out, L, u) /\ \A j \in 1..L : Good(rest, p, out[j])
      BY <1>1, <1>4, <2>3, <3>1, <3>2, CheckFine
    <3> QED BY <1>1, <1>4, <2>2, <3>3, SelectKeeps
  <2> QED BY <2>4, <2>5
<1> QED BY <1>2, <1>3, <1>4, WriteIs DEF rest, checked

-----------------------------------------------------------------------------
(* Finite sets *)

\* A set whose elements are told apart by marks in a finite set is finite.
LEMMA Marked ==
  ASSUME NEW S, NEW T, IsFiniteSet(T), NEW f \in [S -> T],
         \A x, y \in S : f[x] = f[y] => x = y
  PROVE  IsFiniteSet(S) /\ Cardinality(S) <= Cardinality(T)
<1>1. f \in Injection(S, T)
  BY DEF Injection, IsInjective
<1> QED BY <1>1, FS_Injection

\* The images of a finite set are no more than its elements.
LEMMA Images ==
  ASSUME NEW S, IsFiniteSet(S), NEW T, NEW f \in [S -> T], \A y \in T : \E x \in S : f[x] = y
  PROVE  IsFiniteSet(T) /\ Cardinality(T) <= Cardinality(S)
<1>1. f \in Surjection(S, T)
  BY DEF Surjection
<1> QED BY <1>1, FS_Surjection

\* The union of finitely many finite sets.
LEMMA FiniteUnion ==
  ASSUME NEW S, IsFiniteSet(S), NEW F, \A x \in S : IsFiniteSet(F[x])
  PROVE  IsFiniteSet(UNION {F[x] : x \in S})
<1> DEFINE T == {F[x] : x \in S}
           f == [x \in S |-> F[x]]
<1>1. f \in [S -> T] /\ \A y \in T : \E x \in S : f[x] = y
  OBVIOUS
<1>2. IsFiniteSet(T)
  <2> HIDE DEF T, f
  <2> QED BY <1>1, Images
<1> QED BY <1>2, FS_UNION

LEMMA FinitePrograms ==
  /\ IsFiniteSet(Programs)
  /\ LegalStreams => IsFiniteSet(Entries)
<1>1. /\ IsFiniteSet(Channels)
      /\ \A c \in Channels : Len(Stream[c]) \in Nat /\ DOMAIN Stream[c] = 1..Len(Stream[c])
  <2>1. Stream \in Seq(Seq(Seq(Nat)))
    BY StreamAssumption
  <2>2. Channels = 1..Len(Stream) /\ Len(Stream) \in Nat
    BY <2>1 DEF Channels
  <2>3. \A c \in Channels : Stream[c] \in Seq(Seq(Nat))
    BY <2>1, <2>2
  <2>4. IsFiniteSet(1..Len(Stream))
    BY <2>2, FS_Interval
  <2> QED BY <2>2, <2>3, <2>4
<1>2. IsFiniteSet(Programs)
  <2> DEFINE F == [c \in Channels |-> {c} \X DOMAIN Stream[c]]
  <2>1. ASSUME NEW c \in Channels PROVE IsFiniteSet(F[c])
    <3>1. IsFiniteSet(1..Len(Stream[c])) /\ IsFiniteSet({c})
      <4>1. Len(Stream[c]) \in Int /\ 1 \in Int
        BY <1>1
      <4> QED BY <4>1, FS_Interval, FS_Singleton
    <3>2. IsFiniteSet({c} \X (1..Len(Stream[c])))
      BY <3>1, FS_Product
    <3> QED BY <3>2, <1>1
  <2>2. Programs = UNION {F[c] : c \in Channels}
    BY DEF Programs
  <2> HIDE DEF F
  <2> QED BY <1>1, <2>1, <2>2, FiniteUnion
<1>3. ASSUME LegalStreams PROVE IsFiniteSet(Entries)
  <2> DEFINE F == [p \in Programs |-> {p} \X (1..Len(Ins(p)))]
  <2>1. ASSUME NEW p \in Programs PROVE IsFiniteSet(F[p])
    <3>1. Len(Ins(p)) \in Nat
      BY ProgramFacts
    <3>2. IsFiniteSet(1..Len(Ins(p))) /\ IsFiniteSet({p})
      <4>1. Len(Ins(p)) \in Int /\ 1 \in Int
        BY <3>1
      <4> QED BY <4>1, FS_Interval, FS_Singleton
    <3>3. IsFiniteSet({p} \X (1..Len(Ins(p))))
      BY <3>2, FS_Product
    <3> QED BY <3>3
  <2> DEFINE U == UNION {F[p] : p \in Programs}
  <2>2. IsFiniteSet(U)
    <3> HIDE DEF F
    <3> QED BY <1>2, <2>1, FiniteUnion
  <2>3. Entries \subseteq U
    <3> SUFFICES ASSUME NEW e \in Entries PROVE e \in U
      OBVIOUS
    <3>1. e[1] \in Programs /\ e[2] \in 1..Len(Ins(e[1])) /\ e = <<e[1], e[2]>>
      BY <1>3, EntryFacts
    <3>2. e \in F[e[1]]
      BY <3>1
    <3> QED BY <3>1, <3>2
  <2> HIDE DEF U
  <2> QED BY <2>2, <2>3, FS_Subset
<1> QED BY <1>2, <1>3

-----------------------------------------------------------------------------
(* The programs and pids that are selected are counted *)

\* The pids a channel's selected programs count.
Cells(t, c) == UNION {{p} \X Counted(p) : p \in {q \in Selected(t) : q[1] = c}}

LEMMA CellFacts ==
  ASSUME LegalStreams, NEW t, NEW c
  PROVE  /\ channel_mapped_pid_count(t, c) = Cardinality(Cells(t, c))
         /\ \A e : e \in Cells(t, c) <=> /\ e = <<e[1], e[2]>> /\ e[1] \in Programs /\ t[e[1]].sel
                                         /\ e[1][1] = c /\ e[2] \in Counted(e[1])
         /\ Cells(t, c) \subseteq {e \in Used(t) : e[1][1] = c /\ e[2] > 1}
         /\ IsFiniteSet(Cells(t, c)) /\ IsFiniteSet(Selected(t))
<1>1. \A e : e \in Cells(t, c) <=> /\ e = <<e[1], e[2]>> /\ e[1] \in Programs /\ t[e[1]].sel
                                   /\ e[1][1] = c /\ e[2] \in Counted(e[1])
  BY DEF Cells, Selected
<1>2. ASSUME NEW e \in Cells(t, c)
      PROVE  e \in Used(t) /\ e[1][1] = c /\ e[2] > 1
  <2>1. /\ e = <<e[1], e[2]>> /\ e[1] \in Programs /\ t[e[1]].sel
        /\ e[1][1] = c /\ e[2] \in Counted(e[1])
    BY <1>1
  <2>2. Len(Ins(e[1])) \in Nat /\ Len(Ins(e[1])) >= 2
    BY <2>1, ProgramFacts
  <2>3. e[2] \in 1..Len(Ins(e[1])) /\ e[2] > 1
    BY <2>1, <2>2 DEF Counted
  <2>4. e \in Entries
    BY <2>1, <2>3, EntryFacts
  <2> QED BY <2>1, <2>3, <2>4 DEF Used
<1>3. Cells(t, c) \subseteq Entries
  BY <1>2 DEF Used
<1>4. IsFiniteSet(Cells(t, c))
  BY <1>3, FinitePrograms, FS_Subset
<1>5. IsFiniteSet(Selected(t))
  BY FinitePrograms, FS_Subset DEF Selected
<1>6. channel_mapped_pid_count(t, c) = Cardinality(Cells(t, c))
  BY DEF channel_mapped_pid_count, Cells
<1> QED BY <1>1, <1>2, <1>4, <1>5, <1>6

\* The limits that a write checks.
Within(t) ==
  /\ Cardinality(Selected(t)) <= ProgramMax
  /\ \A c \in Channels : channel_mapped_pid_count(t, c) <= ChanPids

\* Programs that are not selected count nothing.
LEMMA FewerWithin ==
  ASSUME LegalStreams, NEW t, Within(t), NEW u, Selected(u) \subseteq Selected(t)
  PROVE  Within(u)
<1>1. Cardinality(Selected(u)) <= ProgramMax
  <2>1. IsFiniteSet(Selected(t))
    BY CellFacts
  <2>2. Cardinality(Selected(u)) <= Cardinality(Selected(t))
    BY <2>1, FS_Subset
  <2>3. Cardinality(Selected(u)) \in Nat /\ Cardinality(Selected(t)) \in Nat
    BY CellFacts, FS_CardinalityType
  <2> QED BY <2>2, <2>3, PidFacts DEF Within
<1>2. ASSUME NEW c \in Channels PROVE channel_mapped_pid_count(u, c) <= ChanPids
  <2>1. Cells(u, c) \subseteq Cells(t, c)
    BY DEF Cells
  <2>2. IsFiniteSet(Cells(t, c)) /\ IsFiniteSet(Cells(u, c))
    BY CellFacts
  <2>3. Cardinality(Cells(u, c)) <= Cardinality(Cells(t, c))
    BY <2>1, <2>2, FS_Subset
  <2>4. Cardinality(Cells(u, c)) \in Nat /\ Cardinality(Cells(t, c)) \in Nat
    BY <2>2, FS_CardinalityType
  <2>5. Cardinality(Cells(t, c)) <= ChanPids
    BY CellFacts DEF Within
  <2> QED BY <2>3, <2>4, <2>5, CellFacts, PidFacts
<1> QED BY <1>1, <1>2 DEF Within

\* A program that fits is one more, with its own pids.
LEMMA OneMoreWithin ==
  ASSUME LegalStreams, NEW t, Within(t), NEW p \in Programs, NEW out, Fits(t, p, out),
         NEW r, r = Without(t, p), Selected(r) = Selected(t) \ {p},
         NEW u, Selected(u) = Selected(t) \cup {p}
  PROVE  Within(u)
<1>1. Selected(u) = Selected(r) \cup {p} /\ p \notin Selected(r)
  OBVIOUS
<1>2. Cardinality(Selected(u)) <= ProgramMax
  <2>1. IsFiniteSet(Selected(r))
    BY CellFacts
  <2>2. Cardinality(Selected(u)) = Cardinality(Selected(r)) + 1
    BY <1>1, <2>1, FS_AddElement
  <2> QED BY <2>2 DEF Fits
<1>3. ASSUME NEW c \in Channels PROVE channel_mapped_pid_count(u, c) <= ChanPids
  <2>1. CASE c # p[1]
    <3>1. Cells(u, c) \subseteq Cells(t, c)
      BY <2>1 DEF Cells
    <3>2. IsFiniteSet(Cells(t, c)) /\ IsFiniteSet(Cells(u, c))
      BY CellFacts
    <3>3. Cardinality(Cells(u, c)) <= Cardinality(Cells(t, c))
      BY <3>1, <3>2, FS_Subset
    <3>4. Cardinality(Cells(u, c)) \in Nat /\ Cardinality(Cells(t, c)) \in Nat
      BY <3>2, FS_CardinalityType
    <3>5. Cardinality(Cells(t, c)) <= ChanPids
      BY CellFacts DEF Within
    <3> QED BY <3>3, <3>4, <3>5, CellFacts, PidFacts
  <2>2. CASE c = p[1]
    <3> DEFINE own == {p} \X Counted(p)
    <3>1. Cells(u, c) = Cells(r, c) \cup own
      BY <1>1, <2>2 DEF Cells
    <3>2. IsFiniteSet(Cells(r, c))
      BY CellFacts
    <3>3. IsFiniteSet(Counted(p)) /\ IsFiniteSet({p}) /\ Cardinality({p}) = 1
      <4>1. Len(Ins(p)) \in Nat /\ Len(Ins(p)) >= 2
        BY ProgramFacts
      <4>2. Counted(p) \subseteq 1..Len(Ins(p)) /\ IsFiniteSet(1..Len(Ins(p)))
        BY <4>1, FS_Interval, SMTT(60) DEF Counted
      <4> QED BY <4>2, FS_Subset, FS_Singleton
    <3>4. IsFiniteSet(own) /\ Cardinality(own) = Cardinality({p}) * Cardinality(Counted(p))
      BY <3>3, FS_Product
    <3>5. Cardinality(Counted(p)) \in Nat /\ Cardinality(Cells(r, c)) \in Nat
      BY <3>2, <3>3, FS_CardinalityType
    <3>6. Cardinality(own) = Cardinality(Counted(p))
      BY <3>3, <3>4, <3>5
    <3>7. Cardinality(Cells(u, c)) <= Cardinality(Cells(r, c)) + Cardinality(own)
      <4> HIDE DEF own
      <4>1. IsFiniteSet(Cells(r, c) \cap own)
        BY <3>2, FS_Intersection
      <4>2. Cardinality(Cells(r, c) \cap own) \in Nat
        BY <4>1, FS_CardinalityType
      <4>3. Cardinality(Cells(r, c) \cup own) =
              Cardinality(Cells(r, c)) + Cardinality(own) - Cardinality(Cells(r, c) \cap own)
        BY <3>2, <3>4, FS_Union
      <4> QED BY <3>1, <3>5, <3>6, <4>2, <4>3
    <3>8. /\ channel_mapped_pid_count(r, c) = Cardinality(Cells(r, c))
          /\ channel_mapped_pid_count(u, c) = Cardinality(Cells(u, c))
      BY CellFacts
    <3>9. IsFiniteSet(Cells(u, c)) /\ Cardinality(Cells(u, c)) \in Nat
      BY CellFacts, FS_CardinalityType
    <3> QED BY <2>2, <3>5, <3>6, <3>7, <3>8, <3>9, PidFacts DEF Fits, program_mapped_pid_count
  <2> QED BY <2>1, <2>2
<1> QED BY <1>2, <1>3 DEF Within

-----------------------------------------------------------------------------
(* The pid map *)

GenPairs(io, c) ==
  {<<m[2], m[3]>> : m \in {n \in io.map : n[1] = c /\ (<<c, n[2]>> \in io.pmt <=> OneChannel)}}

\* The map an apply generates has the pids of the selected programs' streams.
LEMMA PairsAre ==
  ASSUME LegalStreams, NEW t, TableOK(t), Distinct(t), Agrees(t), NEW c \in Channels,
         ~OneChannel, NEW io, io = build_io_table(t),
         NEW pairs, pairs = GenPairs(io, c)
  PROVE  pairs = {<<InPid(e), Out(t, e)>> : e \in {f \in Used(t) : f[1][1] = c /\ f[2] > 1}}
<1> DEFINE S == {f \in Used(t) : f[1][1] = c /\ f[2] > 1}
<1>0. pairs = {<<m[2], m[3]>> : m \in {n \in io.map : n[1] = c /\ <<c, n[2]>> \notin io.pmt}}
  BY DEF GenPairs
<1>1. /\ io.pmt = Pmts /\ io.map \subseteq {Triple(t, e) : e \in Used(t)}
      /\ \A e \in Used(t) : Triple(t, e) \in io.map \/ e[2] = 1
  BY BuildFacts
<1>2. ASSUME NEW a \in pairs PROVE \E e \in S : a = <<InPid(e), Out(t, e)>>
  <2>1. PICK m \in io.map : m[1] = c /\ <<c, m[2]>> \notin io.pmt /\ a = <<m[2], m[3]>>
    BY <1>0
  <2>2. PICK e \in Used(t) : m = Triple(t, e)
    BY <1>1
  <2>3. /\ m[1] = e[1][1] /\ m[2] = InPid(e) /\ m[3] = Out(t, e) /\ e[1] \in Programs
        /\ e[2] \in 1..Len(Ins(e[1])) /\ e \in Entries
    BY <2>2, UsedFacts
  <2>4. e[2] # 1
    <3> SUFFICES ASSUME e[2] = 1 PROVE FALSE
      OBVIOUS
    <3>1. InPid(e) = Ins(e[1])[1]
      BY <2>3, EntryFacts
    <3>2. <<c, m[2]>> \in Pmts
      BY <2>1, <2>3, <3>1 DEF Pmts
    <3> QED BY <3>2, <2>1, <1>1
  <2>5. Len(Ins(e[1])) \in Nat
    BY <2>3, ProgramFacts
  <2>6. e[2] > 1
    BY <2>3, <2>4, <2>5
  <2> QED BY <2>1, <2>3, <2>6
<1>3. ASSUME NEW e \in S PROVE <<InPid(e), Out(t, e)>> \in pairs
  <2>1. e \in Used(t) /\ e[1][1] = c /\ e[2] > 1
    OBVIOUS
  <2>2. /\ e \in Entries /\ e[1] \in Programs /\ e[2] \in 1..Len(Ins(e[1]))
        /\ Triple(t, e)[1] = c /\ Triple(t, e)[2] = InPid(e) /\ Triple(t, e)[3] = Out(t, e)
    BY <2>1, UsedFacts
  <2>3. Triple(t, e) \in io.map
    BY <2>1, <1>1
  <2>4. <<c, InPid(e)>> \notin Pmts
    <3> SUFFICES ASSUME NEW q \in Programs, q[1] = c, Ins(q)[1] = InPid(e) PROVE FALSE
      BY DEF Pmts
    <3>1. Len(Ins(e[1])) \in Nat /\ InPid(e) = Ins(e[1])[e[2]]
      BY <2>2, ProgramFacts, EntryFacts
    <3>2. e[2] \in 2..Len(Ins(e[1]))
      BY <2>1, <2>2, <3>1
    <3> QED BY <2>1, <2>2, <3>1, <3>2, StreamAssumption
  <2> QED BY <2>2, <2>3, <2>4, <1>0, <1>1
<1> QED BY <1>2, <1>3

\* There are no more of them than the channel's programs count.
LEMMA PairsFit ==
  ASSUME LegalStreams, NEW t, TableOK(t), Agrees(t), NEW c \in Channels,
         channel_mapped_pid_count(t, c) <= ChanPids,
         NEW pairs,
         pairs = {<<InPid(e), Out(t, e)>> : e \in {f \in Used(t) : f[1][1] = c /\ f[2] > 1}}
  PROVE  IsFiniteSet(pairs) /\ Cardinality(pairs) <= ChanPids
<1> DEFINE Pair(e) == <<InPid(e), Out(t, e)>>
           f == [e \in Cells(t, c) |-> Pair(e)]
<1>1. /\ Cells(t, c) \subseteq {e \in Used(t) : e[1][1] = c /\ e[2] > 1}
      /\ IsFiniteSet(Cells(t, c))
      /\ channel_mapped_pid_count(t, c) = Cardinality(Cells(t, c))
      /\ \A e : e \in Cells(t, c) <=> /\ e = <<e[1], e[2]>> /\ e[1] \in Programs /\ t[e[1]].sel
                                      /\ e[1][1] = c /\ e[2] \in Counted(e[1])
  BY CellFacts
<1>2. f \in [Cells(t, c) -> pairs]
  BY <1>1
<1>3. ASSUME NEW y \in pairs PROVE \E e \in Cells(t, c) : f[e] = y
  <2>1. PICK e \in Used(t) : e[1][1] = c /\ e[2] > 1 /\ y = Pair(e)
    OBVIOUS
  <2> DEFINE p == e[1]
             k == e[2]
  <2>2. e \in Entries /\ p \in Programs /\ k \in 1..Len(Ins(p)) /\ t[p].sel /\ e = <<p, k>>
    BY UsedFacts
  <2>3. Len(Ins(p)) \in Nat /\ Len(Ins(p)) >= 2 /\ InPid(e) = Ins(p)[k] /\ Ins(p)[k] \in Pids
    BY <2>2, ProgramFacts, EntryFacts
  <2>4. CASE k \in Counted(p)
    <3>1. e \in Cells(t, c)
      BY <1>1, <2>1, <2>2, <2>4
    <3> QED BY <2>1, <3>1
  <2>5. CASE k \notin Counted(p)
    <3>1. Ins(p)[k] = Ins(p)[2]
      BY <2>1, <2>2, <2>3, <2>5 DEF Counted, prog_pid_val_isvalid
    <3> DEFINE g == <<p, 2>>
    <3>2. g \in Entries /\ InPid(g) = Ins(p)[2]
      BY <2>2, <2>3, EntryFacts
    <3>3. g \in Used(t) /\ SameInput(g, e) /\ g[2] > 1
      BY <2>2, <2>3, <3>1, <3>2 DEF Used, SameInput
    <3>4. Out(t, g) = Out(t, e)
      BY <2>1, <3>3 DEF Agrees
    <3>5. Pair(g) = y
      BY <2>1, <3>3, <3>4 DEF SameInput
    <3>6. g \in Cells(t, c)
      <4>1. 2 \in Counted(p)
        BY DEF Counted
      <4>2. g[1] = p /\ g[2] = 2
        OBVIOUS
      <4> HIDE DEF g
      <4> QED BY <1>1, <2>1, <2>2, <4>1, <4>2, <3>2, EntryFacts
    <3> QED BY <3>5, <3>6
  <2> QED BY <2>4, <2>5
<1>4. IsFiniteSet(pairs) /\ Cardinality(pairs) <= Cardinality(Cells(t, c))
  <2> HIDE DEF f
  <2> QED BY <1>1, <1>2, <1>3, Images
<1>5. Cardinality(Cells(t, c)) \in Nat /\ Cardinality(pairs) \in Nat
  BY <1>1, <1>4, FS_CardinalityType
<1> QED BY <1>1, <1>4, <1>5, PidFacts

\* In the product of one channel it has the PMT pids, each for the first program.
LEMMA PmtPairsAre ==
  ASSUME LegalStreams, OneChannel, NEW t, TableOK(t), NEW c \in Channels,
         NEW pairs, pairs = GenPairs(build_io_table(t), c)
  PROVE  pairs = {<<Ins(p)[1], t[p].out[1]>> : p \in FirstOfPmt(t, c)}
<1> DEFINE io == build_io_table(t)
<1>1. io.map = {Triple(t, e) : e \in Held(t)} /\ io.pmt = Pmts
  BY BuildIs
<1> HIDE DEF io
<1>2. pairs = {<<m[2], m[3]>> : m \in {n \in io.map : n[1] = c /\ <<c, n[2]>> \in Pmts}}
  BY <1>1 DEF GenPairs, io
<1>3. ASSUME NEW p \in Selected(t)
      PROVE  /\ p \in Programs /\ p = <<p[1], p[2]>> /\ p[2] \in Int
             /\ <<p, 1>> \in Used(t) /\ InPid(<<p, 1>>) = Ins(p)[1]
             /\ Out(t, <<p, 1>>) = t[p].out[1]
  <2>1. p \in Programs /\ t[p].sel
    BY DEF Selected
  <2>2. 1 \in 1..Len(Ins(p)) /\ p = <<p[1], p[2]>> /\ p[2] \in Int
    BY <2>1, ProgramFacts
  <2> QED BY <2>1, <2>2, EntryFacts DEF Used, Out
<1>4. ASSUME NEW a \in pairs
      PROVE  \E p \in FirstOfPmt(t, c) : a = <<Ins(p)[1], t[p].out[1]>>
  <2>1. PICK e \in Held(t) : /\ Triple(t, e)[1] = c /\ <<c, Triple(t, e)[2]>> \in Pmts
                             /\ a = <<Triple(t, e)[2], Triple(t, e)[3]>>
    BY <1>1, <1>2
  <2>2. /\ e \in Used(t) /\ e \in Entries /\ e[1] \in Programs /\ t[e[1]].sel
        /\ e = <<e[1], e[2]>> /\ e[1][1] = c /\ <<c, InPid(e)>> \in Pmts
        /\ a = <<InPid(e), Out(t, e)>>
    BY <2>1, UsedFacts DEF Held
  <2>3. e[2] = 1
    <3>1. PICK q \in Programs : q[1] = c /\ Ins(q)[1] = InPid(e)
      BY <2>2 DEF Pmts
    <3> DEFINE g == <<q, 1>>
    <3>2. g \in Entries /\ InPid(g) = Ins(q)[1]
      <4>1. 1 \in 1..Len(Ins(q))
        BY ProgramFacts
      <4> QED BY <4>1, EntryFacts
    <3>3. SameInput(g, e) /\ g[2] = 1
      BY <3>1, <3>2, <2>2 DEF SameInput
    <3> HIDE DEF g
    <3> QED BY <3>2, <3>3, <2>2, PmtApart
  <2> DEFINE p == e[1]
  <2>4. p \in Selected(t) /\ e = <<p, 1>>
    BY <2>2, <2>3 DEF Selected
  <2>5. ASSUME NEW q \in Selected(t), q[1] = c, Ins(q)[1] = Ins(p)[1] PROVE p[2] <= q[2]
    <3> DEFINE g == <<q, 1>>
    <3>1. g \in Used(t) /\ SameInput(e, g) /\ g[1] = q /\ g[2] = 1
      BY <2>2, <2>4, <2>5, <1>3 DEF SameInput
    <3> HIDE DEF g
    <3>2. CASE g = e
      <4>1. q = p /\ p[2] \in Int
        BY <3>1, <3>2, <2>4, <1>3
      <4> QED BY <4>1
    <3>3. CASE g # e
      <4>1. Precedes(e, g)
        BY <3>1, <3>3, <2>3 DEF Held
      <4>2. p[2] < q[2] \/ (p[2] = q[2] /\ 1 < 1)
        BY <4>1, <3>1, <2>3 DEF Precedes
      <4>3. p[2] \in Int /\ q[2] \in Int
        BY <2>4, <1>3
      <4> QED BY <4>2, <4>3
    <3> QED BY <3>2, <3>3
  <2>6. p \in FirstOfPmt(t, c)
    BY <2>2, <2>4, <2>5 DEF FirstOfPmt
  <2> QED BY <2>2, <2>4, <2>6, <1>3
<1>5. ASSUME NEW p \in FirstOfPmt(t, c) PROVE <<Ins(p)[1], t[p].out[1]>> \in pairs
  <2> DEFINE e == <<p, 1>>
  <2>1. /\ p \in Selected(t) /\ p[1] = c
        /\ \A q \in Selected(t) : q[1] = c /\ Ins(q)[1] = Ins(p)[1] => p[2] <= q[2]
    BY DEF FirstOfPmt
  <2>2. /\ e \in Used(t) /\ e \in Entries /\ InPid(e) = Ins(p)[1] /\ e[1] = p /\ e[2] = 1
        /\ Out(t, e) = t[p].out[1] /\ p = <<p[1], p[2]>> /\ p[2] \in Int /\ p \in Programs
    BY <2>1, <1>3 DEF Used
  <2> HIDE DEF e
  <2>3. ASSUME NEW f \in Used(t) \ {e}, SameInput(e, f) PROVE Precedes(e, f)
    <3>1. f \in Entries /\ f[1] \in Programs /\ t[f[1]].sel /\ f = <<f[1], f[2]>>
      BY UsedFacts
    <3>2. f[2] = 1
      BY <3>1, <2>2, <2>3, PmtApart
    <3>3. f[1] \in Selected(t) /\ f[1][1] = c /\ InPid(f) = Ins(f[1])[1]
      BY <3>1, <3>2, <2>1, <2>2, <2>3 DEF Selected, SameInput, InPid
    <3>4. p[2] <= f[1][2] /\ f[1] = <<f[1][1], f[1][2]>> /\ f[1][2] \in Int
      BY <3>3, <2>1, <2>2, <2>3, <1>3 DEF SameInput
    <3>5. f[1] # p
      BY <3>1, <3>2, <2>2 DEF e
    <3>6. p[2] # f[1][2]
      BY <3>3, <3>4, <3>5, <2>1, <2>2
    <3>7. p[2] < f[1][2]
      BY <3>4, <3>6, <2>2
    <3> QED BY <3>7, <2>2 DEF Precedes
  <2>4. e \in Held(t)
    BY <2>2, <2>3 DEF Held
  <2> DEFINE m == Triple(t, e)
  <2>5. m \in io.map /\ m[1] = c /\ m[2] = Ins(p)[1] /\ m[3] = t[p].out[1]
    BY <2>1, <2>2, <2>4, <1>1 DEF Triple
  <2>6. <<c, m[2]>> \in Pmts
    BY <2>1, <2>2, <2>5 DEF Pmts
  <2> HIDE DEF m
  <2> QED BY <2>5, <2>6, <1>2
<1> QED BY <1>4, <1>5

\* Each of them has a program, whose PCR counts.
LEMMA PmtPairsFit ==
  ASSUME LegalStreams, NEW t, NEW c \in Channels, channel_mapped_pid_count(t, c) <= ChanPids,
         NEW pairs, pairs = {<<Ins(p)[1], t[p].out[1]>> : p \in FirstOfPmt(t, c)}
  PROVE  IsFiniteSet(pairs) /\ Cardinality(pairs) <= ChanPids
<1> DEFINE S == {<<p, 2>> : p \in FirstOfPmt(t, c)}
           f == [e \in S |-> <<Ins(e[1])[1], t[e[1]].out[1]>>]
<1>1. S \in SUBSET Cells(t, c)
  BY DEF FirstOfPmt, Selected, Cells, Counted
<1>2. f \in [S -> pairs] /\ \A y \in pairs : \E e \in S : f[e] = y
  <2>1. \A e \in S : f[e] \in pairs
    OBVIOUS
  <2>2. \A p \in FirstOfPmt(t, c) :
          <<p, 2>> \in S /\ f[<<p, 2>>] = <<Ins(p)[1], t[p].out[1]>>
    OBVIOUS
  <2>3. f \in [S -> pairs]
    BY <2>1
  <2> HIDE DEF S, f
  <2> QED BY <2>2, <2>3
<1> HIDE DEF S, f
<1>3. /\ IsFiniteSet(Cells(t, c)) /\ Cardinality(Cells(t, c)) <= ChanPids
      /\ Cardinality(Cells(t, c)) \in Nat
  BY CellFacts, FS_CardinalityType
<1>4. IsFiniteSet(S) /\ Cardinality(S) <= Cardinality(Cells(t, c))
  BY <1>1, <1>3, FS_Subset
<1>5. IsFiniteSet(pairs) /\ Cardinality(pairs) <= Cardinality(S)
  BY <1>2, <1>4, Images
<1>6. Cardinality(S) \in Nat /\ Cardinality(pairs) \in Nat
  BY <1>4, <1>5, FS_CardinalityType
<1> QED BY <1>3, <1>4, <1>5, <1>6, PidFacts

\* The streams of a channel's selected programs, entry by entry.
LEMMA StreamPairs ==
  ASSUME LegalStreams, NEW t, NEW c \in Channels
  PROVE  {<<InPid(e), Out(t, e)>> : e \in {f \in Used(t) : f[1][1] = c /\ f[2] > 1}} =
         UNION {{<<Ins(p)[k], t[p].out[k]>> : k \in {j \in Listed(p) : j > 1}}
                  : p \in {q \in Selected(t) : q[1] = c}}
<1> DEFINE Of(p) == {<<Ins(p)[k], t[p].out[k]>> : k \in {j \in Listed(p) : j > 1}}
<1>1. ASSUME NEW e \in Used(t), e[1][1] = c, e[2] > 1
      PROVE  \E p \in Selected(t) : p[1] = c /\ <<InPid(e), Out(t, e)>> \in Of(p)
  <2>1. PICK p \in Programs : e \in {p} \X Listed(p)
    BY DEF Used, Entries
  <2>2. e[1] = p /\ e[2] \in Listed(p)
    BY <2>1
  <2>3. p \in Selected(t) /\ p[1] = c
    BY <1>1, <2>2 DEF Used, Selected
  <2> QED BY <1>1, <2>2, <2>3 DEF InPid, Out
<1>2. ASSUME NEW p \in Selected(t), p[1] = c, NEW k \in Listed(p), k > 1
      PROVE  \E e \in Used(t) : /\ e[1][1] = c /\ e[2] > 1
                                 /\ <<Ins(p)[k], t[p].out[k]>> = <<InPid(e), Out(t, e)>>
  <2> DEFINE e == <<p, k>>
  <2>1. e \in Used(t) /\ e[1] = p /\ e[2] = k
    BY DEF Used, Entries, Selected
  <2> QED BY <2>1, <1>2 DEF InPid, Out
<1> QED BY <1>1, <1>2

LEMMA MapFull ==
  ASSUME LegalStreams, NEW t, TableOK(t), Distinct(t), Agrees(t), Within(t), NEW c \in Channels
  PROVE  MapHolds(t, c)
<1> DEFINE io == build_io_table(t)
           pairs == GenPairs(io, c)
           streams == {<<InPid(e), Out(t, e)>> : e \in {f \in Used(t) : f[1][1] = c /\ f[2] > 1}}
           pmts == {<<Ins(p)[1], t[p].out[1]>> : p \in FirstOfPmt(t, c)}
<1>1. pairs = IF OneChannel THEN pmts ELSE streams
  <2> HIDE DEF pmts, streams
  <2>1. CASE OneChannel
    <3>1. pairs = pmts
      BY <2>1, PmtPairsAre DEF pmts
    <3> QED BY <2>1, <3>1
  <2>2. CASE ~OneChannel
    <3> HIDE DEF io
    <3>1. io = build_io_table(t)
      BY DEF io
    <3>2. pairs = streams
      BY <2>2, <3>1, PairsAre DEF streams
    <3> QED BY <2>2, <3>2
  <2> QED BY <2>1, <2>2
<1>2. pid_map_table_gen(t, c) =
        {a \in pairs : Cardinality({b \in pairs : b[1] <= a[1]}) <= ChanPids}
  BY DEF pid_map_table_gen, GenPairs
<1> HIDE DEF pairs
<1>3. IsFiniteSet(pairs) /\ Cardinality(pairs) <= ChanPids
  <2>1. channel_mapped_pid_count(t, c) <= ChanPids
    BY DEF Within
  <2>2. CASE OneChannel
    <3>1. pairs = pmts
      BY <2>2, <1>1
    <3> HIDE DEF pmts
    <3> QED BY <2>1, <3>1, PmtPairsFit DEF pmts
  <2>3. CASE ~OneChannel
    <3>1. pairs = streams
      BY <2>3, <1>1
    <3> HIDE DEF streams
    <3> QED BY <2>1, <3>1, PairsFit DEF streams
  <2> QED BY <2>2, <2>3
<1>4. ASSUME NEW a \in pairs
      PROVE  Cardinality({b \in pairs : b[1] <= a[1]}) <= ChanPids
  <2> DEFINE T == {b \in pairs : b[1] <= a[1]}
  <2>1. T \in SUBSET pairs
    OBVIOUS
  <2> HIDE DEF T
  <2>2. IsFiniteSet(T) /\ Cardinality(T) <= Cardinality(pairs)
    BY <2>1, <1>3, FS_Subset
  <2>3. Cardinality(T) \in Nat /\ Cardinality(pairs) \in Nat
    BY <2>2, <1>3, FS_CardinalityType
  <2>4. Cardinality(T) <= ChanPids
    BY <2>2, <2>3, <1>3, PidFacts
  <2> QED BY <2>4 DEF T
<1>5. pid_map_table_gen(t, c) = pairs
  BY <1>2, <1>4
<1> HIDE DEF streams
<1>6. streams = UNION {{<<Ins(p)[k], t[p].out[k]>> : k \in {j \in Listed(p) : j > 1}}
                         : p \in {q \in Selected(t) : q[1] = c}}
  BY StreamPairs DEF streams
<1> QED BY <1>1, <1>5, <1>6 DEF MapHolds

-----------------------------------------------------------------------------
(* The invariant *)

\* What a parse leaves is a table: the rule gives naturals.
LEMMA ParsedOK ==
  TableOK(Parsed) /\ Selected(Parsed) = {} /\ Used(Parsed) = {}
<1>1. ASSUME NEW p \in Programs, NEW k \in DOMAIN Ins(p)
      PROVE  pid_map_rule_map_psi_pid(p, k) \in Nat
  <2> DEFINE smaller == {j \in 2..Len(Ins(p)) : /\ Ins(p)[j] < Ins(p)[k]
                                                /\ j = 2 \/ Ins(p)[j] # Ins(p)[2]}
  <2>1. p[1] - 1 \in Nat /\ p[2] - 1 \in Nat /\ Len(Ins(p)) \in Nat
    BY ProgramFacts
  <2>2. RuleChan * (p[1] - 1) \in Nat /\ RuleProg * (p[2] - 1) \in Nat
    <3> DEFINE x == p[1] - 1
               y == p[2] - 1
    <3>1. x \in Nat /\ y \in Nat /\ RuleChan \in Nat /\ RuleProg \in Nat
      BY <2>1, PidFacts
    <3> HIDE DEF x, y
    <3>2. RuleChan * x \in Nat /\ RuleProg * y \in Nat
      BY <3>1
    <3> QED BY <3>2 DEF x, y
  <2>3. Cardinality(smaller) \in Nat
    <3>1. IsFiniteSet(2..Len(Ins(p)))
      BY <2>1, FS_Interval
    <3>2. smaller \in SUBSET (2..Len(Ins(p)))
      OBVIOUS
    <3> HIDE DEF smaller
    <3> QED BY <3>1, <3>2, FS_Subset, FS_CardinalityType
  <2>4. pid_map_rule_map_psi_pid(p, k) =
          2 + RuleChan * (p[1] - 1) + RuleProg * (p[2] - 1)
            + (IF k = 1 THEN 0 ELSE 1 + Cardinality(smaller))
    BY DEF pid_map_rule_map_psi_pid
  <2> HIDE DEF smaller
  <2> QED BY <2>2, <2>3, <2>4
<1>2. ASSUME NEW p \in Programs
      PROVE  Parsed[p] \in Row /\ Len(Parsed[p].out) = Len(Ins(p)) /\ Parsed[p].sel = FALSE
  <2>1. DOMAIN Ins(p) = 1..Len(Ins(p)) /\ Len(Ins(p)) \in Nat
    BY ProgramFacts
  <2> DEFINE out == [k \in DOMAIN Ins(p) |-> pid_map_rule_map_psi_pid(p, k)]
  <2>2. out \in [1..Len(Ins(p)) -> Nat]
    BY <1>1, <2>1
  <2>3. Parsed[p] = [sel |-> FALSE, out |-> out]
    BY DEF Parsed
  <2> HIDE DEF out
  <2>4. out \in Seq(Nat) /\ Len(out) = Len(Ins(p))
    BY <2>1, <2>2
  <2> QED BY <2>3, <2>4 DEF Row
<1>3. Parsed \in [Programs -> Row]
  BY <1>2 DEF Parsed
<1>4. \A e \in Entries : e[1] \in Programs
  BY DEF Entries
<1> QED BY <1>2, <1>3, <1>4 DEF TableOK, Selected, Used

\* The inductive invariant: the table's shape and limits, and, as long as no write
\* went wrong, that the pids of streams are distinct and agree.
SelectInv ==
  /\ TableOK(table) /\ Within(table)
  /\ taint \in {"none", "stale", "refused"}
  /\ taint = "none" => Distinct(table) /\ Agrees(table)

LEMMA ParsedInv ==
  ASSUME LegalStreams PROVE Within(Parsed) /\ Distinct(Parsed) /\ Agrees(Parsed)
<1>1. Distinct(Parsed) /\ Agrees(Parsed)
  BY ParsedOK DEF Distinct, Agrees
<1>2. Cardinality(Selected(Parsed)) <= ProgramMax
  BY ParsedOK, FS_EmptySet, PidFacts
<1>3. ASSUME NEW c PROVE channel_mapped_pid_count(Parsed, c) <= ChanPids
  <2>1. Cells(Parsed, c) = {}
    BY ParsedOK DEF Cells
  <2> QED BY <2>1, CellFacts, FS_EmptySet, PidFacts
<1> QED BY <1>1, <1>2, <1>3 DEF Within

LEMMA WriteWithin ==
  ASSUME LegalStreams, NEW t, TableOK(t), Distinct(t), Agrees(t), Within(t), NEW p \in Programs,
         NEW out \in Outs(p), NEW old,
         NEW res, res = check_and_select_program(t, p, out, old)
  PROVE  Within(res.t)
<1> DEFINE rest == Without(t, p)
           u == CheckOf(t, p, out, old).t
<1>1. t \in [Programs -> Row] /\ ~rest[p].sel /\ \A q \in Programs : q # p => rest[q].sel = t[q].sel
  BY DeselectKeeps DEF TableOK
<1> HIDE DEF rest
<1>2. CASE res.t = t
  BY <1>2
<1>3. CASE ~res.ok /\ u \in Like(rest, p) /\ res.t = Refused(t, p, u)
  <2>1. u \in [Programs -> Row] /\ \A q \in Programs : u[q].sel = rest[q].sel
    BY <1>3 DEF Like
  <2> HIDE DEF u
  <2>2. res.t[p].sel = t[p].sel /\ \A q \in Programs : q # p => res.t[q] = u[q]
    BY <1>3, <2>1 DEF Refused, Row
  <2>3. Selected(res.t) \subseteq Selected(t)
    BY <1>1, <2>1, <2>2 DEF Selected
  <2> QED BY <2>3, FewerWithin
<1>4. CASE res.ok /\ Fits(t, p, out) /\ u \in Like(rest, p) /\ res.t = Accepted(p, out, u)
  <2>1. u \in [Programs -> Row] /\ \A q \in Programs : u[q].sel = rest[q].sel
    BY <1>4 DEF Like
  <2> HIDE DEF u
  <2>2. res.t[p].sel /\ \A q \in Programs : q # p => res.t[q] = u[q]
    BY <1>4, <2>1 DEF Accepted
  <2>3. Selected(res.t) = Selected(t) \cup {p}
    BY <1>1, <2>1, <2>2 DEF Selected
  <2>4. Selected(rest) = Selected(t) \ {p}
    BY <1>1 DEF Selected
  <2> QED BY <1>4, <2>3, <2>4, OneMoreWithin DEF rest
<1> QED BY <1>2, <1>3, <1>4, WriteIs DEF rest

\* The pids a user writes back, the ones of a read kept or changed.
LEMMA WriteOuts ==
  ASSUME NEW p \in Programs, NEW shown \in Outs(p),
         NEW kept \in SUBSET DOMAIN shown, NEW typed \in [DOMAIN shown \ kept -> UserPids]
  PROVE  [k \in DOMAIN shown |-> IF k \in kept THEN shown[k] ELSE typed[k]] \in Outs(p)
<1>1. UserPids \subseteq Nat
  BY StreamAssumption
<1> QED BY <1>1 DEF Outs

LEMMA SelectInvHolds ==
  ASSUME LegalStreams
  PROVE  SelectSpec => []SelectInv
<1>1. SelectInit => SelectInv
  BY ParsedOK, ParsedInv DEF SelectInit, SelectInv
<1>2. SelectInv /\ [SelectNext]_SelectVars => SelectInv'
  <2> SUFFICES ASSUME SelectInv, [SelectNext]_SelectVars PROVE SelectInv'
    OBVIOUS
  <2>1. ASSUME NEW p \in Programs, Read(p) PROVE SelectInv'
    BY <2>1 DEF Read, SelectInv
  <2>2. ASSUME NEW p \in Programs, Write(p) PROVE SelectInv'
    <3>1. TableOK(table) /\ Within(table) /\ Distinct(table) /\ Agrees(table) /\ taint = "none"
      BY <2>2 DEF Write, SelectInv
    <3>2. PICK shown \in {prepare_program_output_pid(table, p)} :
            \E kept \in SUBSET DOMAIN shown : \E typed \in [DOMAIN shown \ kept -> UserPids] :
              LET out == [k \in DOMAIN shown |-> IF k \in kept THEN shown[k] ELSE typed[k]]
                  res == check_and_select_program(table, p, out, old_prog)
              IN  /\ table' = res.t
                  /\ taint' = IF res.t = table THEN "none"
                              ELSE IF old_prog # shown THEN "stale"
                              ELSE IF ~res.ok THEN "refused" ELSE "none"
      BY <2>2 DEF Write
    <3>3. PICK kept \in SUBSET DOMAIN shown : \E typed \in [DOMAIN shown \ kept -> UserPids] :
            LET out == [k \in DOMAIN shown |-> IF k \in kept THEN shown[k] ELSE typed[k]]
                res == check_and_select_program(table, p, out, old_prog)
            IN  /\ table' = res.t
                /\ taint' = IF res.t = table THEN "none"
                            ELSE IF old_prog # shown THEN "stale"
                            ELSE IF ~res.ok THEN "refused" ELSE "none"
      BY <3>2
    <3>4. PICK typed \in [DOMAIN shown \ kept -> UserPids] :
            LET out == [k \in DOMAIN shown |-> IF k \in kept THEN shown[k] ELSE typed[k]]
                res == check_and_select_program(table, p, out, old_prog)
            IN  /\ table' = res.t
                /\ taint' = IF res.t = table THEN "none"
                            ELSE IF old_prog # shown THEN "stale"
                            ELSE IF ~res.ok THEN "refused" ELSE "none"
      BY <3>3
    <3> DEFINE out == [k \in DOMAIN shown |-> IF k \in kept THEN shown[k] ELSE typed[k]]
               res == check_and_select_program(table, p, out, old_prog)
    <3>5. shown \in Outs(p) /\ out \in Outs(p)
      <4>1. shown \in Outs(p)
        BY <3>1, ShownGood
      <4> QED BY <4>1, WriteOuts
    <3>6. /\ table' = res.t
          /\ taint' \in {"none", "stale", "refused"}
          /\ taint' = "none" => res.t = table \/ (old_prog = shown /\ res.ok)
      BY <3>4
    <3> HIDE DEF out
    <3>7. /\ TableOK(res.t) /\ Within(res.t)
          /\ (old_prog = shown /\ res.ok => Distinct(res.t) /\ Agrees(res.t))
      BY <3>1, <3>5, WriteKeeps, WriteWithin
    <3> HIDE DEF res
    <3> QED BY <3>1, <3>6, <3>7 DEF SelectInv
  <2>3. ASSUME NEW p \in Programs, Deselect(p) PROVE SelectInv'
    <3>1. /\ TableOK(table) /\ Within(table) /\ Distinct(table) /\ Agrees(table) /\ taint = "none"
          /\ table' = Without(table, p) /\ taint' = "none"
      BY <2>3 DEF Deselect, SelectInv, Without
    <3>2. /\ TableOK(table') /\ Distinct(table') /\ Agrees(table') /\ ~table'[p].sel
          /\ \A q \in Programs : q # p => table'[q].sel = table[q].sel
      BY <3>1, DeselectKeeps
    <3>3. Selected(table') \subseteq Selected(table)
      BY <3>2 DEF Selected
    <3>4. Within(table')
      BY <3>1, <3>3, FewerWithin
    <3> QED BY <3>1, <3>2, <3>4 DEF SelectInv
  <2>4. CASE Parse
    BY <2>4, ParsedOK, ParsedInv DEF Parse, SelectInv
  <2>5. CASE UNCHANGED SelectVars
    BY <2>5 DEF SelectVars, SelectInv
  <2> QED BY <2>1, <2>2, <2>3, <2>4, <2>5 DEF SelectNext
<1> QED BY <1>1, <1>2, PTL DEF SelectSpec

LEMMA SentIsUsed ==
  ASSUME LegalStreams PROVE Sent = Used(table)
<1>1. ASSUME NEW e \in Sent PROVE e \in Used(table)
  <2>1. PICK p \in Selected(table) : \E k \in DOMAIN Ins(p) : e = <<p, k>>
    BY DEF Sent
  <2>2. p \in Programs /\ table[p].sel
    BY <2>1 DEF Selected
  <2>3. PICK k \in 1..Len(Ins(p)) : e = <<p, k>>
    BY <2>1, <2>2, ProgramFacts
  <2> QED BY <2>1, <2>2, <2>3, EntryFacts DEF Used
<1>2. ASSUME NEW e \in Used(table) PROVE e \in Sent
  <2>1. e \in Entries /\ table[e[1]].sel
    BY DEF Used
  <2>2. /\ e[1] \in Programs /\ e[2] \in 1..Len(Ins(e[1])) /\ e = <<e[1], e[2]>>
        /\ Ins(e[1])[e[2]] \in Pids
    BY <2>1, EntryFacts
  <2>3. e[1] \in Selected(table) /\ e[2] \in DOMAIN Ins(e[1])
    BY <2>1, <2>2, ProgramFacts DEF Selected
  <2> QED BY <2>2, <2>3 DEF Sent, prog_pid_val_isvalid
<1> QED BY <1>1, <1>2

\* Whatever a user of the panel types, in whatever order programs are read, written
\* and deselected, no stream and no PMT goes out under another one's pid
\* (check_and_select_program, check_user_output_pid).
THEOREM OutputPidsApart ==
  ASSUME LegalStreams
  PROVE  SelectSpec => []OutPidsDistinct
<1>1. SelectInv => OutPidsDistinct
  <2> SUFFICES ASSUME SelectInv, taint = "none", NEW e \in Used(table), NEW f \in Used(table),
                      e # f, table[e[1]].out[e[2]] = table[f[1]].out[f[2]]
               PROVE  e[1][1] = f[1][1] /\ Ins(e[1])[e[2]] = Ins(f[1])[f[2]] /\ e[2] > 1 /\ f[2] > 1
    BY SentIsUsed DEF OutPidsDistinct
  <2>1. Out(table, e) = Out(table, f)
    BY DEF Out
  <2>2. SameInput(e, f) /\ e[2] > 1 /\ f[2] > 1
    BY <2>1 DEF SelectInv, Distinct
  <2> QED BY <2>2 DEF SameInput, InPid
<1> QED BY <1>1, SelectInvHolds, PTL

\* An apply maps every elementary stream of every selected program to the pid that
\* the program's entry names (pid_map_table_gen_and_apply_from_fp): none is left out
\* for want of room, and programs that share a stream agree. In the product of one
\* channel it maps their PMT pids instead, each once, and none is left out either.
THEOREM MapHoldsEveryStream ==
  ASSUME LegalStreams
  PROVE  SelectSpec => []MapIsComplete
<1>1. SelectInv => MapIsComplete
  <2> SUFFICES ASSUME SelectInv, taint = "none", NEW c \in Channels PROVE MapHolds(table, c)
    BY DEF MapIsComplete
  <2>1. TableOK(table) /\ Distinct(table) /\ Agrees(table) /\ Within(table)
    BY DEF SelectInv
  <2> QED BY <2>1, MapFull
<1> QED BY <1>1, SelectInvHolds, PTL

-----------------------------------------------------------------------------
(* A free pid is found *)

Inputs == {InPid(e) : e \in Entries}
Outlets == {Outlet(e) : e \in Entries}
PmtOf(t, p, o, q) == IF q = p THEN o[1] ELSE t[q].out[1]

\* io_table has the pids of the entries and of PMTs only.
Placed(t, p, o, io) ==
  /\ io.input = Inputs
  /\ \A m \in io.map : /\ m[2] \in Inputs
                       /\ \/ \E q \in Programs : m[3] = PmtOf(t, p, o, q)
                          \/ \E e \in Entries : e[2] > 1 /\ m[1] = e[1][1] /\ m[2] = InPid(e)
  /\ \A y \in io.pmtOut : \E q \in Programs : y = PmtOf(t, p, o, q)

LEMMA RoomLeft ==
  ASSUME LegalStreams, EnoughPids, NEW t, NEW p, NEW o,
         NEW io \in IoType, Functional(io), Placed(t, p, o, io)
  PROVE  ~(Pids \subseteq InUse(io))
<1> DEFINE Ys == io.pmtOut \cup {m[3] : m \in io.map}
           IsPmt(y) == \E q \in Programs : y = PmtOf(t, p, o, q)
           Q(y) == CHOOSE q \in Programs : y = PmtOf(t, p, o, q)
           M(y) == CHOOSE m \in io.map : m[3] = y
           f == [y \in Ys |-> IF IsPmt(y) THEN <<Q(y)[1], Q(y)[2], Ins(Q(y))[1]>>
                                         ELSE <<M(y)[1], 0, M(y)[2]>>]
<1>1. ASSUME NEW y \in Ys, IsPmt(y)
      PROVE  /\ Q(y) \in Programs /\ y = PmtOf(t, p, o, Q(y))
             /\ f[y] = <<Q(y)[1], Q(y)[2], Ins(Q(y))[1]>> /\ f[y] \in Outlets
             /\ Q(y) = <<Q(y)[1], Q(y)[2]>> /\ Q(y)[2] # 0
  <2>1. Q(y) \in Programs /\ y = PmtOf(t, p, o, Q(y))
    BY <1>1
  <2>2. f[y] = <<Q(y)[1], Q(y)[2], Ins(Q(y))[1]>>
    BY <1>1
  <2> DEFINE q == Q(y)
             e == <<q, 1>>
  <2> HIDE DEF Q, f
  <2>3. /\ q = <<q[1], q[2]>> /\ q[2] \in 1..Len(Stream[q[1]]) /\ Len(Stream[q[1]]) \in Nat
        /\ Len(Ins(q)) \in Nat /\ Len(Ins(q)) >= 2
    BY <2>1, ProgramFacts
  <2>4. e \in Entries /\ InPid(e) = Ins(q)[1]
    BY <2>1, <2>3, EntryFacts
  <2>5. Outlet(e) = <<q[1], q[2], Ins(q)[1]>>
    BY <2>4 DEF Outlet
  <2>6. f[y] \in Outlets
    BY <2>2, <2>4, <2>5 DEF Outlets
  <2> QED BY <2>1, <2>2, <2>3, <2>6
<1>2. ASSUME NEW y \in Ys, ~IsPmt(y)
      PROVE  M(y) \in io.map /\ M(y)[3] = y /\ f[y] = <<M(y)[1], 0, M(y)[2]>> /\ f[y] \in Outlets
  <2>1. y \notin io.pmtOut
    BY <1>2 DEF Placed
  <2>2. \E m \in io.map : m[3] = y
    BY <2>1
  <2>3. M(y) \in io.map /\ M(y)[3] = y
    BY <2>2
  <2>4. f[y] = <<M(y)[1], 0, M(y)[2]>>
    BY <1>2
  <2> DEFINE m == M(y)
  <2>5. ~\E q \in Programs : m[3] = PmtOf(t, p, o, q)
    BY <1>2, <2>3
  <2> HIDE DEF M, f
  <2>6. PICK e \in Entries : e[2] > 1 /\ m[1] = e[1][1] /\ m[2] = InPid(e)
    BY <2>3, <2>5 DEF Placed
  <2>7. e[2] # 1
    BY <2>6
  <2>8. Outlet(e) = <<m[1], 0, m[2]>>
    BY <2>6, <2>7 DEF Outlet
  <2> QED BY <2>3, <2>4, <2>6, <2>8 DEF Outlets
<1>3. f \in [Ys -> Outlets]
  BY <1>1, <1>2
<1>4. ASSUME NEW y \in Ys, NEW z \in Ys, f[y] = f[z] PROVE y = z
  <2>1. CASE IsPmt(y) /\ IsPmt(z)
    <3> HIDE DEF Q, f
    <3>1. Q(y) = Q(z)
      BY <2>1, <1>1, <1>4
    <3> QED BY <2>1, <3>1, <1>1
  <2>2. CASE ~IsPmt(y) /\ ~IsPmt(z)
    <3> HIDE DEF M, f
    <3>1. M(y)[1] = M(z)[1] /\ M(y)[2] = M(z)[2] /\ M(y) \in io.map /\ M(z) \in io.map
      BY <2>2, <1>2, <1>4
    <3>2. M(y) = M(z)
      BY <3>1 DEF Functional
    <3> QED BY <2>2, <3>2, <1>2
  <2>3. CASE IsPmt(y) /\ ~IsPmt(z)
    <3> HIDE DEF M, Q, f
    <3> QED BY <2>3, <1>1, <1>2, <1>4
  <2>4. CASE ~IsPmt(y) /\ IsPmt(z)
    <3> HIDE DEF M, Q, f
    <3> QED BY <2>4, <1>1, <1>2, <1>4
  <2> QED BY <2>1, <2>2, <2>3, <2>4
<1> HIDE DEF f
<1>5. IsFiniteSet(Entries)
  BY FinitePrograms
<1>6. IsFiniteSet(Outlets)
  <2> DEFINE g == [e \in Entries |-> Outlet(e)]
  <2>1. g \in [Entries -> Outlets] /\ \A y \in Outlets : \E e \in Entries : g[e] = y
    BY DEF Outlets
  <2> HIDE DEF g
  <2> QED BY <1>5, <2>1, Images
<1>7. IsFiniteSet(Inputs)
  <2> DEFINE g == [e \in Entries |-> InPid(e)]
  <2>1. g \in [Entries -> Inputs] /\ \A y \in Inputs : \E e \in Entries : g[e] = y
    BY DEF Inputs
  <2> HIDE DEF g
  <2> QED BY <1>5, <2>1, Images
<1>8. IsFiniteSet(Ys) /\ Cardinality(Ys) <= Cardinality(Outlets)
  <2> HIDE DEF Ys
  <2> QED BY <1>3, <1>4, <1>6, Marked
<1>9. InUse(io) \subseteq Inputs \cup Ys
  BY DEF InUse, Placed
<1> HIDE DEF Ys
<1>10. /\ IsFiniteSet(Inputs \cup Ys)
       /\ Cardinality(Inputs \cup Ys) =
            Cardinality(Inputs) + Cardinality(Ys) - Cardinality(Inputs \cap Ys)
  BY <1>7, <1>8, FS_Union
<1>11. IsFiniteSet(Inputs \cap Ys)
  BY <1>7, FS_Intersection
<1>12. /\ Cardinality(Inputs) \in Nat /\ Cardinality(Ys) \in Nat /\ Cardinality(Outlets) \in Nat
       /\ Cardinality(Inputs \cap Ys) \in Nat /\ Cardinality(Inputs \cup Ys) \in Nat
  BY <1>6, <1>7, <1>8, <1>10, <1>11, FS_CardinalityType
<1>13. Cardinality(Pids) \in Nat
  BY PidFacts, FS_CardinalityType
<1>14. Cardinality(Inputs \cup Ys) < Cardinality(Pids)
  BY <1>8, <1>10, <1>12, <1>13 DEF EnoughPids, Inputs, Outlets
<1> SUFFICES ASSUME Pids \subseteq InUse(io) PROVE FALSE
  OBVIOUS
<1>15. Pids \in SUBSET (Inputs \cup Ys)
  BY <1>9
<1>16. Cardinality(Pids) <= Cardinality(Inputs \cup Ys)
  BY <1>10, <1>15, FS_Subset
<1> QED BY <1>12, <1>13, <1>14, <1>16

\* The pid that is picked is a legal one which nothing is sent under.
LEMMA FreeFound ==
  ASSUME LegalStreams, EnoughPids, NEW t, NEW p, NEW o,
         NEW io \in IoType, Functional(io), Placed(t, p, o, io),
         NEW x, x = pick_free_pid(io)
  PROVE  x \in Pids /\ x \notin io.pmtOut /\ \A m \in io.map : m[3] # x
<1>1. ~(Pids \subseteq InUse(io))
  BY RoomLeft
<1>2. x = NullPid \/ x \in Pids \ InUse(io)
  BY FreePid
<1>3. x \in Nat /\ (x \notin Pids => Pids \subseteq InUse(io))
  BY FreePid
<1>4. x \in Pids
  BY <1>1, <1>3
<1>5. x \notin InUse(io)
  BY <1>2, <1>4, PidFacts
<1> QED BY <1>4, <1>5 DEF InUse

-----------------------------------------------------------------------------
(* An offer is accepted *)

\* Of the first k entries of p: io_table knows their pids o, which can be chosen and
\* tell the input pids apart, and no pid of it is used twice.
Neat(t, p, o, k, io) ==
  /\ OneToOne(io) /\ Placed(t, p, o, io)
  /\ o[1] \in io.pmtOut \/ <<p[1], Ins(p)[1], o[1]>> \in io.map
  /\ o[1] \in Pids /\ \A j \in 1..k : o[j] \in OutPids
  /\ \A i, j \in 1..k : Ins(p)[i] = Ins(p)[j] <=> o[i] = o[j]

\* A pid that is usable for an input pid without a pid is not in the table.
LEMMA UsableFresh ==
  ASSUME NEW io \in IoType, NEW c, NEW in, ~Mapped(io, c, in), is_out_pid_usable(io, c, in, in)
  PROVE  in \notin io.pmtOut /\ \A m \in io.map : m[3] # in
<1>1. <<c, in, in>> \notin io.map
  BY DEF Mapped
<1> QED BY <1>1 DEF is_out_pid_usable, IsOutput

\* A pid that nothing is sent under is added.
LEMMA AddFresh ==
  ASSUME NEW io \in IoType, OneToOne(io), NEW x, x \notin io.pmtOut, \A m \in io.map : m[3] # x,
         NEW c, NEW in, NEW new,
         \/ new.map \subseteq io.map \cup {<<c, in, x>>} /\ new.pmtOut = io.pmtOut
         \/ new.map = io.map /\ new.pmtOut = io.pmtOut \cup {x}
  PROVE  OneToOne(new)
<1>1. <<c, in, x>>[3] = x
  OBVIOUS
<1>2. CASE new.map \subseteq io.map \cup {<<c, in, x>>} /\ new.pmtOut = io.pmtOut
  BY <1>1, <1>2 DEF OneToOne
<1>3. CASE new.map = io.map /\ new.pmtOut = io.pmtOut \cup {x}
  BY <1>3 DEF OneToOne
<1> QED BY <1>2, <1>3

LEMMA PlacedStart ==
  ASSUME LegalStreams, NEW t, TableOK(t), Distinct(t), Agrees(t), NEW p \in Programs, ~t[p].sel,
         NEW o, NEW io, io = build_io_table(t)
  PROVE  Placed(t, p, o, io)
<1>1. /\ io.input = Inputs
      /\ \A m \in io.map : \E e \in Used(t) : m = Triple(t, e)
      /\ \A x \in io.pmtOut : \E e \in Used(t) : e[2] = 1 /\ x = Out(t, e)
  BY BuildFacts DEF Inputs
<1>2. ASSUME NEW e \in Used(t)
      PROVE  /\ e \in Entries /\ Triple(t, e)[1] = e[1][1] /\ Triple(t, e)[2] = InPid(e)
             /\ Triple(t, e)[3] = Out(t, e)
             /\ e[2] = 1 => \E q \in Programs : Out(t, e) = PmtOf(t, p, o, q)
             /\ e[2] # 1 => e[2] > 1
  <2>1. /\ e \in Entries /\ Triple(t, e)[1] = e[1][1] /\ Triple(t, e)[2] = InPid(e)
        /\ Triple(t, e)[3] = Out(t, e) /\ e[1] \in Programs /\ t[e[1]].sel
        /\ e[2] \in 1..Len(Ins(e[1]))
    BY UsedFacts
  <2>2. Len(Ins(e[1])) \in Nat
    BY <2>1, ProgramFacts
  <2>3. e[2] = 1 => Out(t, e) = PmtOf(t, p, o, e[1])
    BY <2>1 DEF Out, PmtOf
  <2> QED BY <2>1, <2>2, <2>3
<1>3. ASSUME NEW m \in io.map
      PROVE  /\ m[2] \in Inputs
             /\ \/ \E q \in Programs : m[3] = PmtOf(t, p, o, q)
                \/ \E e \in Entries : e[2] > 1 /\ m[1] = e[1][1] /\ m[2] = InPid(e)
  <2>1. PICK e \in Used(t) : m = Triple(t, e)
    BY <1>1
  <2>2. m[2] \in Inputs
    BY <2>1, <1>2 DEF Inputs
  <2> QED BY <2>1, <2>2, <1>2
<1> QED BY <1>1, <1>2, <1>3 DEF Placed

LEMMA NeatPmt ==
  ASSUME LegalStreams, EnoughPids, NEW t, TableOK(t), Distinct(t), Agrees(t), NEW p \in Programs,
         ~t[p].sel, NEW o, o[1] = PmtOut(t, p), NEW new,
         new = io_table_set_pmt_pid(build_io_table(t), p[1], Ins(p)[1], PmtOut(t, p))
  PROVE  Neat(t, p, o, 1, new)
<1> DEFINE io == build_io_table(t)
           c == p[1]
           in == Ins(p)[1]
           x == PmtOut(t, p)
<1>1. io \in IoType /\ Functional(io) /\ OneToOne(io)
  BY BuildFacts
<1>2. Placed(t, p, o, io)
  BY PlacedStart
<1>3. c \in Channels /\ in \in Pids /\ x \in Nat
  BY <1>1, ProgramFacts, OutIsPid DEF PmtOut
<1>4. x \in Pids /\ x \notin io.pmtOut /\ \A m \in io.map : m[3] # x
  <2>1. CASE ~Mapped(io, c, in) /\ is_out_pid_usable(io, c, in, in)
    <3>1. x = in
      BY <2>1 DEF PmtOut, io_table_get_pmt_out_pid
    <3> QED BY <3>1, <2>1, <1>1, <1>3, UsableFresh
  <2>2. CASE ~(~Mapped(io, c, in) /\ is_out_pid_usable(io, c, in, in))
    <3>1. x = pick_free_pid(io)
      BY <2>2 DEF PmtOut, io_table_get_pmt_out_pid
    <3> HIDE DEF io, x
    <3> QED BY <3>1, <1>1, <1>2, FreeFound
  <2> QED BY <2>1, <2>2
<1>5. /\ new.input = io.input
      /\ \/ new.map = io.map /\ new.pmtOut = io.pmtOut \cup {x}
         \/ new.map = io.map \cup {<<c, in, x>>} /\ new.pmtOut = io.pmtOut
  <2> HIDE DEF io, x, c, in
  <2>1. new = io_table_set_pmt_pid(io, c, in, x)
    BY DEF io, x, c, in
  <2> QED BY <2>1, <1>1, <1>3, SetPmtPid
<1> HIDE DEF io, x
<1>6. o[1] = x
  BY DEF x
<1>7. OneToOne(new)
  BY <1>1, <1>4, <1>5, AddFresh
<1>8. Placed(t, p, o, new)
  <2>1. PmtOf(t, p, o, p) = x
    BY <1>6 DEF PmtOf
  <2>2. in \in Inputs
    <3>1. 1 \in 1..Len(Ins(p))
      BY ProgramFacts
    <3>2. <<p, 1>> \in Entries /\ InPid(<<p, 1>>) = in
      BY <3>1, EntryFacts
    <3> QED BY <3>2 DEF Inputs
  <2> QED BY <1>2, <1>5, <2>1, <2>2 DEF Placed
<1>9. o[1] \in new.pmtOut \/ <<p[1], Ins(p)[1], o[1]>> \in new.map
  BY <1>5, <1>6
<1> QED BY <1>4, <1>6, <1>7, <1>8, <1>9, PidFacts DEF Neat

LEMMA NeatNext ==
  ASSUME LegalStreams, EnoughPids, NEW t, TableOK(t), NEW p \in Programs,
         NEW k \in 2..Len(Ins(p)), NEW acc \in Acc(p), Tracks(t, p, acc.out, k - 1, acc.io),
         Neat(t, p, acc.out, k - 1, acc.io),
         NEW new, new = io_table_set_pid(acc.io, p[1], Ins(p)[k], NextOut(p, acc, k)),
         NEW o, o = [acc.out EXCEPT ![k] = NextOut(p, acc, k)]
  PROVE  Neat(t, p, o, k, new)
<1> DEFINE io == acc.io
           c == p[1]
           in == Ins(p)[k]
           x == NextOut(p, acc, k)
<1>1. /\ io \in IoType /\ Functional(io) /\ OneToOne(io) /\ Placed(t, p, acc.out, io)
      /\ Known(t, p, acc.out, k - 1, io)
      /\ \A j \in 2..(k - 1) : <<c, Ins(p)[j], acc.out[j]>> \in io.map
      /\ acc.out[1] \in Pids /\ \A j \in 1..(k - 1) : acc.out[j] \in OutPids
      /\ \A i, j \in 1..(k - 1) : Ins(p)[i] = Ins(p)[j] <=> acc.out[i] = acc.out[j]
      /\ acc.out[1] \in io.pmtOut \/ <<c, Ins(p)[1], acc.out[1]>> \in io.map
  BY DEF Tracks, Neat
<1>2. /\ Len(Ins(p)) \in Nat /\ k \in Nat /\ k >= 2 /\ k \in 1..Len(Ins(p)) /\ c \in Channels
      /\ in \in Pids /\ <<p, k>> \in Entries /\ InPid(<<p, k>>) = in
      /\ \A j \in 1..k : j = k \/ j \in 1..(k - 1)
      /\ \A j \in 1..(k - 1) : j = 1 \/ j \in 2..(k - 1)
      /\ k \notin 1..(k - 1)
  <2>1. Len(Ins(p)) \in Nat /\ c \in Channels
    BY ProgramFacts
  <2>2. k \in Nat /\ k >= 2 /\ k \in 1..Len(Ins(p))
    BY <2>1
  <2> QED BY <2>1, <2>2, EntryFacts
<1>3. Ins(p)[1] # in
  BY StreamAssumption
<1>4. x \in Nat
  BY <1>1, <1>2, OutIsPid DEF NextOut
<1>5. /\ new.map = {m \in io.map : ~(m[1] = c /\ m[2] = in)} \cup {<<c, in, x>>}
      /\ new.input = io.input /\ new.pmtOut = io.pmtOut
  <2> HIDE DEF io, x, c, in
  <2>1. new = io_table_set_pid(io, c, in, x)
    BY DEF io, x, c, in
  <2> QED BY <2>1, <1>1, <1>2, <1>4, SetPid, SMTT(60)
<1>6. o[k] = x /\ \A j \in 1..(k - 1) : o[j] = acc.out[j]
  <2>1. acc.out \in [1..Len(Ins(p)) -> Nat]
    BY DEF Acc, Outs
  <2>2. \A j \in 1..(k - 1) : j \in 1..Len(Ins(p)) /\ j # k
    BY <1>2
  <2> HIDE DEF x
  <2>3. o = [acc.out EXCEPT ![k] = x]
    BY DEF x
  <2> QED BY <2>1, <2>2, <2>3, <1>2
\* The pid is the one the stream has, or one that nothing has.
<1>7. \/ <<c, in, x>> \in io.map
      \/ ~Mapped(io, c, in) /\ x \in Pids /\ x \notin io.pmtOut /\ \A m \in io.map : m[3] # x
  <2>1. CASE Mapped(io, c, in)
    <3>1. PICK m \in io.map : m[1] = c /\ m[2] = in /\ x = m[3]
      BY <1>1, <1>2, <2>1, OutIsPid DEF NextOut
    <3>2. m = <<m[1], m[2], m[3]>>
      BY <1>1 DEF IoType
    <3> QED BY <3>1, <3>2
  <2>2. CASE ~Mapped(io, c, in) /\ is_out_pid_usable(io, c, in, in)
    <3>1. x = in
      BY <2>2 DEF NextOut, io_table_get_out_pid
    <3> QED BY <3>1, <2>2, <1>1, <1>2, UsableFresh
  <2>3. CASE ~Mapped(io, c, in) /\ ~is_out_pid_usable(io, c, in, in)
    <3>1. x = pick_free_pid(io)
      BY <2>3 DEF NextOut, io_table_get_out_pid
    <3> HIDE DEF io, x
    <3> QED BY <3>1, <2>3, <1>1, FreeFound
  <2> QED BY <2>1, <2>2, <2>3
<1>8. x \in OutPids
  <2> SUFFICES ASSUME <<c, in, x>> \in io.map PROVE x \in OutPids
    BY <1>7, PidFacts
  <2> DEFINE m == <<c, in, x>>
  <2>1. m[1] = c /\ m[2] = in /\ m[3] = x /\ m \in io.map
    OBVIOUS
  <2> HIDE DEF m, x, io
  <2>2. \/ \E f \in Used(t) : Shares(p, f) /\ InPid(f) = m[2] /\ Out(t, f) = m[3]
        \/ \E j \in 2..(k - 1) : Ins(p)[j] = m[2] /\ acc.out[j] = m[3]
    BY <2>1, <1>1 DEF Known
  <2>3. \A j \in 2..(k - 1) : j \in 1..(k - 1)
    OBVIOUS
  <2> QED BY <2>1, <2>2, <2>3, <1>1, UsedFacts
<1> HIDE DEF io, x
<1>9. OneToOne(new)
  <2>1. CASE <<c, in, x>> \in io.map
    <3>1. new.map \subseteq io.map
      BY <1>5, <2>1
    <3> QED BY <3>1, <1>1, <1>5 DEF OneToOne
  <2>2. CASE x \notin io.pmtOut /\ \A m \in io.map : m[3] # x
    <3>1. new.map \subseteq io.map \cup {<<c, in, x>>}
      BY <1>5
    <3> QED BY <3>1, <2>2, <1>1, <1>5, AddFresh
  <2> QED BY <2>1, <2>2, <1>7
<1>10. Placed(t, p, o, new)
  <2>1. o[1] = acc.out[1]
    BY <1>2, <1>6
  <2>2. \A q \in Programs : PmtOf(t, p, o, q) = PmtOf(t, p, acc.out, q)
    BY <2>1 DEF PmtOf
  <2>3. ASSUME NEW m \in new.map
        PROVE  /\ m[2] \in Inputs
               /\ \/ \E q \in Programs : m[3] = PmtOf(t, p, o, q)
                  \/ \E e \in Entries : e[2] > 1 /\ m[1] = e[1][1] /\ m[2] = InPid(e)
    <3>1. CASE m \in io.map
      BY <3>1, <2>2, <1>1 DEF Placed
    <3>2. CASE m = <<c, in, x>>
      <4> DEFINE e == <<p, k>>
      <4>1. e \in Entries /\ e[2] = k /\ k > 1 /\ m[1] = e[1][1] /\ m[2] = InPid(e)
        BY <3>2, <1>2
      <4> HIDE DEF e
      <4> QED BY <4>1 DEF Inputs
    <3> QED BY <3>1, <3>2, <1>5
  <2> QED BY <2>2, <2>3, <1>1, <1>5 DEF Placed
<1>11. o[1] \in new.pmtOut \/ <<p[1], Ins(p)[1], o[1]>> \in new.map
  <2>1. o[1] = acc.out[1]
    BY <1>2, <1>6
  <2>2. <<c, Ins(p)[1], o[1]>>[2] # in
    BY <1>3
  <2> QED BY <2>1, <2>2, <1>1, <1>5
<1>12. o[1] \in Pids /\ \A j \in 1..k : o[j] \in OutPids
  BY <1>1, <1>2, <1>6, <1>8
<1>13. ASSUME NEW i \in 1..(k - 1) PROVE Ins(p)[i] = in <=> o[i] = x
  <2> DEFINE y == acc.out[i]
             a == <<c, Ins(p)[i], y>>
             b == <<c, in, x>>
  <2>1. o[i] = y
    BY <1>6
  <2>2. a[1] = b[1] /\ a[2] = Ins(p)[i] /\ a[3] = y /\ b[2] = in /\ b[3] = x /\ b[1] = c
    OBVIOUS
  <2> HIDE DEF a, b, y
  <2>3. a \in io.map \/ (i = 1 /\ y \in io.pmtOut)
    BY <1>1, <1>2 DEF a, y
  <2>4. i = 1 => Ins(p)[i] # in
    BY <1>3
  <2>5. CASE b \in io.map
    <3>1. CASE a \in io.map
      <4>1. a[2] = b[2] => a = b
        BY <2>2, <2>5, <3>1, <1>1 DEF Functional
      <4>2. a[3] = b[3] => a = b
        BY <2>5, <3>1, <1>1 DEF OneToOne
      <4> QED BY <4>1, <4>2, <2>1, <2>2
    <3>2. CASE i = 1 /\ y \in io.pmtOut
      <4>1. y # x
        BY <3>2, <2>2, <2>5, <1>1 DEF OneToOne
      <4> QED BY <4>1, <3>2, <2>1, <2>4
    <3> QED BY <3>1, <3>2, <2>3
  <2>6. CASE ~Mapped(io, c, in) /\ x \notin io.pmtOut /\ \A m \in io.map : m[3] # x
    <3>1. y # x
      BY <2>2, <2>3, <2>6
    <3>2. Ins(p)[i] # in
      BY <2>2, <2>3, <2>4, <2>6 DEF Mapped
    <3> QED BY <3>1, <3>2, <2>1
  <2> QED BY <2>5, <2>6, <1>7 DEF b
<1>14. ASSUME NEW i \in 1..k, NEW j \in 1..k PROVE Ins(p)[i] = Ins(p)[j] <=> o[i] = o[j]
  <2>1. CASE i \in 1..(k - 1) /\ j \in 1..(k - 1)
    <3>1. o[i] = acc.out[i] /\ o[j] = acc.out[j]
      BY <2>1, <1>6
    <3>2. Ins(p)[i] = Ins(p)[j] <=> acc.out[i] = acc.out[j]
      BY <2>1, <1>1
    <3> QED BY <3>1, <3>2
  <2>2. CASE i = k /\ j = k
    BY <2>2
  <2>3. CASE i = k /\ j \in 1..(k - 1)
    BY <2>3, <1>6, <1>13
  <2>4. CASE i \in 1..(k - 1) /\ j = k
    BY <2>4, <1>6, <1>13
  <2> QED BY <2>1, <2>2, <2>3, <2>4, <1>2
<1> QED BY <1>9, <1>10, <1>11, <1>12, <1>14 DEF Neat

LEMMA FixNeat ==
  ASSUME LegalStreams, EnoughPids, NEW t, TableOK(t), Distinct(t), Agrees(t), NEW p \in Programs,
         ~t[p].sel
  PROVE  \A n \in 0..(Len(Ins(p)) - 1) :
           Neat(t, p, FixUpTo(t, p)[n].out, n + 1, FixUpTo(t, p)[n].io)
<1> DEFINE N == Len(Ins(p)) - 1
           f == FixUpTo(t, p)
           Bad == {n \in 0..N : ~Neat(t, p, f[n].out, n + 1, f[n].io)}
<1>1. N \in Nat /\ N >= 1 /\ Len(Ins(p)) = N + 1
  BY ProgramFacts
<1>2. /\ f[0] = [io |-> io_table_set_pmt_pid(build_io_table(t), p[1], Ins(p)[1], PmtOut(t, p)),
                 out |-> [t[p].out EXCEPT ![1] = PmtOut(t, p)]]
      /\ \A n \in 0..N : f[n] \in Acc(p)
      /\ \A n \in 1..N :
           LET x == NextOut(p, f[n - 1], n + 1)
           IN  f[n] = [io |-> io_table_set_pid(f[n - 1].io, p[1], Ins(p)[n + 1], x),
                       out |-> [f[n - 1].out EXCEPT ![n + 1] = x]]
  BY FixSteps, SMTT(60)
<1>3. \A n \in 0..N : Tracks(t, p, f[n].out, n + 1, f[n].io)
  BY FixTracks
<1> HIDE DEF f
<1> SUFFICES ASSUME Bad # {} PROVE FALSE
  BY DEF f
<1>4. PICK n \in Bad : \A y \in Bad : n <= y
  <2>1. Bad \subseteq Nat
    BY <1>1
  <2> HIDE DEF Bad
  <2> QED BY <2>1, LeastNat
<1>5. n \in 0..N /\ ~Neat(t, p, f[n].out, n + 1, f[n].io)
  BY <1>4
<1>6. CASE n = 0
  <2>1. f[0].io = io_table_set_pmt_pid(build_io_table(t), p[1], Ins(p)[1], PmtOut(t, p))
    BY <1>2
  <2>2. f[0].out[1] = PmtOut(t, p)
    <3>1. 1 \in DOMAIN t[p].out
      <4>1. t[p].out \in Seq(Nat) /\ Len(t[p].out) = Len(Ins(p))
        BY DEF TableOK, Row
      <4> QED BY <4>1, <1>1
    <3> QED BY <3>1, <1>2
  <2>3. Neat(t, p, f[0].out, 1, f[0].io)
    BY <2>1, <2>2, NeatPmt
  <2> QED BY <1>5, <1>6, <2>3
<1>7. CASE n # 0
  <2> DEFINE acc == f[n - 1]
             k == n + 1
  <2>1. /\ n \in 1..N /\ n - 1 \in 0..N /\ n - 1 \notin Bad /\ k \in 2..Len(Ins(p))
        /\ k - 1 = n /\ (n - 1) + 1 = n
    BY <1>1, <1>4, <1>5, <1>7
  <2>2. acc \in Acc(p) /\ Tracks(t, p, acc.out, k - 1, acc.io) /\ Neat(t, p, acc.out, k - 1, acc.io)
    BY <1>2, <1>3, <2>1
  <2>3. /\ f[n].io = io_table_set_pid(acc.io, p[1], Ins(p)[k], NextOut(p, acc, k))
        /\ f[n].out = [acc.out EXCEPT ![k] = NextOut(p, acc, k)]
    <3> DEFINE x == NextOut(p, acc, k)
    <3>1. f[n] = [io |-> io_table_set_pid(acc.io, p[1], Ins(p)[k], x),
                  out |-> [acc.out EXCEPT ![k] = x]]
      BY <1>2, <2>1
    <3> HIDE DEF x, acc
    <3> QED BY <3>1 DEF x
  <2> HIDE DEF acc, k
  <2>4. Neat(t, p, f[n].out, k, f[n].io)
    BY <2>1, <2>2, <2>3, NeatNext
  <2> QED BY <1>5, <2>4 DEF k
<1> QED BY <1>6, <1>7

\* The pids a read offers can be chosen, and differ as the input pids do.
LEMMA OfferNeat ==
  ASSUME LegalStreams, EnoughPids, NEW t, TableOK(t), Distinct(t), Agrees(t), NEW p \in Programs,
         ~t[p].sel
  PROVE  /\ prepare_program_output_pid(t, p) \in [1..Len(Ins(p)) -> OutPids]
         /\ prepare_program_output_pid(t, p)[1] \in Pids
         /\ Alike(p, prepare_program_output_pid(t, p))
<1> DEFINE N == Len(Ins(p)) - 1
           shown == prepare_program_output_pid(t, p)
<1>1. N \in 0..N /\ N + 1 = Len(Ins(p))
  BY ProgramFacts
<1>2. shown = FixUpTo(t, p)[N].out
  BY DEF prepare_program_output_pid, fix_selected_program_output_pid
<1>3. Neat(t, p, shown, Len(Ins(p)), FixUpTo(t, p)[N].io)
  BY <1>1, <1>2, FixNeat
<1>4. shown \in Outs(p)
  BY OfferGood
<1> HIDE DEF shown
<1>5. shown[1] \in Pids /\ \A j \in 1..Len(Ins(p)) : shown[j] \in OutPids
  BY <1>3 DEF Neat
<1>6. Alike(p, shown)
  BY <1>3 DEF Neat, Alike
<1> QED BY <1>4, <1>5, <1>6 DEF Outs, shown

\* Pids that did not change pass the check.
LEMMA SamePass ==
  ASSUME LegalStreams, NEW t, TableOK(t), Distinct(t), Agrees(t), NEW p \in Programs,
         NEW out \in [1..Len(Ins(p)) -> OutPids]
  PROVE  \A n \in 0..(Len(Ins(p)) - 1) : CheckUpTo(t, p, out, out)[n].ok
<1> DEFINE N == Len(Ins(p)) - 1
           f == CheckUpTo(t, p, out, out)
           Bad == {n \in 0..N : ~f[n].ok}
<1>1. N \in Nat /\ N >= 1 /\ Len(Ins(p)) = N + 1
  BY ProgramFacts
<1>2. /\ f[0] = [ok |-> UsableOrKept(p, out, out, build_io_table(t), 1),
                 io |-> io_table_set_pmt_pid(build_io_table(t), p[1], Ins(p)[1], out[1]),
                 t |-> t]
      /\ \A n \in 1..N : f[n] = CheckNext(p, out, out, f[n - 1], n + 1)
  BY CheckSteps
<1>3. ASSUME NEW io, NEW k \in 1..Len(Ins(p)) PROVE UsableOrKept(p, out, out, io, k)
  BY DEF UsableOrKept, Changed
<1> HIDE DEF f
<1> SUFFICES ASSUME Bad # {} PROVE FALSE
  BY DEF f
<1>4. PICK n \in Bad : \A y \in Bad : n <= y
  <2>1. Bad \subseteq Nat
    BY <1>1
  <2> HIDE DEF Bad
  <2> QED BY <2>1, LeastNat
<1>5. n \in 0..N /\ ~f[n].ok
  BY <1>4
<1>6. CASE n = 0
  <2>1. 1 \in 1..Len(Ins(p))
    BY <1>1
  <2> QED BY <2>1, <1>2, <1>3, <1>5, <1>6
<1>7. CASE n # 0
  <2>1. n \in 1..N /\ n - 1 \in 0..N /\ n - 1 \notin Bad /\ n + 1 \in 1..Len(Ins(p))
    BY <1>1, <1>4, <1>5, <1>7
  <2>2. f[n - 1].ok /\ UsableOrKept(p, out, out, f[n - 1].io, n + 1)
    BY <1>3, <2>1
  <2>3. f[n] = CheckNext(p, out, out, f[n - 1], n + 1)
    BY <1>2, <2>1
  <2>4. f[n].ok
    BY <2>2, <2>3 DEF CheckNext
  <2> QED BY <1>5, <2>4
<1> QED BY <1>6, <1>7

LEMMA OfferAccepted ==
  ASSUME LegalStreams, EnoughPids, NEW t, TableOK(t), Distinct(t), Agrees(t), Within(t),
         NEW p \in Programs, ~t[p].sel, NEW shown, shown = prepare_program_output_pid(t, p),
         Cardinality(Selected(t)) # ProgramMax,
         channel_mapped_pid_count(t, p[1]) + program_mapped_pid_count(p) <= ChanPids,
         shown[2] \notin {0, Pad}, HasUnused(p) => \A k \in DOMAIN shown : shown[k] # Pad
  PROVE  check_and_select_program(t, p, shown, shown).ok
<1>1. shown \in [1..Len(Ins(p)) -> OutPids] /\ shown[1] \in Pids /\ Alike(p, shown)
  BY OfferNeat
<1>2. Without(t, p) = t
  <2>1. t \in [Programs -> Row] /\ t[p] \in Row
    BY DEF TableOK
  <2>2. t[p] = [t[p] EXCEPT !.sel = FALSE]
    BY <2>1 DEF Row
  <2> QED BY <2>1, <2>2 DEF Without
<1>3. Fits(t, p, shown)
  <2>1. Cardinality(Selected(t)) + 1 <= ProgramMax
    <3>1. Cardinality(Selected(t)) \in Nat
      BY CellFacts, FS_CardinalityType
    <3> QED BY <3>1, PidFacts DEF Within
  <2>2. valid_program_pids(p, shown)
    <3>1. DOMAIN shown = 1..Len(Ins(p)) /\ 2 \in 1..Len(Ins(p))
      BY <1>1, ProgramFacts
    <3>2. shown[2] \in Pids
      BY <1>1, <3>1 DEF OutPids
    <3>3. \A k \in 1..Len(Ins(p)) : Ins(p)[k] # Pad
      BY EntryFacts, PidFacts
    <3> QED BY <1>1, <3>1, <3>2, <3>3 DEF valid_program_pids, Alike, prog_pid_val_isvalid
  <2> QED BY <1>2, <2>1, <2>2 DEF Fits
<1>4. CheckOf(t, p, shown, shown).ok
  <2>1. Len(Ins(p)) - 1 \in 0..(Len(Ins(p)) - 1)
    BY ProgramFacts
  <2> QED BY <1>1, <1>2, <2>1, SamePass DEF CheckOf
<1>5. check_and_select_program(t, p, shown, shown) =
        IF t[p] = [sel |-> TRUE, out |-> shown] THEN [ok |-> TRUE, t |-> t]
        ELSE IF ~Fits(t, p, shown) THEN [ok |-> FALSE, t |-> t]
        ELSE IF ~CheckOf(t, p, shown, shown).ok
             THEN [ok |-> FALSE, t |-> Refused(t, p, CheckOf(t, p, shown, shown).t)]
        ELSE [ok |-> TRUE, t |-> Accepted(p, shown, CheckOf(t, p, shown, shown).t)]
  BY DEF check_and_select_program, check_user_output_pid, Fits, Without, CheckOf, Refused, Accepted
<1> QED BY <1>3, <1>4, <1>5

\* What a read answers can be chosen.
Answer(o) == o \in Seq(OutPids) /\ (o # <<>> => o[1] \in Pids)
LEMMA ShownLegal ==
  ASSUME LegalStreams, EnoughPids, NEW t, TableOK(t), Distinct(t), Agrees(t), NEW p \in Programs
  PROVE  Answer(prepare_program_output_pid(t, p))
<1> DEFINE s == prepare_program_output_pid(t, p)
<1>1. Len(Ins(p)) \in Nat
  BY ProgramFacts
<1>2. s \in [1..Len(Ins(p)) -> OutPids] /\ s[1] \in Pids
  <2>1. CASE ~t[p].sel
    BY <2>1, OfferNeat
  <2>2. CASE t[p].sel
    <3>1. s \in Seq(Nat) /\ Len(s) = Len(Ins(p)) /\ Chosen(p, s)
      BY <2>2 DEF TableOK, Row, prepare_program_output_pid
    <3> HIDE DEF s
    <3> QED BY <3>1, <1>1 DEF Chosen
  <2> QED BY <2>1, <2>2
<1> HIDE DEF s
<1>3. s \in Seq(OutPids)
  BY <1>1, <1>2
<1> QED BY <1>2, <1>3 DEF Answer, s

LEMMA OldLegal ==
  ASSUME LegalStreams, EnoughPids
  PROVE  SelectSpec => []Answer(old_prog)
<1>1. SelectInit => Answer(old_prog)
  BY DEF SelectInit, Answer
<1>2. SelectInv /\ Answer(old_prog) /\ [SelectNext]_SelectVars => Answer(old_prog)'
  <2> SUFFICES ASSUME SelectInv, Answer(old_prog), [SelectNext]_SelectVars
               PROVE  Answer(old_prog')
    BY DEF Answer
  <2>1. ASSUME NEW p \in Programs, Read(p) PROVE Answer(old_prog')
    BY <2>1, ShownLegal DEF Read, SelectInv
  <2>2. CASE UNCHANGED old_prog
    BY <2>2 DEF Answer
  <2> QED BY <2>1, <2>2 DEF SelectNext, Write, Deselect, Parse, SelectVars
<1> QED BY <1>1, <1>2, SelectInvHolds, PTL DEF SelectSpec

\* The PMT pids of selected programs and of those a read answers are legal, and so are
\* their other pids unless a user typed 0x0000 or the pad pid for a data entry: a free
\* pid is found whenever one is looked for (pick_free_pid); and no two streams have one
\* (valid_program_pids, check_user_output_pid).
THEOREM OutputPidsSound ==
  ASSUME LegalStreams, EnoughPids
  PROVE  SelectSpec => []PidsSound
<1>1. SelectInv /\ Answer(old_prog) => SelectTypeOK
  <2> SUFFICES ASSUME SelectInv, Answer(old_prog) PROVE SelectTypeOK
    OBVIOUS
  <2>1. TableOK(table) /\ table \in [Programs -> Row]
    BY DEF SelectInv, TableOK
  <2>2. ASSUME NEW p \in Programs
        PROVE  /\ table[p].sel \in BOOLEAN
               /\ DOMAIN table[p].out = DOMAIN Ins(p)
               /\ \A k \in DOMAIN Ins(p) :
                    table[p].out[k] \in (IF ~table[p].sel THEN Nat
                                         ELSE IF k = 1 THEN Pids ELSE OutPids)
    <3>1. table[p].sel \in BOOLEAN /\ table[p].out \in Seq(Nat)
      BY <2>1 DEF Row
    <3>2. /\ Len(table[p].out) = Len(Ins(p))
          /\ (table[p].sel => Chosen(p, table[p].out))
      BY <2>1 DEF TableOK
    <3>3. DOMAIN Ins(p) = 1..Len(Ins(p))
      BY ProgramFacts
    <3> QED BY <3>1, <3>2, <3>3 DEF Chosen
  <2> QED BY <2>1, <2>2 DEF SelectTypeOK, SelectInv, Answer
<1> QED BY <1>1, SelectInvHolds, OldLegal, OutputPidsApart, PTL DEF PidsSound

\* The pids a read offers are accepted when they are written back unchanged, unless
\* too many programs or pids are selected, or the offer has 0x0000 or the pad pid where
\* the check refuses it: for the PCR, and the pad pid beside unused entries
\* (prepare_program_output_pid, check_and_select_program, valid_program_pids).
THEOREM OffersAreAccepted ==
  ASSUME LegalStreams, EnoughPids
  PROVE  SelectSpec => []OfferIsAccepted
<1>1. SelectInv => OfferIsAccepted
  <2> SUFFICES ASSUME SelectInv, taint = "none", NEW p \in Programs \ Selected(table),
                      NEW shown, shown = prepare_program_output_pid(table, p),
                      Cardinality(Selected(table)) # ProgramMax,
                      ~(channel_mapped_pid_count(table, p[1]) + program_mapped_pid_count(p)
                          > ChanPids),
                      shown[2] \notin {0, Pad},
                      HasUnused(p) => \A k \in DOMAIN shown : shown[k] # Pad
               PROVE  check_and_select_program(table, p, shown, shown).ok
    BY DEF OfferIsAccepted
  <2>1. TableOK(table) /\ Distinct(table) /\ Agrees(table) /\ Within(table) /\ ~table[p].sel
    BY DEF SelectInv, Selected
  <2>2. channel_mapped_pid_count(table, p[1]) + program_mapped_pid_count(p) <= ChanPids
    <3>1. channel_mapped_pid_count(table, p[1]) \in Nat
      BY CellFacts, FS_CardinalityType
    <3>2. program_mapped_pid_count(p) \in Nat
      <4>1. Len(Ins(p)) \in Nat /\ Len(Ins(p)) >= 2
        BY ProgramFacts
      <4>2. Counted(p) \subseteq 1..Len(Ins(p)) /\ IsFiniteSet(1..Len(Ins(p)))
        BY <4>1, FS_Interval, SMTT(60) DEF Counted
      <4> QED BY <4>2, FS_Subset, FS_CardinalityType DEF program_mapped_pid_count
    <3> QED BY <3>1, <3>2, PidFacts
  <2> QED BY <2>1, <2>2, OfferAccepted
<1> QED BY <1>1, SelectInvHolds, PTL
=============================================================================
