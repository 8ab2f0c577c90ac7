---------------------------- MODULE CISlot_proofs ----------------------------
(***************************************************************************)
(* Machine-checked facts about CISlot, for every number of slots and every *)
(* number of retries, and whatever the sockets do.                         *)
(***************************************************************************)
EXTENDS CISlot, TLAPS

(* While a module is being started its slot is INSERTED or CISREAD, and a  *)
(* retry is left: AssertHolds, InUseIsShown and the range of               *)
(* nMaxRetryTimes are preserved only because of that.                      *)
Starting ==
    /\ at = "read" => emSlotState[u8Slot] = "INSERTED"
    /\ at = "config" => emSlotState[u8Slot] = "CISREAD"
    /\ at \in {"read", "config"} => nMaxRetryTimes \in Nat

Inv == TypeOK /\ Starting /\ AssertHolds /\ InUseIsShown

\* The loops of WVCI_TaskMonitoring stay inside g_CIMax_CIHandles (WV_CI.c:602,
\* 617) and start again at slot 0.
LEMMA NextSlotType ==
    ASSUME TypeOK, NEW loop, NEW after, NextSlot(loop, after)
    PROVE  u8Slot' \in Slots /\ at' \in {loop, after}
BY SlotAssumption DEF TypeOK, NextSlot, Slots

\* Marking a slot as empty, and nothing else, keeps what is claimed of slots
\* that are in use (STATUS_ResetCAM, WV_CI.c:955).
LEMMA ResetKeeps ==
    ASSUME Inv, ResetCAM, UNCHANGED <<hSlotHandle, m_u8SlotInserted>>
    PROVE  /\ emSlotState' \in [Slots -> States]
           /\ s_CAMStatusCapture' \in BOOLEAN
           /\ AssertHolds' /\ InUseIsShown'
BY DEF Inv, ResetCAM, TypeOK, States, AssertHolds, InUseIsShown

\* WVCI_Setup leaves all slots empty and nothing under way.
LEMMA InitInv == Init => Inv
BY SlotAssumption
   DEF Init, Inv, TypeOK, Starting, AssertHolds, InUseIsShown, Slots, States

\* Every step of the monitoring thread and of the sockets preserves Inv.
LEMMA InvStep == Inv /\ [Next]_vars => Inv'
<1> SUFFICES ASSUME Inv, [Next]_vars PROVE Inv'
  OBVIOUS
<1> USE DEF Inv
<1>1. ASSUME NEW s \in Slots, Socket(s) PROVE Inv'
  BY <1>1 DEF Socket, TypeOK, Starting, AssertHolds, InUseIsShown, slotVars, eventVars
<1>2. CASE GetINTEvent
  BY <1>2 DEF GetINTEvent, TypeOK, Starting, AssertHolds, InUseIsShown, slotVars
<1>3. CASE ReadRegister
  BY <1>3 DEF ReadRegister, TypeOK, Starting, AssertHolds, InUseIsShown, slotVars
<1>4. CASE InsertCAM
  <2>1. u8Slot' \in Slots /\ at' \in {"handle", "check"}
    BY <1>4, NextSlotType DEF InsertCAM
  <2> QED BY <1>4, <2>1 DEF InsertCAM, TypeOK, Starting, AssertHolds, InUseIsShown,
                            eventVars, States
<1>5. CASE RemoveCAM
  <2>1. u8Slot' \in Slots /\ at' \in {"handle", "check"}
    BY <1>5, NextSlotType DEF RemoveCAM
  <2>2. /\ hSlotHandle' \in [Slots -> BOOLEAN] /\ m_ucSlotInited' \in [Slots -> BOOLEAN]
        /\ \A s \in Slots \ {u8Slot} : hSlotHandle'[s] = hSlotHandle[s]
    BY <1>5 DEF RemoveCAM, TypeOK
  <2>3. /\ emSlotState' = [emSlotState EXCEPT ![u8Slot] = "EMPTY"]
        /\ m_u8SlotInserted' = [m_u8SlotInserted EXCEPT ![u8Slot] = FALSE]
    BY <1>5 DEF RemoveCAM
  <2>4. AssertHolds' /\ InUseIsShown'
    BY <2>2, <2>3 DEF TypeOK, AssertHolds, InUseIsShown
  <2>5. emSlotState' \in [Slots -> States] /\ m_u8SlotInserted' \in [Slots -> BOOLEAN]
    BY <2>3 DEF TypeOK, States
  <2> QED BY <1>5, <2>1, <2>2, <2>4, <2>5 DEF RemoveCAM, TypeOK, Starting, eventVars
<1>6. CASE NoEvent
  <2>1. u8Slot' \in Slots /\ at' \in {"handle", "check"}
    BY <1>6, NextSlotType DEF NoEvent
  <2> QED BY <1>6, <2>1 DEF NoEvent, TypeOK, Starting, AssertHolds, InUseIsShown,
                            eventVars, slotVars
<1>7. CASE SkipEmpty \/ Service
  <2>1. u8Slot' \in Slots /\ at' \in {"check", "sleep"}
    BY <1>7, NextSlotType DEF SkipEmpty, Service
  <2>2. m_ucSlotInited' \in [Slots -> BOOLEAN]
    BY <1>7 DEF SkipEmpty, Service, TypeOK, slotVars
  <2>3. UNCHANGED <<plugged, eventVars, emSlotState, hSlotHandle, m_u8SlotInserted,
                    s_nMAXTRYREAD, nMaxRetryTimes>>
    BY <1>7 DEF SkipEmpty, Service, slotVars
  <2> QED BY <2>1, <2>2, <2>3 DEF TypeOK, Starting, AssertHolds, InUseIsShown, eventVars
<1>8. CASE StartReading
  BY <1>8, SlotAssumption
     DEF StartReading, Checking, TypeOK, Starting, AssertHolds, InUseIsShown,
         eventVars, slotVars
<1>9. CASE ReadFails
  <2>1. nMaxRetryTimes' \in -1 .. MAX_RETRY_TIMES
    <3>1. nMaxRetryTimes \in Nat /\ nMaxRetryTimes \in -1 .. MAX_RETRY_TIMES
      BY <1>9 DEF ReadFails, TypeOK, Starting
    <3>2. nMaxRetryTimes' = nMaxRetryTimes - 1
      BY <1>9 DEF ReadFails
    <3> QED BY <3>1, <3>2, SlotAssumption
  <2>2. CASE nMaxRetryTimes' < 0
    <3>1. u8Slot' \in Slots /\ at' \in {"check", "sleep"}
      BY <1>9, <2>2, NextSlotType DEF ReadFails
    <3>2. /\ emSlotState' \in [Slots -> States] /\ s_CAMStatusCapture' \in BOOLEAN
          /\ AssertHolds' /\ InUseIsShown'
      BY <1>9, <2>2, ResetKeeps DEF ReadFails
    <3> QED BY <1>9, <2>1, <3>1, <3>2 DEF ReadFails, TypeOK, Starting
  <2>3. CASE ~(nMaxRetryTimes' < 0)
    BY <1>9, <2>1, <2>3 DEF ReadFails, TypeOK, Starting, AssertHolds, InUseIsShown
  <2> QED BY <2>2, <2>3
<1>10. CASE ReadOk
  BY <1>10 DEF ReadOk, TypeOK, Starting, AssertHolds, InUseIsShown, eventVars, States
<1>11. CASE ConfigOk
  <2>1. u8Slot' \in Slots /\ at' \in {"check", "sleep"}
    BY <1>11, NextSlotType DEF ConfigOk
  <2> QED BY <1>11, <2>1 DEF ConfigOk, TypeOK, Starting, AssertHolds, InUseIsShown,
                             eventVars, States
<1>12. CASE ConfigFails
  <2>1. nMaxRetryTimes' \in -1 .. MAX_RETRY_TIMES
    <3>1. nMaxRetryTimes \in Nat /\ nMaxRetryTimes \in -1 .. MAX_RETRY_TIMES
      BY <1>12 DEF ConfigFails, TypeOK, Starting
    <3>2. nMaxRetryTimes' = nMaxRetryTimes - 1
      BY <1>12 DEF ConfigFails
    <3> QED BY <3>1, <3>2, SlotAssumption
  <2>2. AssertHolds' /\ InUseIsShown'
    BY <1>12 DEF ConfigFails, TypeOK, AssertHolds, InUseIsShown
  <2>3. CASE nMaxRetryTimes' > 0
    BY <1>12, <2>1, <2>2, <2>3 DEF ConfigFails, TypeOK, Starting, eventVars
  <2>4. CASE ~(nMaxRetryTimes' > 0)
    <3>1. u8Slot' \in Slots /\ at' \in {"check", "sleep"}
      BY <1>12, <2>4, NextSlotType DEF ConfigFails
    <3> QED BY <1>12, <2>1, <2>2, <3>1 DEF ConfigFails, TypeOK, Starting, eventVars
  <2> QED BY <2>3, <2>4
<1>13. CASE GiveUp
  <2>1. u8Slot' \in Slots /\ at' \in {"check", "sleep"}
    BY <1>13, NextSlotType DEF GiveUp
  <2>2. s_nMAXTRYREAD' \in [Slots -> 0 .. MAX_TRY_READ - 1]
    <3>1. \A n \in Nat : n % MAX_TRY_READ \in 0 .. MAX_TRY_READ - 1
      BY SlotAssumption
    <3>2. s_nMAXTRYREAD[u8Slot] + 1 \in Nat
      BY SlotAssumption DEF TypeOK
    <3> QED BY <1>13, <3>1, <3>2 DEF GiveUp, TypeOK
  <2>3. CASE s_nMAXTRYREAD'[u8Slot] = 0
    <3>1. /\ emSlotState' \in [Slots -> States] /\ s_CAMStatusCapture' \in BOOLEAN
          /\ AssertHolds' /\ InUseIsShown'
      BY <1>13, <2>3, ResetKeeps DEF GiveUp
    <3> QED BY <1>13, <2>1, <2>2, <3>1 DEF GiveUp, TypeOK, Starting
  <2>4. CASE s_nMAXTRYREAD'[u8Slot] # 0
    BY <1>13, <2>1, <2>2, <2>4 DEF GiveUp, TypeOK, Starting, AssertHolds, InUseIsShown
  <2> QED BY <2>3, <2>4
<1>14. CASE ServiceFails
  <2>1. u8Slot' \in Slots /\ at' \in {"check", "sleep"}
    BY <1>14, NextSlotType DEF ServiceFails
  <2>2. /\ emSlotState' \in [Slots -> States] /\ s_CAMStatusCapture' \in BOOLEAN
        /\ AssertHolds' /\ InUseIsShown'
    BY <1>14, ResetKeeps DEF ServiceFails
  <2> QED BY <1>14, <2>1, <2>2 DEF ServiceFails, TypeOK, Starting
<1>15. CASE UNCHANGED vars
  BY <1>15 DEF vars, slotVars, eventVars, TypeOK, Starting, AssertHolds, InUseIsShown
<1> QED
  BY <1>1, <1>2, <1>3, <1>4, <1>5, <1>6, <1>7, <1>8, <1>9, <1>10, <1>11, <1>12, <1>13,
     <1>14, <1>15 DEF Next, TaskMonitoring

\* Every variable keeps its type: the slot index stays in the table and the
\* retry counters stay in their ranges.
THEOREM TypeCorrect == Spec => []TypeOK
<1>1. Inv => TypeOK
  BY DEF Inv
<1> QED BY <1>1, InitInv, InvStep, PTL DEF Spec

\* The assert of CI_ModuleRemoved (ci.c:98) never fires.
THEOREM AssertNeverFires == Spec => []AssertHolds
<1>1. Inv => AssertHolds
  BY DEF Inv
<1> QED BY <1>1, InitInv, InvStep, PTL DEF Spec

\* A slot in use is shown as inserted (WV_CI.c:773, 823).
THEOREM InUseShown == Spec => []InUseIsShown
<1>1. Inv => InUseIsShown
  BY DEF Inv
<1> QED BY <1>1, InitInv, InvStep, PTL DEF Spec

=============================================================================
