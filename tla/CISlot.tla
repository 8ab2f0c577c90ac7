-------------------------------- MODULE CISlot --------------------------------
(***************************************************************************)
(* The life of the modules in the sockets: WVCI_TaskMonitoring looks for   *)
(* insertions and removals twice a second, then runs CIMax_CheckSlot on    *)
(* every slot that is not empty.  One thread serves all slots, and         *)
(* starting one module keeps it busy for many seconds; the sockets change  *)
(* at any moment.                                                          *)
(***************************************************************************)
EXTENDS Integers

CONSTANTS
    WVCI_MAX_SLOT_NUM,
    MAX_RETRY_TIMES,    \* nMaxRetryTimes, 5 in the code
    MAX_TRY_READ,       \* rounds in CIMAX_CISREAD, 3 in the code
    SteadySockets       \* a socket changes at most once between two polls

ASSUME SlotAssumption ==
    /\ {WVCI_MAX_SLOT_NUM, MAX_RETRY_TIMES, MAX_TRY_READ} \subseteq Nat \ {0}
    /\ SteadySockets \in BOOLEAN

VARIABLES
    plugged,            \* the socket, as FPGA_checkCiRegister reports it
    s_CAMLastStatusReg,
    s_CAMStatusCapture,
    nCAMStatusRegister, \* the register as it was read to find the events
    emSlotState,
    hSlotHandle,        \* CiSlot[s].hSlotHandle is set
    m_u8SlotInserted,   \* what the web page is told
    m_ucSlotInited,     \* CA_OK came and no CI_SLOT_EMPTY since
    s_nMAXTRYREAD,
    nMaxRetryTimes,     \* of the slot being started
    at,                 \* where WVCI_TaskMonitoring is
    u8Slot              \* the slot its loop is at

slotVars == <<emSlotState, hSlotHandle, m_u8SlotInserted, m_ucSlotInited>>
eventVars == <<s_CAMLastStatusReg, s_CAMStatusCapture, nCAMStatusRegister>>
vars == <<plugged, eventVars, slotVars, s_nMAXTRYREAD, nMaxRetryTimes, at, u8Slot>>

Slots == 0 .. WVCI_MAX_SLOT_NUM - 1
States == {"EMPTY", "INSERTED", "CISREAD", "CISTART"}

-----------------------------------------------------------------------------
(* The sockets.                                                            *)

Socket(s) ==
    /\ SteadySockets => s_CAMLastStatusReg[s] = plugged[s] /\ at # "events"
    /\ plugged' = [plugged EXCEPT ![s] = ~@]
    /\ UNCHANGED <<eventVars, slotVars, s_nMAXTRYREAD, nMaxRetryTimes, at, u8Slot>>

-----------------------------------------------------------------------------
(* The events.                                                             *)

\* The loop goes on with the next slot; after the last one comes what follows it.
NextSlot(loop, after) ==
    IF u8Slot + 1 \in Slots THEN u8Slot' = u8Slot + 1 /\ at' = loop
    ELSE u8Slot' = 0 /\ at' = after

\* A change since the last poll is added to what STATUS_ResetCAM left.
GetINTEvent ==
    /\ at = "sleep"
    /\ s_CAMStatusCapture' = (s_CAMStatusCapture \/ s_CAMLastStatusReg # plugged)
    /\ s_CAMLastStatusReg' = plugged
    /\ at' = IF s_CAMStatusCapture' THEN "events" ELSE "check"
    /\ UNCHANGED <<plugged, nCAMStatusRegister, slotVars, s_nMAXTRYREAD, nMaxRetryTimes, u8Slot>>

\* ClearINTEvent and SYSGetCAMRegister.
ReadRegister ==
    /\ at = "events"
    /\ s_CAMStatusCapture' = FALSE
    /\ nCAMStatusRegister' = plugged
    /\ at' = "handle"
    /\ UNCHANGED <<plugged, s_CAMLastStatusReg, slotVars, s_nMAXTRYREAD, nMaxRetryTimes, u8Slot>>

InsertCAM ==
    /\ at = "handle"
    /\ emSlotState[u8Slot] = "EMPTY" /\ nCAMStatusRegister[u8Slot]
    /\ emSlotState' = [emSlotState EXCEPT ![u8Slot] = "INSERTED"]
    /\ m_u8SlotInserted' = [m_u8SlotInserted EXCEPT ![u8Slot] = TRUE]
    /\ NextSlot("handle", "check")
    /\ UNCHANGED <<plugged, eventVars, hSlotHandle, m_ucSlotInited, s_nMAXTRYREAD, nMaxRetryTimes>>

\* Mutant of RemoveCAM: the state is left to the CIMAX_CISTART case.
RemoveCAMStarted ==
    /\ at = "handle"
    /\ emSlotState[u8Slot] # "EMPTY" /\ ~nCAMStatusRegister[u8Slot]
    /\ IF emSlotState[u8Slot] = "CISTART"
       THEN /\ hSlotHandle' = [hSlotHandle EXCEPT ![u8Slot] = FALSE]
            /\ m_ucSlotInited' = [m_ucSlotInited EXCEPT ![u8Slot] = FALSE]
            /\ emSlotState' = [emSlotState EXCEPT ![u8Slot] = "EMPTY"]
       ELSE UNCHANGED <<hSlotHandle, m_ucSlotInited, emSlotState>>
    /\ m_u8SlotInserted' = [m_u8SlotInserted EXCEPT ![u8Slot] = FALSE]
    /\ NextSlot("handle", "check")
    /\ UNCHANGED <<plugged, eventVars, s_nMAXTRYREAD, nMaxRetryTimes>>

\* Mutant of RemoveCAM: CI_ModuleRemoved alone, the slot stays as it was.
RemoveCAMNoState ==
    /\ at = "handle"
    /\ emSlotState[u8Slot] # "EMPTY" /\ ~nCAMStatusRegister[u8Slot]
    /\ IF emSlotState[u8Slot] = "CISTART"
       THEN /\ hSlotHandle' = [hSlotHandle EXCEPT ![u8Slot] = FALSE]
            /\ m_ucSlotInited' = [m_ucSlotInited EXCEPT ![u8Slot] = FALSE]
       ELSE UNCHANGED <<hSlotHandle, m_ucSlotInited>>
    /\ m_u8SlotInserted' = [m_u8SlotInserted EXCEPT ![u8Slot] = FALSE]
    /\ NextSlot("handle", "check")
    /\ UNCHANGED <<plugged, eventVars, emSlotState, s_nMAXTRYREAD, nMaxRetryTimes>>

\* Only a started module is reported to the stack (CI_ModuleRemoved).
RemoveCAM ==
    /\ at = "handle"
    /\ emSlotState[u8Slot] # "EMPTY" /\ ~nCAMStatusRegister[u8Slot]
    /\ IF emSlotState[u8Slot] = "CISTART"
       THEN /\ hSlotHandle' = [hSlotHandle EXCEPT ![u8Slot] = FALSE]
            /\ m_ucSlotInited' = [m_ucSlotInited EXCEPT ![u8Slot] = FALSE]
       ELSE UNCHANGED <<hSlotHandle, m_ucSlotInited>>
    /\ emSlotState' = [emSlotState EXCEPT ![u8Slot] = "EMPTY"]
    /\ m_u8SlotInserted' = [m_u8SlotInserted EXCEPT ![u8Slot] = FALSE]
    /\ NextSlot("handle", "check")
    /\ UNCHANGED <<plugged, eventVars, s_nMAXTRYREAD, nMaxRetryTimes>>

NoEvent ==
    /\ at = "handle"
    /\ (emSlotState[u8Slot] = "EMPTY") # nCAMStatusRegister[u8Slot]
    /\ NextSlot("handle", "check")
    /\ UNCHANGED <<plugged, eventVars, slotVars, s_nMAXTRYREAD, nMaxRetryTimes>>

-----------------------------------------------------------------------------
(* CIMax_CheckSlot.                                                        *)

Checking(state) == at = "check" /\ emSlotState[u8Slot] = state

\* Mutant of ResetCAM: the status is not marked as changed.
ResetCAMSilent ==
    /\ emSlotState' = [emSlotState EXCEPT ![u8Slot] = "EMPTY"]
    /\ UNCHANGED s_CAMStatusCapture

\* STATUS_ResetCAM empties the slot and has the next poll look at it again.
ResetCAM ==
    /\ emSlotState' = [emSlotState EXCEPT ![u8Slot] = "EMPTY"]
    /\ s_CAMStatusCapture' = TRUE

SkipEmpty ==
    /\ Checking("EMPTY")
    /\ NextSlot("check", "sleep")
    /\ UNCHANGED <<plugged, eventVars, slotVars, s_nMAXTRYREAD, nMaxRetryTimes>>

StartReading ==
    /\ Checking("INSERTED")
    /\ nMaxRetryTimes' = MAX_RETRY_TIMES
    /\ at' = "read"
    /\ UNCHANGED <<plugged, eventVars, slotVars, s_nMAXTRYREAD, u8Slot>>

ReadFails ==
    /\ at = "read"
    /\ nMaxRetryTimes' = nMaxRetryTimes - 1
    /\ UNCHANGED <<plugged, hSlotHandle, m_u8SlotInserted, m_ucSlotInited, s_CAMLastStatusReg,
                   nCAMStatusRegister, s_nMAXTRYREAD>>
    /\ IF nMaxRetryTimes' < 0
       THEN ResetCAM /\ NextSlot("check", "sleep")
       ELSE UNCHANGED <<emSlotState, s_CAMStatusCapture, at, u8Slot>>

\* Out of a socket that is empty only 0xFF is read, and that is refused.
ReadOk ==
    /\ at = "read"
    /\ plugged[u8Slot]
    /\ emSlotState' = [emSlotState EXCEPT ![u8Slot] = "CISREAD"]
    /\ at' = "config"
    /\ UNCHANGED <<plugged, eventVars, hSlotHandle, m_u8SlotInserted, m_ucSlotInited,
                   s_nMAXTRYREAD, nMaxRetryTimes, u8Slot>>

\* CI_CheckConfig.
ConfigOk ==
    /\ at = "config"
    /\ plugged[u8Slot]
    /\ hSlotHandle' = [hSlotHandle EXCEPT ![u8Slot] = TRUE]
    /\ emSlotState' = [emSlotState EXCEPT ![u8Slot] = "CISTART"]
    /\ NextSlot("check", "sleep")
    /\ UNCHANGED <<plugged, eventVars, m_u8SlotInserted, m_ucSlotInited, s_nMAXTRYREAD,
                   nMaxRetryTimes>>

ConfigFails ==
    /\ at = "config"
    /\ hSlotHandle' = [hSlotHandle EXCEPT ![u8Slot] = TRUE]
    /\ nMaxRetryTimes' = nMaxRetryTimes - 1
    /\ IF nMaxRetryTimes' > 0 THEN UNCHANGED <<at, u8Slot>> ELSE NextSlot("check", "sleep")
    /\ UNCHANGED <<plugged, eventVars, emSlotState, m_u8SlotInserted, m_ucSlotInited,
                   s_nMAXTRYREAD>>

\* Mutant of GiveUp: the counter is not kept from one round to the next.
GiveUpNever ==
    /\ Checking("CISREAD")
    /\ s_nMAXTRYREAD' = [s_nMAXTRYREAD EXCEPT ![u8Slot] = 1]
    /\ NextSlot("check", "sleep")
    /\ UNCHANGED <<plugged, eventVars, slotVars, nMaxRetryTimes>>

\* Mutant of GiveUp: the counter is not put back to 0.
GiveUpKeepsCount ==
    /\ Checking("CISREAD")
    /\ s_nMAXTRYREAD' = [s_nMAXTRYREAD EXCEPT ![u8Slot] = @ + 1]
    /\ IF s_nMAXTRYREAD'[u8Slot] >= MAX_TRY_READ THEN ResetCAM
       ELSE UNCHANGED <<emSlotState, s_CAMStatusCapture>>
    /\ NextSlot("check", "sleep")
    /\ UNCHANGED <<plugged, s_CAMLastStatusReg, nCAMStatusRegister, hSlotHandle,
                   m_u8SlotInserted, m_ucSlotInited, nMaxRetryTimes>>

\* Nothing is tried in CIMAX_CISREAD: after three rounds the slot starts over.
GiveUp ==
    /\ Checking("CISREAD")
    /\ s_nMAXTRYREAD' = [s_nMAXTRYREAD EXCEPT ![u8Slot] = (@ + 1) % MAX_TRY_READ]
    /\ IF s_nMAXTRYREAD'[u8Slot] = 0 THEN ResetCAM
       ELSE UNCHANGED <<emSlotState, s_CAMStatusCapture>>
    /\ NextSlot("check", "sleep")
    /\ UNCHANGED <<plugged, s_CAMLastStatusReg, nCAMStatusRegister, hSlotHandle,
                   m_u8SlotInserted, m_ucSlotInited, nMaxRetryTimes>>

\* CI_CheckSlot: the module may have announced its CA systems (CA_OK).
Service ==
    /\ Checking("CISTART")
    /\ m_ucSlotInited' \in {m_ucSlotInited, [m_ucSlotInited EXCEPT ![u8Slot] = TRUE]}
    /\ NextSlot("check", "sleep")
    /\ UNCHANGED <<plugged, eventVars, emSlotState, hSlotHandle, m_u8SlotInserted,
                   s_nMAXTRYREAD, nMaxRetryTimes>>

\* CI_CheckSlot could not write.
ServiceFails ==
    /\ Checking("CISTART")
    /\ ResetCAM
    /\ NextSlot("check", "sleep")
    /\ UNCHANGED <<plugged, s_CAMLastStatusReg, nCAMStatusRegister, hSlotHandle,
                   m_u8SlotInserted, m_ucSlotInited, s_nMAXTRYREAD, nMaxRetryTimes>>

-----------------------------------------------------------------------------
\* WVCI_Setup; "when booting, let it check".
Init ==
    /\ plugged \in [Slots -> BOOLEAN]
    /\ s_CAMLastStatusReg = [s \in Slots |-> FALSE]
    /\ s_CAMStatusCapture = TRUE
    /\ nCAMStatusRegister = [s \in Slots |-> FALSE]
    /\ emSlotState = [s \in Slots |-> "EMPTY"]
    /\ hSlotHandle = [s \in Slots |-> FALSE]
    /\ m_u8SlotInserted = [s \in Slots |-> FALSE]
    /\ m_ucSlotInited = [s \in Slots |-> FALSE]
    /\ s_nMAXTRYREAD = [s \in Slots |-> 0]
    /\ nMaxRetryTimes = 0
    /\ at = "sleep"
    /\ u8Slot = 0

TaskMonitoring ==
    \/ GetINTEvent \/ ReadRegister \/ InsertCAM \/ RemoveCAM \/ NoEvent
    \/ SkipEmpty \/ StartReading \/ ReadFails \/ ReadOk \/ ConfigOk \/ ConfigFails
    \/ GiveUp \/ Service \/ ServiceFails

Next == TaskMonitoring \/ \E s \in Slots : Socket(s)

Spec == Init /\ [][Next]_vars

\* The thread runs; CI_CheckSlot returns, because a module pauses now and then.
FairSpec == Spec /\ WF_vars(TaskMonitoring)

-----------------------------------------------------------------------------
TypeOK ==
    /\ {plugged, s_CAMLastStatusReg, nCAMStatusRegister, hSlotHandle, m_u8SlotInserted,
        m_ucSlotInited} \subseteq [Slots -> BOOLEAN]
    /\ s_CAMStatusCapture \in BOOLEAN
    /\ emSlotState \in [Slots -> States]
    /\ s_nMAXTRYREAD \in [Slots -> 0 .. MAX_TRY_READ - 1]
    /\ nMaxRetryTimes \in -1 .. MAX_RETRY_TIMES
    /\ at \in {"sleep", "events", "handle", "check", "read", "config"}
    /\ u8Slot \in Slots

\* The assert of CI_ModuleRemoved (ci.c:98) never fires: a slot is in
\* CIMAX_CISTART only with the handle that CI_CheckConfig stored for it.
AssertHolds == \A s \in Slots : emSlotState[s] = "CISTART" => hSlotHandle[s]

\* WVCI_GetCIStatus and WVCI_IsModuleInserted do not contradict each other: a
\* slot that is in use is shown as inserted (WV_CI.c:773 and 823).
InUseIsShown == \A s \in Slots : emSlotState[s] # "EMPTY" => m_u8SlotInserted[s]

\* A module that is put in is taken up and one that is taken out is dropped,
\* whatever the other sockets do and however often its start has failed:
\* STATUS_ResetCAM never leaves a module in an empty slot for good.
Noticed ==
    \A s \in Slots :
        /\ plugged[s] /\ emSlotState[s] = "EMPTY" ~> ~plugged[s] \/ emSlotState[s] # "EMPTY"
        /\ ~plugged[s] /\ emSlotState[s] # "EMPTY" ~> plugged[s] \/ emSlotState[s] = "EMPTY"

\* The start of a module ends: it works or the slot is given up.
StartEnds ==
    \A s \in Slots :
        emSlotState[s] \in {"INSERTED", "CISREAD"} ~> emSlotState[s] \in {"EMPTY", "CISTART"}

\* "This function has to be called by a PCMCIA driver, when a module has been
\* removed" (ci.h:371): once a removal has been handled the stack was told, and
\* no CA systems are shown for the empty socket.
RemovalReported ==
    \A s \in Slots :
        at = "sleep" /\ ~s_CAMStatusCapture /\ ~plugged[s] /\ ~s_CAMLastStatusReg[s]
            /\ emSlotState[s] = "EMPTY"
        => ~m_ucSlotInited[s]

=============================================================================
