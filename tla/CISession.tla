------------------------------ MODULE CISession ------------------------------
(***************************************************************************)
(* The session layer of one Common Interface slot: CiSlot[n] of ci.c, the  *)
(* resources registered by CI_Init (CI_ResMgr.c, CI_AppInfo.c,             *)
(* CI_CaSupport.c, CI_DateTime.c, CI_MMI.c) and the threads that send      *)
(* CA_PMTs into it (WV_CI.c).                                              *)
(*                                                                         *)
(* The monitoring thread (WVCI_TaskMonitoring) is the only one that parses *)
(* what the module sends; it takes no lock, and one SPDU is one step here. *)
(* Every thread of Senders runs WVCI_UpdateSetting at any moment: its      *)
(* reads of CiSlot interleave with those steps.  The module on the other   *)
(* side is arbitrary: it may send any SPDU for any session at any time.    *)
(***************************************************************************)
EXTENDS Naturals, Sequences, FiniteSets

CONSTANTS
    MAX_CI_SESSIONS,    \* entries of CiSessions; handle 0 is never given out
    CI_T_SENDQSIZE,     \* what the send queue holds, counted in SPDUs
    Senders,            \* threads that call WVCI_UpdateSetting
    TaskProcess,        \* the one of them that runs WVCI_PMTCheck
    CamRequests,        \* resource identifiers the module asks for
    ProgramCounts       \* BOUND: how many programs a slot has to descramble

ASSUME SessionAssumption ==
    /\ MAX_CI_SESSIONS \in Nat \ {0}
    /\ CI_T_SENDQSIZE \in Nat \ {0}
    /\ TaskProcess \in Senders
    /\ ProgramCounts \subseteq Nat

VARIABLES
    slot,           \* what the slot is for this layer, see Slots
    linkUp,         \* IOBuffer_Host2CI.wBufferSize >= 16: packets are queued
    fSlotInUse,     \* CiSessions[h].fSlotInUse
    pResource,      \* CiSessions[h].pResource
    current,        \* the "current session handle" fields, one per resource
    sendq,          \* IOBuffer_Host2CI.CI_T_SENDQ, one entry per SPDU
    ucIsNeedSend,   \* AutoSendPMT[n].ucIsNeedSend
    owed,           \* history: a CA_OK after which no sender built anything
    pc,             \* where each sender is
    modes,          \* the CA_PMTs each sender still has to generate
    sess            \* the session a sender is about to use

tableVars  == <<fSlotInUse, pResource, current>>
senderVars == <<pc, modes, sess>>
vars == <<slot, linkUp, tableVars, sendq, ucIsNeedSend, owed, senderVars>>

\* STARTING: CI_CheckConfig is under way (CIMAX_INSERTED and CIMAX_CISREAD).
Slots == {"EMPTY", "STARTING", "CISTART"}

Handles == 0 .. MAX_CI_SESSIONS - 1

Resources == {"ResMgr", "AppInfo", "AppInfoV2", "CaSupport", "DateTime", "MMI"}
Fields    == Resources \ {"AppInfoV2"}
NULL      == "NULL"

\* Version 2 of application info is served by the functions of version 1.
Field(r) == IF r = "AppInfoV2" THEN "AppInfo" ELSE r

\* ca_pmt_list_management of a CA_PMT; "NONE" in every other SPDU.
Modes == {"ONLY", "FIRST", "MORE", "LAST"}

SPDUs == [spdu : {"OPEN_OK", "OPEN_F0", "CLOSE_RESPONSE", "CLOSE_REQUEST",
                  "PROFILE_ENQ", "PROFILE_CHANGE", "PROFILE", "APPINFO_ENQ",
                  "CAINFO_ENQ", "CA_PMT", "DISPLAY_REPLY", "MMI_CLOSE"},
          sess : Handles,
          mode : Modes \cup {"NONE"}]

SPDU(what, h) == [spdu |-> what, sess |-> h, mode |-> "NONE"]
CaPmt(h, m)   == [spdu |-> "CA_PMT", sess |-> h, mode |-> m]

-----------------------------------------------------------------------------
(* The send queue.                                                         *)

\* Mutant of Enqueue: CI_WriteData without its search for a free entry.
EnqueueUnbounded(q, up, s) == IF up THEN Append(q, s) ELSE q

\* SendTransportPacket does nothing before the buffer size is agreed, and
\* CI_WriteData drops what finds no free entry.
Enqueue(q, up, s) ==
    IF up /\ Len(q) < CI_T_SENDQSIZE THEN Append(q, s) ELSE q

Send1(s)      == sendq' = Enqueue(sendq, linkUp, s)
Send2(s1, s2) == sendq' = Enqueue(Enqueue(sendq, linkUp, s1), linkUp, s2)

-----------------------------------------------------------------------------
(* Sessions: the OPEN_REQUEST, CLOSE_REQUEST and CLOSE_RESPONSE cases of   *)
(* Parse_SPDU.                                                             *)

\* Mutant of FirstFree: the search does not look at fSlotInUse.
FirstFreeBlind(h) == h \in Handles \ {0} /\ h = 1

\* The first handle from 1 on that is not in use.
FirstFree(h) ==
    /\ h \in Handles \ {0}
    /\ ~fSlotInUse[h]
    /\ \A k \in Handles \ {0} : k < h => fSlotInUse[k]

\* What Connect sends on the new session, "" for nothing.
Greeting(r) ==
    CASE r = "ResMgr"              -> "PROFILE_ENQ"
      [] Field(r) = "AppInfo"      -> "APPINFO_ENQ"
      [] r = "CaSupport"           -> "CAINFO_ENQ"
      [] OTHER                     -> ""

\* MMI_Connect is the only one that refuses.
Refuses(r) == r = "MMI" /\ current["MMI"] # 0

OpenNoHandle ==
    /\ slot = "CISTART"
    /\ \A h \in Handles \ {0} : fSlotInUse[h]
    /\ Send1(SPDU("OPEN_F0", 0))
    /\ UNCHANGED <<slot, linkUp, tableVars, ucIsNeedSend, owed, senderVars>>

\* Mutant of OpenUnknown: the loop over g_CiResources ends without an answer.
OpenUnknownSilent(r) ==
    /\ slot = "CISTART"
    /\ r \notin Resources
    /\ UNCHANGED vars

OpenUnknown(r) ==
    /\ slot = "CISTART"
    /\ r \notin Resources
    /\ \E h \in Handles : FirstFree(h) /\ Send1(SPDU("OPEN_F0", h))
    /\ UNCHANGED <<slot, linkUp, tableVars, ucIsNeedSend, owed, senderVars>>

\* The positive response is sent before Connect is asked.
OpenRefused(r) ==
    /\ slot = "CISTART"
    /\ r \in Resources
    /\ Refuses(r)
    /\ \E h \in Handles :
        /\ FirstFree(h)
        /\ Send2(SPDU("OPEN_OK", h), SPDU("OPEN_F0", h))
        /\ fSlotInUse' = [fSlotInUse EXCEPT ![h] = FALSE]
        /\ pResource' = [pResource EXCEPT ![h] = NULL]
    /\ UNCHANGED <<slot, linkUp, current, ucIsNeedSend, owed, senderVars>>

\* Mutant of OpenAccepted: Connect is asked before the response is sent.
OpenAcceptedConnectFirst(r) ==
    /\ slot = "CISTART"
    /\ r \in Resources
    /\ ~Refuses(r)
    /\ \E h \in Handles :
        /\ FirstFree(h)
        /\ IF Greeting(r) = "" THEN Send1(SPDU("OPEN_OK", h))
           ELSE Send2(SPDU(Greeting(r), h), SPDU("OPEN_OK", h))
        /\ fSlotInUse' = [fSlotInUse EXCEPT ![h] = TRUE]
        /\ pResource' = [pResource EXCEPT ![h] = r]
        /\ current' = [current EXCEPT ![Field(r)] = h]
    /\ UNCHANGED <<slot, linkUp, ucIsNeedSend, owed, senderVars>>

OpenAccepted(r) ==
    /\ slot = "CISTART"
    /\ r \in Resources
    /\ ~Refuses(r)
    /\ \E h \in Handles :
        /\ FirstFree(h)
        /\ IF Greeting(r) = "" THEN Send1(SPDU("OPEN_OK", h))
           ELSE Send2(SPDU("OPEN_OK", h), SPDU(Greeting(r), h))
        /\ fSlotInUse' = [fSlotInUse EXCEPT ![h] = TRUE]
        /\ pResource' = [pResource EXCEPT ![h] = r]
        /\ current' = [current EXCEPT ![Field(r)] = h]
    /\ UNCHANGED <<slot, linkUp, ucIsNeedSend, owed, senderVars>>

\* Mutant of Closed: CaSupport_Close and MMI_Close do nothing, like the others.
ClosedKeepsField(h) == current

\* Mutant of Closed: MMI_Close and CaSupport_Close run for every resource.
ClosedAny(h) == [f \in Fields |-> IF f \in {"CaSupport", "MMI"} THEN 0 ELSE current[f]]

\* Close of a resource: CA support and MMI clear their field whatever the
\* session is, the other resources keep it.
Closed(h) ==
    IF pResource[h] \in {"CaSupport", "MMI"}
    THEN [current EXCEPT ![pResource[h]] = 0] ELSE current

\* Mutant of Free: pResource is not cleared with fSlotInUse.
FreeKeepsResource(h) ==
    /\ current' = Closed(h)
    /\ fSlotInUse' = [fSlotInUse EXCEPT ![h] = FALSE]
    /\ UNCHANGED pResource

Free(h) ==
    /\ current' = Closed(h)
    /\ pResource' = [pResource EXCEPT ![h] = NULL]
    /\ fSlotInUse' = [fSlotInUse EXCEPT ![h] = FALSE]

\* Mutant of CloseRequest: the response is sent, the session is kept.
CloseRequestKeeps(h) ==
    /\ slot = "CISTART"
    /\ Send1(SPDU("CLOSE_RESPONSE", h))
    /\ UNCHANGED <<slot, linkUp, tableVars, ucIsNeedSend, owed, senderVars>>

CloseRequest(h) ==
    /\ slot = "CISTART"
    /\ Free(h)
    /\ Send1(SPDU("CLOSE_RESPONSE", h))
    /\ UNCHANGED <<slot, linkUp, ucIsNeedSend, owed, senderVars>>

CloseResponse(h) ==
    /\ slot = "CISTART"
    /\ Free(h)
    /\ UNCHANGED <<slot, linkUp, sendq, ucIsNeedSend, owed, senderVars>>

-----------------------------------------------------------------------------
(* Data on an open session.  Tags that only reach the screen or the log    *)
(* (APPLICATION_INFO, ENQ, LIST, DATE_TIME_ENQ, CA_PMT_REPLY) change       *)
(* nothing here and are left out.                                          *)

Data(h, r) == slot = "CISTART" /\ fSlotInUse[h] /\ pResource[h] = r

\* CLOSEMMI forgets the MMI session before the module has confirmed.
DataCloseMmi(h) ==
    /\ Data(h, "MMI")
    /\ Send1(SPDU("CLOSE_REQUEST", h))
    /\ current' = [current EXCEPT !["MMI"] = 0]
    /\ UNCHANGED <<slot, linkUp, fSlotInUse, pResource, ucIsNeedSend, owed, senderVars>>

Reply(h, r, what) ==
    /\ Data(h, r)
    /\ Send1(SPDU(what, h))
    /\ UNCHANGED <<slot, linkUp, tableVars, ucIsNeedSend, owed, senderVars>>

DataProfile(h)        == Reply(h, "ResMgr", "PROFILE_CHANGE")
DataProfileEnq(h)     == Reply(h, "ResMgr", "PROFILE")
DataDisplayControl(h) == Reply(h, "MMI", "DISPLAY_REPLY")

\* The board shows no menu of its own (the level is always ROOT), so a menu is
\* closed at once: on the session the field holds, not on the one it came from.
DataMenu(h) ==
    /\ Data(h, "MMI")
    /\ Send1(SPDU("MMI_CLOSE", current["MMI"]))
    /\ UNCHANGED <<slot, linkUp, tableVars, ucIsNeedSend, owed, senderVars>>

\* CA_INFO: the CI_SLOT_MODULE_CA_OK message asks for new CA_PMTs.
DataCaInfo(h) ==
    /\ Data(h, "CaSupport")
    /\ ucIsNeedSend' = TRUE
    /\ owed' = TRUE
    /\ UNCHANGED <<slot, linkUp, tableVars, sendq, senderVars>>

-----------------------------------------------------------------------------
(* The slot under the session layer.                                       *)

\* Mutant of Zeroed: only the buffers are cleared, not the session fields.
ZeroedBuffers ==
    /\ sendq' = <<>>
    /\ linkUp' = FALSE
    /\ UNCHANGED tableVars

\* memset of the whole CI_HANDLESTRUCT.
Zeroed ==
    /\ fSlotInUse' = [h \in Handles |-> FALSE]
    /\ pResource' = [h \in Handles |-> NULL]
    /\ current' = [f \in Fields |-> 0]
    /\ sendq' = <<>>
    /\ linkUp' = FALSE

\* CI_CheckConfig, up to five times per insertion: CI_ModuleInserted.
ModuleInserted ==
    /\ slot \in {"EMPTY", "STARTING"}
    /\ slot' = "STARTING"
    /\ Zeroed
    /\ owed' = FALSE
    /\ UNCHANGED <<ucIsNeedSend, senderVars>>

\* The size handshake succeeded: T_CREATE goes first, below this layer.
ConfigDone ==
    /\ slot = "STARTING"
    /\ slot' = "CISTART"
    /\ linkUp' = TRUE
    /\ UNCHANGED <<tableVars, sendq, ucIsNeedSend, owed, senderVars>>

\* The handshake failed, once or for good, and left in wBufferSize whatever the
\* module (or an empty socket) put in the size registers.
ConfigFailed ==
    /\ slot = "STARTING"
    /\ slot' \in {"STARTING", "EMPTY"}
    /\ linkUp' \in BOOLEAN
    /\ UNCHANGED <<tableVars, sendq, ucIsNeedSend, owed, senderVars>>

\* CI_ModuleRemoved closes every session and clears the structure.
ModuleRemoved ==
    /\ slot = "CISTART"
    /\ slot' = "EMPTY"
    /\ Zeroed
    /\ owed' = FALSE
    /\ UNCHANGED <<ucIsNeedSend, senderVars>>

\* STATUS_ResetCAM only marks the slot empty: the sessions stay.
ResetCAM ==
    /\ slot = "CISTART"
    /\ slot' = "EMPTY"
    /\ UNCHANGED <<linkUp, tableVars, sendq, ucIsNeedSend, owed, senderVars>>

\* CI_CheckSlot writes the head of the queue to the module.
Transmit ==
    /\ slot = "CISTART"
    /\ sendq # <<>>
    /\ sendq' = Tail(sendq)
    /\ UNCHANGED <<slot, linkUp, tableVars, ucIsNeedSend, owed, senderVars>>

-----------------------------------------------------------------------------
(* The senders: WVCI_UpdateSetting for this slot.                          *)

\* n programs to descramble.
ModeList(n) ==
    [i \in 1 .. n |-> IF n = 1 THEN "ONLY"
                      ELSE IF i = 1 THEN "FIRST"
                      ELSE IF i = n THEN "LAST" ELSE "MORE"]

\* No program at all sends one CA_PMT with an unused PID, or nothing when the
\* program it was made for is gone.
Jobs == {ModeList(n) : n \in ProgramCounts}
            \cup (IF 0 \in ProgramCounts THEN {<<"ONLY">>} ELSE {})

\* WVCI_PMTCheck clears the request once WVCI_AutoUpdateModule is back.
AfterJob(t) == IF t = TaskProcess THEN "clear" ELSE "idle"

AfterPmt(t, rest) == [pc EXCEPT ![t] = IF rest = <<>> THEN AfterJob(t) ELSE "build"]

Start(t) ==
    /\ pc[t] = "idle"
    /\ t = TaskProcess => ucIsNeedSend
    /\ \E job \in Jobs :
        /\ modes' = [modes EXCEPT ![t] = job]
        /\ pc' = AfterPmt(t, job)
    /\ owed' = FALSE
    /\ UNCHANGED <<slot, linkUp, tableVars, sendq, ucIsNeedSend, sess>>

\* WVCI_GenerateCAPMT gives up on a program whose CA_PMT is too long, and
\* WVCI_UpdateSetting goes on with the next one.
Overflow(t) ==
    /\ pc[t] = "build"
    /\ modes' = [modes EXCEPT ![t] = Tail(@)]
    /\ pc' = AfterPmt(t, Tail(modes[t]))
    /\ owed' = FALSE
    /\ UNCHANGED <<slot, linkUp, tableVars, sendq, ucIsNeedSend, sess>>

\* Mutant of Check: without a CA support session the CA_PMT is tried again.
CheckAgain(t) ==
    /\ pc[t] = "build"
    /\ IF current["CaSupport"] # 0 THEN pc' = [pc EXCEPT ![t] = "check"] ELSE UNCHANGED pc
    /\ owed' = FALSE
    /\ UNCHANGED <<slot, linkUp, tableVars, sendq, ucIsNeedSend, modes, sess>>

\* WVCI_GenerateCAPMT reads the CA list, CaSupport_SendPMT tests dwCASupportSession ...
Check(t) ==
    /\ pc[t] = "build"
    /\ IF current["CaSupport"] # 0
       THEN pc' = [pc EXCEPT ![t] = "check"] /\ UNCHANGED modes
       ELSE /\ modes' = [modes EXCEPT ![t] = Tail(@)]
            /\ pc' = AfterPmt(t, Tail(modes[t]))
    /\ owed' = FALSE
    /\ UNCHANGED <<slot, linkUp, tableVars, sendq, ucIsNeedSend, sess>>

\* ... reads it again to find the session ...
Lookup(t) ==
    /\ pc[t] = "check"
    /\ sess' = [sess EXCEPT ![t] = current["CaSupport"]]
    /\ pc' = [pc EXCEPT ![t] = "send"]
    /\ UNCHANGED <<slot, linkUp, tableVars, sendq, ucIsNeedSend, owed, modes>>

\* ... and queues the CA_PMT under the queue's lock.
SendPMT(t) ==
    /\ pc[t] = "send"
    /\ Send1(CaPmt(sess[t], Head(modes[t])))
    /\ modes' = [modes EXCEPT ![t] = Tail(@)]
    /\ pc' = AfterPmt(t, Tail(modes[t]))
    /\ sess' = [sess EXCEPT ![t] = 0]      \* a local, dead from here
    /\ UNCHANGED <<slot, linkUp, tableVars, ucIsNeedSend, owed>>

ClearFlag(t) ==
    /\ pc[t] = "clear"
    /\ ucIsNeedSend' = FALSE
    /\ pc' = [pc EXCEPT ![t] = "idle"]
    /\ UNCHANGED <<slot, linkUp, tableVars, sendq, owed, modes, sess>>

-----------------------------------------------------------------------------
Init ==
    /\ slot = "EMPTY"
    /\ linkUp = FALSE
    /\ fSlotInUse = [h \in Handles |-> FALSE]
    /\ pResource = [h \in Handles |-> NULL]
    /\ current = [f \in Fields |-> 0]
    /\ sendq = <<>>
    /\ ucIsNeedSend = FALSE
    /\ owed = FALSE
    /\ pc = [t \in Senders |-> "idle"]
    /\ modes = [t \in Senders |-> <<>>]
    /\ sess = [t \in Senders |-> 0]

OpenRequest ==
    \/ OpenNoHandle
    \/ \E r \in CamRequests : OpenUnknown(r) \/ OpenRefused(r) \/ OpenAccepted(r)

SessionData(h) ==
    \/ DataCloseMmi(h) \/ DataProfile(h) \/ DataProfileEnq(h)
    \/ DataDisplayControl(h) \/ DataMenu(h) \/ DataCaInfo(h)

\* The monitoring thread.
Monitoring ==
    \/ OpenRequest
    \/ \E h \in Handles : CloseRequest(h) \/ CloseResponse(h) \/ SessionData(h)
    \/ ModuleInserted \/ ConfigDone \/ ConfigFailed \/ ModuleRemoved \/ ResetCAM
    \/ Transmit

Sender(t) ==
    Start(t) \/ Overflow(t) \/ Check(t) \/ Lookup(t) \/ SendPMT(t) \/ ClearFlag(t)

Next == Monitoring \/ \E t \in Senders : Sender(t)

Spec == Init /\ [][Next]_vars

\* WVCI_TaskProcess polls twice a second for ever.
FairSpec == Spec /\ WF_vars(Sender(TaskProcess))

-----------------------------------------------------------------------------
TypeOK ==
    /\ slot \in Slots
    /\ linkUp \in BOOLEAN
    /\ fSlotInUse \in [Handles -> BOOLEAN]
    /\ pResource \in [Handles -> Resources \cup {NULL}]
    /\ current \in [Fields -> Handles]
    /\ sendq \in Seq(SPDUs) /\ Len(sendq) <= CI_T_SENDQSIZE
    /\ ucIsNeedSend \in BOOLEAN
    /\ owed \in BOOLEAN
    /\ pc \in [Senders -> {"idle", "build", "check", "send", "clear"}]
    /\ modes \in [Senders -> Seq(Modes)]
    /\ \A t \in Senders : pc[t] \in {"build", "check", "send"} => modes[t] # <<>>
    /\ sess \in [Senders -> Handles]

\* A handle in use has a resource and a free one has none: CI_ModuleRemoved
\* (ci.c:111) and Parse_SPDU call pResource without a test or only with one of
\* the two.  Handle 0 stays free, because 0 means "none" in the fields.
SessionTable ==
    /\ \A h \in Handles : fSlotInUse[h] <=> pResource[h] # NULL
    /\ ~fSlotInUse[0]

\* The CA support and MMI fields never hold the handle of a session that is
\* closed or was given to another resource (CI_CaSupport.c:182, CI_MMI.c:48).
CurrentLive ==
    \A r \in {"CaSupport", "MMI"} :
        current[r] # 0 => pResource[current[r]] = r

\* When a module starts, nothing is left of the sessions of the one before it,
\* however that one ended (STATUS_ResetCAM leaves them in place).
FreshStart ==
    slot = "STARTING" =>
        /\ \A h \in Handles : ~fSlotInUse[h]
        /\ \A f \in Fields : current[f] = 0

\* A request for new CA_PMTs is taken up and ended: whatever happens to the
\* sessions meanwhile, WVCI_PMTCheck always comes back to clear it.
RequestEnds == ucIsNeedSend ~> ~ucIsNeedSend

\* The session layer keeps the promise of CISessionTable.
Table == INSTANCE CISessionTable WITH
            table <- [h \in Handles |-> IF fSlotInUse[h] THEN pResource[h] ELSE NULL]
TableSpec == Table!Spec

-----------------------------------------------------------------------------
(* What the comments of the code say and the code does not keep.           *)

\* "the host should (re-)send PMTs in the context of this notification message"
\* (ci.h:451): an announcement no CA_PMT was built after is still flagged.
OwedIsFlagged == owed => ucIsNeedSend

\* "PMT Discarded/No CA Session" (CI_CaSupport.c:185): a CA_PMT is queued for a
\* CA support session or not at all.
CaPmtOnCaSession ==
    [][\A t \in Senders :
        SendPMT(t) /\ sendq' # sendq => pResource[sess[t]] = "CaSupport"]_vars

=============================================================================
