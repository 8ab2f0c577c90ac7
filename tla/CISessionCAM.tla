----------------------------- MODULE CISessionCAM -----------------------------
(***************************************************************************)
(* CISession with a module that keeps the rules of the session layer: it   *)
(* waits for the answer to a request, speaks on sessions it was given and, *)
(* once it has sent CLOSEMMI, leaves the closing to the host.  The link    *)
(* between the two is reliable and ordered; that the host and the module   *)
(* act on each other's messages late is what is left to go wrong.          *)
(***************************************************************************)
EXTENDS CISession

CONSTANTS
    MAX_IN_FLIGHT,  \* BOUND: SPDUs of the module the host has not parsed
    PatientMmi      \* after CLOSEMMI the module opens no MMI session before
                    \* the old one is closed

ASSUME CamAssumption ==
    /\ MAX_IN_FLIGHT \in Nat /\ PatientMmi \in BOOLEAN
    /\ NULL \notin CamRequests

VARIABLES
    toHost,     \* SPDUs on their way to the host, oldest first
    held,       \* held[h]: the resource the module talks to on session h
    leaving,    \* leaving[h]: "closing" it asked for, "mmi" after CLOSEMMI
    pending     \* the resource of the unanswered OPEN_REQUEST

camVars == <<toHost, held, leaving, pending>>
allVars == <<vars, camVars>>

Message(what, h, r) == [what |-> what, sess |-> h, res |-> r]

\* Reset state of a module: it has been powered again (WVCI_InsertCAM).
CamFresh ==
    /\ toHost' = <<>>
    /\ held' = [h \in Handles |-> NULL]
    /\ leaving' = [h \in Handles |-> "no"]
    /\ pending' = NULL

-----------------------------------------------------------------------------
(* What the module does of its own accord.  Say is an assumption of this   *)
(* module, not the code's: nothing of CI_WriteData keeps an entry of the   *)
(* send queue free for an answer, and a module knows nothing of the queue. *)
(* Here it speaks only when two entries for each word under way are free,  *)
(* as an answer that is dropped leaves nothing to agree on.  What Connect  *)
(* sends after the answer, and CA_PMTs, may still be dropped.              *)

Say(m) ==
    /\ slot = "CISTART"
    /\ Len(toHost) < MAX_IN_FLIGHT
    /\ Len(sendq) + 2 * Len(toHost) + 2 <= CI_T_SENDQSIZE
    /\ toHost' = Append(toHost, m)
    /\ UNCHANGED vars

\* One request at a time, and one MMI dialogue at a time.
CamOpen(r) ==
    /\ pending = NULL
    /\ r = "MMI" =>
        \A h \in Handles :
            held[h] = "MMI" => leaving[h] \in {"closing"} \cup (IF PatientMmi THEN {} ELSE {"mmi"})
    /\ pending' = r
    /\ Say(Message("OPEN_REQUEST", 0, r))
    /\ UNCHANGED <<held, leaving>>

CamClose(h) ==
    /\ held[h] # NULL /\ leaving[h] = "no"
    /\ leaving' = [leaving EXCEPT ![h] = "closing"]
    /\ Say(Message("CLOSE_REQUEST", h, held[h]))
    /\ UNCHANGED <<held, pending>>

CamCloseMmi(h) ==
    /\ held[h] = "MMI" /\ leaving[h] = "no"
    /\ leaving' = [leaving EXCEPT ![h] = "mmi"]
    /\ Say(Message("CLOSEMMI", h, held[h]))
    /\ UNCHANGED <<held, pending>>

CamData(h, r, what) ==
    /\ held[h] = r /\ leaving[h] = "no"
    /\ Say(Message(what, h, r))
    /\ UNCHANGED <<held, leaving, pending>>

-----------------------------------------------------------------------------
(* Parse_SPDU takes the oldest message of the module.                      *)

Opened(r) == OpenNoHandle \/ OpenUnknown(r) \/ OpenRefused(r) \/ OpenAccepted(r)

\* Data on a session that is not open is only logged.
DataRejected(h) ==
    /\ slot = "CISTART"
    /\ ~fSlotInUse[h]
    /\ UNCHANGED vars

\* The oldest message says what, and is taken.
Parse(what) ==
    /\ toHost # <<>> /\ Head(toHost).what = what
    /\ toHost' = Tail(toHost)
    /\ UNCHANGED <<held, leaving, pending>>

HostParses ==
    LET m == Head(toHost) IN
    \/ Parse("OPEN_REQUEST")   /\ Opened(m.res)
    \/ Parse("CLOSE_REQUEST")  /\ CloseRequest(m.sess)
    \/ Parse("CLOSE_RESPONSE") /\ CloseResponse(m.sess)
    \/ Parse("CLOSEMMI")       /\ (DataCloseMmi(m.sess) \/ DataRejected(m.sess))
    \/ Parse("MENU")           /\ (DataMenu(m.sess) \/ DataRejected(m.sess))
    \/ Parse("CA_INFO")        /\ (DataCaInfo(m.sess) \/ DataRejected(m.sess))

-----------------------------------------------------------------------------
(* The host writes the head of its queue, and the module acts on it.       *)

CamGetsRefusal ==
    /\ pending' = NULL
    /\ UNCHANGED <<toHost, held, leaving>>

CamGetsAccept(h) ==
    /\ held' = [held EXCEPT ![h] = pending]
    /\ leaving' = [leaving EXCEPT ![h] = "no"]
    /\ pending' = NULL
    /\ UNCHANGED toHost

CamGetsCloseResponse(h) ==
    /\ held' = [held EXCEPT ![h] = NULL]
    /\ leaving' = [leaving EXCEPT ![h] = "no"]
    /\ UNCHANGED <<toHost, pending>>

CamGetsCloseRequest(h) ==
    /\ held' = [held EXCEPT ![h] = NULL]
    /\ leaving' = [leaving EXCEPT ![h] = "no"]
    /\ toHost' = Append(toHost, Message("CLOSE_RESPONSE", h, NULL))
    /\ UNCHANGED pending

Deliver ==
    /\ Transmit
    /\ LET s == Head(sendq) IN
        \/ s.spdu = "OPEN_OK" /\ CamGetsAccept(s.sess)
        \/ s.spdu = "OPEN_F0" /\ CamGetsRefusal
        \/ s.spdu = "CLOSE_RESPONSE" /\ CamGetsCloseResponse(s.sess)
        \/ s.spdu = "CLOSE_REQUEST" /\ CamGetsCloseRequest(s.sess)
        \/ /\ s.spdu \notin {"OPEN_OK", "OPEN_F0", "CLOSE_RESPONSE", "CLOSE_REQUEST"}
           /\ UNCHANGED camVars

-----------------------------------------------------------------------------
CamInit ==
    /\ Init
    /\ toHost = <<>>
    /\ held = [h \in Handles |-> NULL]
    /\ leaving = [h \in Handles |-> "no"]
    /\ pending = NULL

Cam ==
    \/ \E r \in CamRequests : CamOpen(r)
    \/ \E h \in Handles :
        \/ CamClose(h) \/ CamCloseMmi(h)
        \/ CamData(h, "MMI", "MENU") \/ CamData(h, "CaSupport", "CA_INFO")

\* The slot comes and goes as in CISession; the module restarts with it.
HostSlot ==
    \/ ModuleInserted /\ CamFresh
    \/ (ConfigDone \/ ConfigFailed \/ ModuleRemoved \/ ResetCAM) /\ UNCHANGED camVars

HostSends == \E t \in Senders : Sender(t) /\ UNCHANGED camVars

CamNext == Cam \/ HostParses \/ Deliver \/ HostSlot \/ HostSends

CamSpec == CamInit /\ [][CamNext]_allVars

\* WVCI_TaskMonitoring goes on reading and writing, and a module that has
\* nothing more to say lets the host write.
CamFairSpec == CamSpec /\ WF_allVars(HostParses) /\ WF_allVars(Deliver)

-----------------------------------------------------------------------------
CamTypeOK ==
    /\ TypeOK
    /\ toHost \in Seq([what : {"OPEN_REQUEST", "CLOSE_REQUEST", "CLOSE_RESPONSE",
                               "CLOSEMMI", "MENU", "CA_INFO"},
                       sess : Handles, res : CamRequests \cup {NULL}])
    /\ held \in [Handles -> CamRequests \cup {NULL}]
    /\ leaving \in [Handles -> {"no", "closing", "mmi"}]
    /\ pending \in CamRequests \cup {NULL}

\* The hypothesis of AgreementHolds, and no property of the code, which reserves nothing for answers
\* (ci_l2.c:116-134): the answer of Parse_SPDU finds a free entry in the send queue.  CA_PMTs of enough
\* programs take the last one.
AnswerFits ==
    slot = "CISTART" /\ toHost # <<>> =>
        (Head(toHost).what \in {"OPEN_REQUEST", "CLOSE_REQUEST", "CLOSEMMI"}
            => Len(sendq) < CI_T_SENDQSIZE)

\* With nothing on the way in either direction, the host and the module have
\* the same table of sessions and no request is left unanswered: no message of
\* Parse_SPDU's cases leaves one of them with a session the other has dropped.
Agreement ==
    slot = "CISTART" /\ sendq = <<>> /\ toHost = <<>> =>
        /\ pending = NULL
        /\ \A h \in Handles : leaving[h] = "no" /\ pResource[h] = held[h]

\* The host never speaks on a session the module does not hold, but for the
\* CA_PMTs of the sender threads: the positive response is queued before what
\* Connect sends, and nothing is queued after the response to a close.
SpeaksOnHeldSession ==
    [][Deliver /\ Head(sendq).spdu \in
            {"PROFILE_ENQ", "APPINFO_ENQ", "CAINFO_ENQ", "MMI_CLOSE", "CLOSE_REQUEST"}
        => held[Head(sendq).sess] # NULL]_allVars

\* A module that has asked for something gets its answer while the slot runs:
\* an open is accepted or refused, a session it gives up is released.
EveryRequestAnswered ==
    /\ pending # NULL ~> pending = NULL \/ slot # "CISTART"
    /\ \A h \in Handles :
        leaving[h] # "no" ~> leaving[h] = "no" \/ slot # "CISTART"

\* "current session handle for the mmi resource (0 if none)" (ci.h:222): it is
\* the session of the dialogue the module is in.
MmiSessionCurrent ==
    \A h \in Handles :
        pResource[h] = "MMI" /\ held[h] = "MMI" /\ leaving[h] = "no"
            => current["MMI"] = h

=============================================================================
