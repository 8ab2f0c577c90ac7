------------------------- MODULE CISessionCAM_proofs -------------------------
(***************************************************************************)
(* Machine-checked facts about CISession and CISessionCAM, for every       *)
(* number of sessions, queue length, set of senders and of requests, and   *)
(* every number of messages under way: the session layer by itself; that   *)
(* with a module at the other end it takes no step it would not take       *)
(* without one; and what host and module promise one another.              *)
(***************************************************************************)
EXTENDS CISessionCAM, TLAPS

(* The session layer by itself, CISession.                                 *)

(* The inductive invariant.  The table is needed for CurrentLive: a handle *)
(* that is given out has no resource, so no field can hold it already.     *)
Inv == TypeOK /\ SessionTable /\ CurrentLive /\ FreshStart

-----------------------------------------------------------------------------
(* The helpers keep their types.                                           *)

\* CI_WriteData never fills more than CI_T_SENDQSIZE entries (ci_l2.c:116).
LEMMA EnqueueBound ==
    ASSUME NEW q \in Seq(SPDUs), Len(q) <= CI_T_SENDQSIZE,
           NEW up \in BOOLEAN, NEW s \in SPDUs
    PROVE  /\ Enqueue(q, up, s) \in Seq(SPDUs)
           /\ Len(Enqueue(q, up, s)) <= CI_T_SENDQSIZE
BY SessionAssumption DEF Enqueue

\* Every SPDU the layer builds for a handle is well formed.
LEMMA SPDUTypes ==
    ASSUME NEW h \in Handles
    PROVE  /\ \A w \in {"OPEN_OK", "OPEN_F0", "CLOSE_RESPONSE", "CLOSE_REQUEST",
                        "PROFILE_ENQ", "PROFILE_CHANGE", "PROFILE", "APPINFO_ENQ",
                        "CAINFO_ENQ", "CA_PMT", "DISPLAY_REPLY", "MMI_CLOSE"} :
                 SPDU(w, h) \in SPDUs
           /\ \A m \in Modes : CaPmt(h, m) \in SPDUs
BY DEF SPDU, CaPmt, SPDUs, Modes

\* What Connect sends is an SPDU kind unless it is nothing (ci.c:435).
LEMMA GreetingType ==
    ASSUME NEW r \in Resources
    PROVE  Greeting(r) \in {"", "PROFILE_ENQ", "APPINFO_ENQ", "CAINFO_ENQ"}
BY DEF Greeting, Field, Resources

\* The list WVCI_UpdateSetting walks is a sequence of list-management modes.
LEMMA JobsType == Jobs \subseteq Seq(Modes)
<1>1. ASSUME NEW n \in Nat PROVE ModeList(n) \in Seq(Modes)
  BY DEF ModeList, Modes
<1>2. <<"ONLY">> \in Seq(Modes)
  BY DEF Modes
<1> QED BY <1>1, <1>2, SessionAssumption DEF Jobs

\* Handle 0, "none" in the session fields, is an index of CiSessions.
LEMMA HandlesFacts == 0 \in Handles
BY SessionAssumption DEF Handles

\* Every resource registered by CI_Init has its session field.
LEMMA FieldType == \A r \in Resources : Field(r) \in Fields
BY DEF Field, Fields, Resources

-----------------------------------------------------------------------------
(* Type correctness.                                                       *)

\* What the memset of CI_ModuleInserted leaves (ci.c:68) is well typed.
LEMMA EmptyTypes ==
    /\ <<>> \in Seq(SPDUs) /\ Len(<<>>) <= CI_T_SENDQSIZE
    /\ <<>> \in Seq(Modes)
    /\ [h \in Handles |-> FALSE] \in [Handles -> BOOLEAN]
    /\ [h \in Handles |-> NULL] \in [Handles -> Resources \cup {NULL}]
    /\ [f \in Fields |-> 0] \in [Fields -> Handles]
<1>1. <<>> \in Seq(SPDUs) /\ <<>> \in Seq(Modes) /\ Len(<<>>) = 0
  OBVIOUS
<1> QED BY <1>1, SessionAssumption, HandlesFacts

\* The state after WVCI_Setup is well typed.
LEMMA InitType == Init => TypeOK
<1> SUFFICES ASSUME Init PROVE TypeOK
  OBVIOUS
<1>1. modes \in [Senders -> Seq(Modes)]
  BY EmptyTypes DEF Init
<1>2. sess \in [Senders -> Handles]
  BY HandlesFacts DEF Init
<1>3. /\ pc \in [Senders -> {"idle", "build", "check", "send", "clear"}]
      /\ \A t \in Senders : pc[t] = "idle"
  BY DEF Init
<1> QED BY <1>1, <1>2, <1>3, EmptyTypes DEF Init, TypeOK, Slots

\* No handler, message or sender writes a value outside the types.
LEMMA TypeStep == TypeOK /\ [Next]_vars => TypeOK'
<1> SUFFICES ASSUME TypeOK, [Next]_vars PROVE TypeOK'
  OBVIOUS
<1> USE HandlesFacts DEF TypeOK
<1>q. \A s \in SPDUs : /\ Enqueue(sendq, linkUp, s) \in Seq(SPDUs)
                       /\ Len(Enqueue(sendq, linkUp, s)) <= CI_T_SENDQSIZE
  BY EnqueueBound
<1>qq. \A s, u \in SPDUs :
          LET q == Enqueue(Enqueue(sendq, linkUp, s), linkUp, u) IN
          q \in Seq(SPDUs) /\ Len(q) <= CI_T_SENDQSIZE
  BY EnqueueBound, <1>q
<1>0. \A f \in Fields : current[f] \in Handles
  OBVIOUS
<1>1. CASE OpenNoHandle
  <2>1. SPDU("OPEN_F0", 0) \in SPDUs
    BY SPDUTypes
  <2> QED BY <1>1, <2>1, <1>q DEF OpenNoHandle, Send1, tableVars, senderVars
<1>2. ASSUME NEW r \in CamRequests, OpenUnknown(r) PROVE TypeOK'
  <2>1. PICK h \in Handles : Send1(SPDU("OPEN_F0", h))
    BY <1>2 DEF OpenUnknown
  <2>2. SPDU("OPEN_F0", h) \in SPDUs
    BY SPDUTypes
  <2> QED BY <1>2, <2>1, <2>2, <1>q DEF OpenUnknown, Send1, tableVars, senderVars
<1>3. ASSUME NEW r \in CamRequests, OpenRefused(r) PROVE TypeOK'
  <2>1. PICK h \in Handles :
          /\ Send2(SPDU("OPEN_OK", h), SPDU("OPEN_F0", h))
          /\ fSlotInUse' = [fSlotInUse EXCEPT ![h] = FALSE]
          /\ pResource' = [pResource EXCEPT ![h] = NULL]
    BY <1>3 DEF OpenRefused
  <2>2. SPDU("OPEN_OK", h) \in SPDUs /\ SPDU("OPEN_F0", h) \in SPDUs
    BY SPDUTypes
  <2>3. sendq' \in Seq(SPDUs) /\ Len(sendq') <= CI_T_SENDQSIZE
    BY <2>1, <2>2, <1>qq DEF Send2
  <2> QED BY <1>3, <2>1, <2>3 DEF OpenRefused, senderVars
<1>4. ASSUME NEW r \in CamRequests, OpenAccepted(r) PROVE TypeOK'
  <2>1. PICK h \in Handles :
          /\ IF Greeting(r) = "" THEN Send1(SPDU("OPEN_OK", h))
             ELSE Send2(SPDU("OPEN_OK", h), SPDU(Greeting(r), h))
          /\ fSlotInUse' = [fSlotInUse EXCEPT ![h] = TRUE]
          /\ pResource' = [pResource EXCEPT ![h] = r]
          /\ current' = [current EXCEPT ![Field(r)] = h]
    BY <1>4 DEF OpenAccepted
  <2>2. SPDU("OPEN_OK", h) \in SPDUs
    BY SPDUTypes
  <2>3. Greeting(r) # "" => SPDU(Greeting(r), h) \in SPDUs
    BY <1>4, GreetingType, SPDUTypes DEF OpenAccepted
  <2>4. sendq' \in Seq(SPDUs) /\ Len(sendq') <= CI_T_SENDQSIZE
    <3>1. CASE Greeting(r) = ""
      BY <3>1, <2>1, <2>2, <1>q DEF Send1
    <3>2. CASE Greeting(r) # ""
      BY <3>2, <2>1, <2>2, <2>3, <1>qq DEF Send2
    <3> QED BY <3>1, <3>2
  <2> QED BY <1>4, <2>1, <2>4 DEF OpenAccepted, senderVars
<1>5. ASSUME NEW h \in Handles, Free(h)
      PROVE  /\ fSlotInUse' \in [Handles -> BOOLEAN]
             /\ pResource' \in [Handles -> Resources \cup {NULL}]
             /\ current' \in [Fields -> Handles]
  BY <1>5 DEF Free, Closed
<1>6. ASSUME NEW h \in Handles, CloseRequest(h) PROVE TypeOK'
  <2>1. SPDU("CLOSE_RESPONSE", h) \in SPDUs
    BY SPDUTypes
  <2> QED BY <1>6, <1>5, <2>1, <1>q DEF CloseRequest, Send1, senderVars
<1>7. ASSUME NEW h \in Handles, CloseResponse(h) PROVE TypeOK'
  BY <1>7, <1>5 DEF CloseResponse, senderVars
<1>8. ASSUME NEW h \in Handles, SessionData(h) PROVE TypeOK'
  <2>1. SPDU("CLOSE_REQUEST", h) \in SPDUs /\ SPDU("MMI_CLOSE", current["MMI"]) \in SPDUs
    BY SPDUTypes, <1>0 DEF Fields, Resources
  <2>2. CASE DataCloseMmi(h)
    BY <2>1, <2>2, <1>q DEF DataCloseMmi, Send1, senderVars
  <2>3. ASSUME NEW r, NEW w \in {"PROFILE_CHANGE", "PROFILE", "DISPLAY_REPLY"},
               Reply(h, r, w)
        PROVE  TypeOK'
    <3>1. SPDU(w, h) \in SPDUs
      BY SPDUTypes
    <3> QED BY <2>3, <3>1, <1>q DEF Reply, Send1, tableVars, senderVars
  <2>4. CASE DataMenu(h)
    BY <2>4, <2>1, <1>q DEF DataMenu, Send1, tableVars, senderVars
  <2>5. CASE DataCaInfo(h)
    BY <2>5 DEF DataCaInfo, tableVars, senderVars
  <2> QED BY <1>8, <2>2, <2>3, <2>4, <2>5
          DEF SessionData, DataProfile, DataProfileEnq, DataDisplayControl
<1>9. CASE ModuleInserted \/ ModuleRemoved
  BY <1>9, EmptyTypes DEF ModuleInserted, ModuleRemoved, Zeroed, Slots, senderVars
<1>10. CASE ConfigDone \/ ConfigFailed \/ ResetCAM
  BY <1>10 DEF ConfigDone, ConfigFailed, ResetCAM, Slots, tableVars, senderVars
<1>11. CASE Transmit
  <2>1. Tail(sendq) \in Seq(SPDUs) /\ Len(Tail(sendq)) = Len(sendq) - 1
    BY <1>11 DEF Transmit
  <2>2. Len(Tail(sendq)) <= CI_T_SENDQSIZE
    BY <2>1, SessionAssumption
  <2> QED BY <1>11, <2>1, <2>2 DEF Transmit, tableVars, senderVars
<1>12. ASSUME NEW t \in Senders, Sender(t) PROVE TypeOK'
  <2>1. ASSUME NEW rest \in Seq(Modes),
               modes' = [modes EXCEPT ![t] = rest], pc' = AfterPmt(t, rest)
        PROVE  /\ pc' \in [Senders -> {"idle", "build", "check", "send", "clear"}]
               /\ modes' \in [Senders -> Seq(Modes)]
               /\ \A u \in Senders :
                    pc'[u] \in {"build", "check", "send"} => modes'[u] # <<>>
    BY <2>1 DEF AfterPmt, AfterJob
  <2>2. pc[t] \in {"build", "check", "send"} =>
            Head(modes[t]) \in Modes /\ Tail(modes[t]) \in Seq(Modes)
    OBVIOUS
  <2>3. CASE Start(t)
    <3>1. PICK job \in Jobs : modes' = [modes EXCEPT ![t] = job] /\ pc' = AfterPmt(t, job)
      BY <2>3 DEF Start
    <3> QED BY <3>1, <2>1, <2>3, JobsType DEF Start, tableVars
  <2>4. CASE Overflow(t)
    BY <2>4, <2>1, <2>2 DEF Overflow, tableVars
  <2>5. CASE Check(t)
    BY <2>5, <2>1, <2>2 DEF Check, tableVars
  <2>6. CASE Lookup(t)
    BY <2>6, <1>0 DEF Lookup, tableVars, Fields, Resources
  <2>7. CASE SendPMT(t)
    <3>1. CaPmt(sess[t], Head(modes[t])) \in SPDUs
      BY <2>7, <2>2, SPDUTypes DEF SendPMT
    <3> QED BY <3>1, <2>7, <2>1, <2>2, <1>q DEF SendPMT, Send1, tableVars
  <2>8. CASE ClearFlag(t)
    BY <2>8 DEF ClearFlag, tableVars
  <2> QED BY <1>12, <2>3, <2>4, <2>5, <2>6, <2>7, <2>8 DEF Sender
<1>13. CASE UNCHANGED vars
  BY <1>13 DEF vars, tableVars, senderVars
<1> QED
  BY <1>1, <1>2, <1>3, <1>4, <1>6, <1>7, <1>8, <1>9, <1>10, <1>11, <1>12, <1>13
     DEF Next, Monitoring, OpenRequest

\* Every variable keeps its type, and a sender inside WVCI_UpdateSetting always
\* has a CA_PMT left to generate.
THEOREM TypeCorrect == Spec => []TypeOK
BY InitType, TypeStep, PTL DEF Spec

-----------------------------------------------------------------------------
(* Each step either leaves the table, the fields and the start of a slot   *)
(* alone, or is one of six.                                                *)

\* Everything that parses data, fills or drains the queue, or runs in a sender
\* leaves CiSessions and the session fields as they are.
LEMMA QuietSteps ==
    ASSUME [Next]_vars
    PROVE  \/ UNCHANGED <<tableVars>> /\ (slot' = "STARTING" => slot = "STARTING")
           \/ \E r \in CamRequests : OpenRefused(r) \/ OpenAccepted(r)
           \/ \E h \in Handles : Free(h) /\ slot' = slot
           \/ \E h \in Handles : DataCloseMmi(h)
           \/ Zeroed
<1> DEFINE Quiet == UNCHANGED <<tableVars>> /\ (slot' = "STARTING" => slot = "STARTING")
<1>1. CASE OpenNoHandle \/ \E r \in CamRequests : OpenUnknown(r)
  BY <1>1 DEF OpenNoHandle, OpenUnknown
<1>2. ASSUME NEW h \in Handles, CloseRequest(h) \/ CloseResponse(h)
      PROVE  Free(h) /\ slot' = slot
  BY <1>2 DEF CloseRequest, CloseResponse
<1>3. ASSUME NEW h \in Handles, SessionData(h) PROVE Quiet \/ DataCloseMmi(h)
  BY <1>3 DEF SessionData, DataProfile, DataProfileEnq, DataDisplayControl, Reply,
              DataMenu, DataCaInfo
<1>4. CASE ModuleInserted \/ ModuleRemoved
  BY <1>4 DEF ModuleInserted, ModuleRemoved
<1>5. CASE ConfigDone \/ ConfigFailed \/ ResetCAM \/ Transmit
  BY <1>5 DEF ConfigDone, ConfigFailed, ResetCAM, Transmit
<1>6. ASSUME NEW t \in Senders, Sender(t) PROVE Quiet
  BY <1>6 DEF Sender, Start, Overflow, Check, Lookup, SendPMT, ClearFlag
<1>7. CASE UNCHANGED vars
  BY <1>7 DEF vars
<1> QED BY <1>1, <1>2, <1>3, <1>4, <1>5, <1>6, <1>7 DEF Next, Monitoring, OpenRequest

\* NULL is not a resource, so "has a resource" and "is free" exclude each other.
LEMMA NullFact == NULL \notin Resources /\ \A r \in Resources : r # "NULL"
BY DEF NULL, Resources

-----------------------------------------------------------------------------
(* The invariant.                                                          *)

\* Before the first module there is no session at all.
LEMMA InitInv == Init => Inv
<1> SUFFICES ASSUME Init PROVE SessionTable /\ CurrentLive /\ FreshStart
  BY InitType DEF Inv
<1>1. SessionTable
  BY HandlesFacts DEF Init, SessionTable
<1>2. CurrentLive
  BY DEF Init, CurrentLive, Fields, Resources
<1>3. FreshStart
  BY DEF Init, FreshStart
<1> QED BY <1>1, <1>2, <1>3

\* Each of the six kinds of steps preserves the invariant; the hard one is
\* OpenAccepted, which relies on the handle it gives out having no resource.
LEMMA InvStep == Inv /\ [Next]_vars => Inv'
<1> SUFFICES ASSUME Inv, [Next]_vars PROVE (SessionTable /\ CurrentLive /\ FreshStart)'
  BY TypeStep DEF Inv
<1>t. TypeOK /\ SessionTable /\ CurrentLive /\ FreshStart
  BY DEF Inv
<1>f. {"CaSupport", "MMI"} \subseteq Fields
  BY DEF Fields, Resources
<1>1. CASE UNCHANGED <<tableVars>> /\ (slot' = "STARTING" => slot = "STARTING")
  BY <1>1, <1>t DEF tableVars, SessionTable, CurrentLive, FreshStart
<1>2. ASSUME NEW r \in CamRequests, OpenRefused(r)
      PROVE  (SessionTable /\ CurrentLive /\ FreshStart)'
  <2>1. PICK h \in Handles :
          /\ FirstFree(h)
          /\ fSlotInUse' = [fSlotInUse EXCEPT ![h] = FALSE]
          /\ pResource' = [pResource EXCEPT ![h] = NULL]
    BY <1>2 DEF OpenRefused
  <2>2. fSlotInUse' = fSlotInUse /\ pResource' = pResource
    BY <2>1, <1>t DEF FirstFree, SessionTable, TypeOK
  <2> QED BY <1>2, <2>2, <1>t DEF OpenRefused, SessionTable, CurrentLive, FreshStart
<1>3. ASSUME NEW r \in CamRequests, OpenAccepted(r)
      PROVE  (SessionTable /\ CurrentLive /\ FreshStart)'
  <2>1. PICK h \in Handles :
          /\ FirstFree(h)
          /\ fSlotInUse' = [fSlotInUse EXCEPT ![h] = TRUE]
          /\ pResource' = [pResource EXCEPT ![h] = r]
          /\ current' = [current EXCEPT ![Field(r)] = h]
    BY <1>3 DEF OpenAccepted
  <2>2. r \in Resources /\ slot' = "CISTART"
    BY <1>3 DEF OpenAccepted
  <2>3. pResource[h] = NULL /\ h # 0
    BY <2>1, <1>t DEF FirstFree, SessionTable
  <2>4. SessionTable'
    BY <2>1, <2>2, <2>3, <1>t, NullFact DEF SessionTable, TypeOK
  <2>5. ASSUME NEW f \in {"CaSupport", "MMI"}, current'[f] # 0
        PROVE  pResource'[current'[f]] = f
    <3>1. CASE f = Field(r)
      <4>1. f = r
        BY <3>1, <2>2 DEF Field
      <4>2. current'[f] = h
        BY <3>1, <2>1, <1>f, <1>t DEF TypeOK
      <4> QED BY <4>1, <4>2, <2>1, <1>t DEF TypeOK
    <3>2. CASE f # Field(r)
      <4>1. current'[f] = current[f] /\ current[f] \in Handles
        BY <3>2, <2>1, <1>f, <1>t DEF TypeOK
      <4>2. pResource[current[f]] = f
        BY <4>1, <2>5, <1>t DEF CurrentLive
      <4>3. current[f] # h
        BY <4>2, <2>3 DEF NULL
      <4> QED BY <4>1, <4>2, <4>3, <2>1, <1>t DEF TypeOK
    <3> QED BY <3>1, <3>2
  <2> QED BY <2>2, <2>4, <2>5 DEF CurrentLive, FreshStart
<1>4. ASSUME NEW h \in Handles, Free(h), slot' = slot
      PROVE  (SessionTable /\ CurrentLive /\ FreshStart)'
  <2>1. /\ fSlotInUse' = [fSlotInUse EXCEPT ![h] = FALSE]
        /\ pResource' = [pResource EXCEPT ![h] = NULL]
        /\ current' = Closed(h)
    BY <1>4 DEF Free
  <2>2. SessionTable'
    BY <2>1, <1>t, HandlesFacts DEF SessionTable, TypeOK
  <2>3. ASSUME NEW f \in {"CaSupport", "MMI"}, current'[f] # 0
        PROVE  pResource'[current'[f]] = f
    <3>1. current'[f] = current[f] /\ pResource[h] # f
      BY <2>1, <2>3, <1>f, <1>t DEF Closed, TypeOK
    <3>2. current[f] \in Handles /\ pResource[current[f]] = f
      BY <3>1, <2>3, <1>f, <1>t DEF CurrentLive, TypeOK
    <3> QED BY <3>1, <3>2, <2>1, <1>t DEF TypeOK
  <2>4. FreshStart'
    <3>1. ASSUME slot = "STARTING"
          PROVE  /\ \A k \in Handles : ~fSlotInUse'[k]
                 /\ \A f \in Fields : current'[f] = 0
      BY <3>1, <2>1, <1>t DEF FreshStart, Closed, TypeOK
    <3> QED BY <3>1, <1>4 DEF FreshStart
  <2> QED BY <2>2, <2>3, <2>4 DEF CurrentLive
<1>5. ASSUME NEW h \in Handles, DataCloseMmi(h)
      PROVE  (SessionTable /\ CurrentLive /\ FreshStart)'
  BY <1>5, <1>t, <1>f DEF DataCloseMmi, Data, SessionTable, CurrentLive, FreshStart, TypeOK
<1>6. CASE Zeroed
  BY <1>6, HandlesFacts, <1>f DEF Zeroed, SessionTable, CurrentLive, FreshStart
<1> QED BY QuietSteps, <1>1, <1>2, <1>3, <1>4, <1>5, <1>6

\* The session table never holds a handle without a resource or a resource
\* without a handle in use, and handle 0 stays free (ci.c:107-114, 469-473).
THEOREM SessionTableHolds == Spec => []SessionTable
<1>1. Inv => SessionTable
  BY DEF Inv
<1> QED BY <1>1, InitInv, InvStep, PTL DEF Spec

\* The CA support and MMI fields only ever name an open session of their own
\* resource (CI_CaSupport.c:182, CI_MMI.c:48).
THEOREM CurrentLiveHolds == Spec => []CurrentLive
<1>1. Inv => CurrentLive
  BY DEF Inv
<1> QED BY <1>1, InitInv, InvStep, PTL DEF Spec

\* No session survives into the start of the next module (ci.c:68).
THEOREM FreshStartHolds == Spec => []FreshStart
<1>1. Inv => FreshStart
  BY DEF Inv
<1> QED BY <1>1, InitInv, InvStep, PTL DEF Spec

-----------------------------------------------------------------------------
(* The session layer implements CISessionTable.                            *)

\* The table of CISessionTable, as CISession keeps it.
table == [h \in Handles |-> IF fSlotInUse[h] THEN pResource[h] ELSE NULL]

\* In the invariant's states the abstract table is the pResource column itself.
LEMMA TableIsResource == TypeOK /\ SessionTable => table = pResource
BY DEF TypeOK, SessionTable, table

\* All sessions are free at the start, as the table promises.
LEMMA TableInit == Init => Table!Init
BY DEF Init, Table!Init

\* Each step opens one session, closes one, closes all, or leaves the table.
LEMMA TableStep ==
    ASSUME Inv, [Next]_vars
    PROVE  Table!Next \/ table' = table
<1>i. Inv'
  BY InvStep
<1>1. table = pResource /\ table' = pResource'
  <2>1. (TypeOK /\ SessionTable => table = pResource)'
    BY TableIsResource, PTL
  <2> QED BY <1>i, <2>1, TableIsResource DEF Inv
<1>2. pResource \in [Handles -> Resources \cup {NULL}]
  BY DEF Inv, TypeOK
<1>3. CASE UNCHANGED <<tableVars>>
  BY <1>1, <1>3 DEF tableVars
<1>4. ASSUME NEW r \in CamRequests, OpenRefused(r) PROVE table' = table
  BY <1>1, <1>2, <1>4 DEF OpenRefused, FirstFree, Inv, SessionTable
<1>5. ASSUME NEW r \in CamRequests, OpenAccepted(r) PROVE Table!Next
  <2>1. PICK h \in Handles : FirstFree(h) /\ pResource' = [pResource EXCEPT ![h] = r]
    BY <1>5 DEF OpenAccepted
  <2>2. h # 0 /\ pResource[h] = NULL /\ r \in Resources
    BY <2>1, <1>5 DEF FirstFree, Inv, SessionTable, OpenAccepted
  <2>3. Table!Open(h, r)
    BY <2>1, <2>2, <1>1 DEF Table!Open, table
  <2> QED BY <2>3, <2>2 DEF Table!Next
<1>6. ASSUME NEW h \in Handles, Free(h) PROVE Table!Next \/ table' = table
  <2>1. pResource' = [pResource EXCEPT ![h] = NULL]
    BY <1>6 DEF Free
  <2>2. CASE pResource[h] = NULL
    BY <2>1, <2>2, <1>1, <1>2
  <2>3. CASE pResource[h] # NULL
    <3>1. Table!Close(h)
      BY <2>1, <2>3, <1>1 DEF Table!Close, table
    <3> QED BY <3>1 DEF Table!Next
  <2> QED BY <2>2, <2>3
<1>7. ASSUME NEW h \in Handles, DataCloseMmi(h) PROVE table' = table
  BY <1>1, <1>7 DEF DataCloseMmi
<1>8. CASE Zeroed
  <2>1. Table!CloseAll
    BY <1>8, <1>1 DEF Zeroed, Table!CloseAll, table
  <2> QED BY <2>1 DEF Table!Next
<1> QED BY QuietSteps, <1>3, <1>4, <1>5, <1>6, <1>7, <1>8

\* Whatever the module asks for and whenever it is pulled or reset, a handle
\* stays with the resource it was opened for until it is closed.
THEOREM ImplementsTable == Spec => TableSpec
<1>1. Inv /\ [Next]_vars => [Table!Next]_table
  BY TableStep
<1> QED BY <1>1, TableInit, InitInv, InvStep, PTL DEF Spec, TableSpec, Table!Spec, table

-----------------------------------------------------------------------------
(* The session layer with a module at the other end, CISessionCAM.         *)

Messages == [what : {"OPEN_REQUEST", "CLOSE_REQUEST", "CLOSE_RESPONSE",
                     "CLOSEMMI", "MENU", "CA_INFO"},
             sess : Handles, res : CamRequests \cup {NULL}]

(* A request to open a session names a resource the module can ask for: it *)
(* is the case distinction of Parse_SPDU that the host's step depends on.  *)
Asked ==
    \A i \in 1 .. Len(toHost) :
        toHost[i].what = "OPEN_REQUEST" => toHost[i].res \in CamRequests

CamInv == CamTypeOK /\ Asked

-----------------------------------------------------------------------------
\* What the module says keeps the types and asks for nothing unknown to it.
LEMMA SayKeeps ==
    ASSUME CamInv, NEW m \in Messages, Say(m),
           m.what = "OPEN_REQUEST" => m.res \in CamRequests
    PROVE  /\ toHost' \in Seq(Messages)
           /\ Asked'
           /\ UNCHANGED vars
BY DEF CamInv, CamTypeOK, Asked, Say, Messages

\* The head and the tail of a queue.
LEMMA HeadTail ==
    ASSUME NEW S, NEW q \in Seq(S), q # <<>>
    PROVE  /\ Head(q) \in S /\ Head(q) = q[1] /\ Len(q) \in Nat \ {0}
           /\ Tail(q) \in Seq(S) /\ Len(Tail(q)) = Len(q) - 1
           /\ \A i \in 1 .. Len(Tail(q)) : Tail(q)[i] = q[i + 1]
OBVIOUS

\* What the host takes off the front keeps the rest as it was.
LEMMA TailKeeps ==
    ASSUME CamInv, toHost # <<>>
    PROVE  /\ Head(toHost) \in Messages
           /\ Head(toHost).what = "OPEN_REQUEST" => Head(toHost).res \in CamRequests
           /\ Tail(toHost) \in Seq(Messages)
           /\ \A i \in 1 .. Len(Tail(toHost)) :
                Tail(toHost)[i].what = "OPEN_REQUEST" => Tail(toHost)[i].res \in CamRequests
<1>1. toHost \in Seq(Messages)
  BY DEF CamInv, CamTypeOK, Messages
<1>2. Asked
  BY DEF CamInv
<1>3. /\ Head(toHost) = toHost[1] /\ 1 \in 1 .. Len(toHost)
      /\ \A i \in 1 .. Len(Tail(toHost)) :
            Tail(toHost)[i] = toHost[i + 1] /\ i + 1 \in 1 .. Len(toHost)
  BY <1>1, HeadTail
<1> QED BY <1>1, <1>2, <1>3, HeadTail DEF Asked

\* The module's own steps leave the host alone.
LEMMA CamStep ==
    ASSUME CamInv, Cam
    PROVE  UNCHANGED vars /\ CamInv'
<1> USE DEF CamInv, CamTypeOK
<1>0. 0 \in Handles
  BY HandlesFacts
<1>1. ASSUME NEW r \in CamRequests, CamOpen(r) PROVE UNCHANGED vars /\ CamInv'
  <2>1. Message("OPEN_REQUEST", 0, r) \in Messages
    BY <1>0 DEF Message, Messages
  <2>2. toHost' \in Seq(Messages) /\ Asked' /\ UNCHANGED vars
    BY <1>1, <2>1, SayKeeps DEF CamOpen, Message
  <2> QED BY <1>1, <2>2 DEF CamOpen, Messages, TypeOK, vars, tableVars, senderVars
<1>2. ASSUME NEW h \in Handles, NEW w \in {"CLOSE_REQUEST", "CLOSEMMI", "MENU", "CA_INFO"},
             Say(Message(w, h, held[h])), pending' = pending, held' = held,
             leaving' \in [Handles -> {"no", "closing", "mmi"}]
      PROVE  UNCHANGED vars /\ CamInv'
  <2>1. Message(w, h, held[h]) \in Messages /\ Message(w, h, held[h]).what # "OPEN_REQUEST"
    BY DEF Message, Messages
  <2>2. toHost' \in Seq(Messages) /\ Asked' /\ UNCHANGED vars
    BY <1>2, <2>1, SayKeeps
  <2> QED BY <1>2, <2>2 DEF Messages, TypeOK, vars, tableVars, senderVars
<1>3. ASSUME NEW h \in Handles, CamClose(h) PROVE UNCHANGED vars /\ CamInv'
  BY <1>2, <1>3 DEF CamClose
<1>4. ASSUME NEW h \in Handles, CamCloseMmi(h) PROVE UNCHANGED vars /\ CamInv'
  BY <1>2, <1>4 DEF CamCloseMmi
<1>5. ASSUME NEW h \in Handles, NEW r, NEW w \in {"MENU", "CA_INFO"}, CamData(h, r, w)
      PROVE  UNCHANGED vars /\ CamInv'
  BY <1>2, <1>5 DEF CamData
<1> QED BY <1>1, <1>3, <1>4, <1>5 DEF Cam

\* Data the host rejects changes nothing; the rest of Parse_SPDU is CISession's.
LEMMA ParseStep ==
    ASSUME CamInv, HostParses
    PROVE  [Next]_vars /\ Asked' /\ toHost' \in Seq(Messages)
           /\ UNCHANGED <<held, leaving, pending>>
<1> DEFINE m == Head(toHost)
<1>1. toHost # <<>> /\ toHost' = Tail(toHost) /\ UNCHANGED <<held, leaving, pending>>
  BY DEF HostParses, Parse
<1>2. m \in Messages /\ (m.what = "OPEN_REQUEST" => m.res \in CamRequests)
  BY <1>1, TailKeeps
<1>3. Asked' /\ toHost' \in Seq(Messages)
  BY <1>1, TailKeeps DEF Asked
<1>4. m.sess \in Handles
  BY <1>2 DEF Messages
<1>5. [Next]_vars
  <2>1. CASE Parse("OPEN_REQUEST") /\ Opened(m.res)
    BY <2>1, <1>2 DEF Parse, Opened, Next, Monitoring, OpenRequest
  <2>2. CASE CloseRequest(m.sess) \/ CloseResponse(m.sess)
    BY <2>2, <1>4 DEF Next, Monitoring
  <2>3. CASE DataCloseMmi(m.sess) \/ DataMenu(m.sess) \/ DataCaInfo(m.sess)
    BY <2>3, <1>4 DEF Next, Monitoring, SessionData
  <2>4. CASE DataRejected(m.sess)
    BY <2>4 DEF DataRejected
  <2> QED BY <2>1, <2>2, <2>3, <2>4 DEF HostParses
<1> QED BY <1>1, <1>3, <1>5

\* What the module makes of an SPDU keeps its types.
LEMMA DeliverKeeps ==
    ASSUME CamInv, Deliver
    PROVE  /\ Transmit
           /\ toHost' \in Seq(Messages) /\ Asked'
           /\ held' \in [Handles -> CamRequests \cup {NULL}]
           /\ leaving' \in [Handles -> {"no", "closing", "mmi"}]
           /\ pending' \in CamRequests \cup {NULL}
<1> USE DEF CamInv, CamTypeOK
<1> DEFINE s == Head(sendq)
<1>0. Transmit
  BY DEF Deliver
<1>1. s.sess \in Handles
  <2>1. sendq \in Seq(SPDUs) /\ sendq # <<>>
    BY <1>0 DEF Transmit, TypeOK
  <2>2. s \in SPDUs
    BY <2>1, HeadTail
  <2> QED BY <2>2 DEF SPDUs
<1>2. toHost \in Seq(Messages)
  BY DEF Messages
<1>3. CASE CamGetsAccept(s.sess)
  BY <1>0, <1>1, <1>2, <1>3 DEF CamGetsAccept, Asked
<1>4. CASE CamGetsRefusal
  BY <1>0, <1>2, <1>4 DEF CamGetsRefusal, Asked
<1>5. CASE CamGetsCloseResponse(s.sess)
  BY <1>0, <1>1, <1>2, <1>5 DEF CamGetsCloseResponse, Asked
<1>6. CASE CamGetsCloseRequest(s.sess)
  <2>1. Message("CLOSE_RESPONSE", s.sess, NULL) \in Messages
    BY <1>1 DEF Message, Messages
  <2>2. Message("CLOSE_RESPONSE", s.sess, NULL).what # "OPEN_REQUEST"
    BY DEF Message
  <2>3. toHost' \in Seq(Messages) /\ Asked'
    BY <2>1, <2>2, <1>2, <1>6 DEF CamGetsCloseRequest, Asked
  <2> QED BY <1>0, <1>1, <2>3, <1>6 DEF CamGetsCloseRequest
<1>7. CASE UNCHANGED camVars
  BY <1>0, <1>2, <1>7 DEF camVars, Asked
<1> QED BY <1>3, <1>4, <1>5, <1>6, <1>7 DEF Deliver

-----------------------------------------------------------------------------
\* Before the first slot is checked nothing is under way.
LEMMA CamInitInv == CamInit => CamInv
<1> SUFFICES ASSUME CamInit PROVE CamInv
  OBVIOUS
<1>1. TypeOK
  BY InitType DEF CamInit
<1>2. toHost = <<>> /\ toHost \in Seq(Messages) /\ Asked
  BY DEF CamInit, Asked
<1> QED BY <1>1, <1>2 DEF CamInit, CamInv, CamTypeOK, Messages

\* A step of the two is a step of the session layer, or none.
LEMMA CamNextStep == CamInv /\ [CamNext]_allVars => [Next]_vars /\ CamInv'
<1> SUFFICES ASSUME CamInv, [CamNext]_allVars PROVE [Next]_vars /\ CamInv'
  OBVIOUS
<1>t. [Next]_vars => TypeOK'
  BY TypeStep DEF CamInv, CamTypeOK
<1>u. UNCHANGED camVars /\ [Next]_vars => CamInv'
  BY <1>t DEF CamInv, CamTypeOK, camVars, Asked
<1>1. CASE Cam
  BY <1>1, CamStep
<1>2. CASE HostParses
  <2>1. [Next]_vars /\ Asked' /\ toHost' \in Seq(Messages) /\ UNCHANGED <<held, leaving, pending>>
    BY <1>2, ParseStep
  <2> QED BY <2>1, <1>t DEF CamInv, CamTypeOK, Messages
<1>3. CASE Deliver
  <2>1. [Next]_vars
    BY <1>3, DeliverKeeps DEF Next, Monitoring
  <2> QED BY <2>1, <1>3, <1>t, DeliverKeeps DEF CamInv, CamTypeOK, Messages
<1>4. CASE ModuleInserted /\ CamFresh
  <2>1. [Next]_vars
    BY <1>4 DEF Next, Monitoring
  <2>2. toHost' = <<>> /\ toHost' \in Seq(Messages) /\ Asked'
    BY <1>4 DEF CamFresh, Asked
  <2> QED BY <2>1, <2>2, <1>4, <1>t DEF CamFresh, CamInv, CamTypeOK, Messages
<1>5. CASE (ConfigDone \/ ConfigFailed \/ ModuleRemoved \/ ResetCAM) /\ UNCHANGED camVars
  BY <1>5, <1>u DEF Next, Monitoring
<1>6. CASE HostSends
  BY <1>6, <1>u DEF HostSends, Next
<1>7. CASE UNCHANGED allVars
  BY <1>7, <1>u DEF allVars
<1> QED BY <1>1, <1>2, <1>3, <1>4, <1>5, <1>6, <1>7 DEF CamNext, HostSlot

\* Nothing the module says or is told leaves the types of the SPDUs and of its
\* table of sessions.
THEOREM CamTypeCorrect == CamSpec => []CamTypeOK
<1>1. CamInv => CamTypeOK
  BY DEF CamInv
<1> QED BY <1>1, CamInitInv, CamNextStep, PTL DEF CamSpec

\* The session layer with a module at its other end is a session layer: what
\* such a module sends is something CISession lets any module send.
THEOREM ImplementsSession == CamSpec => Spec
<1>1. CamInit => Init
  BY DEF CamInit
<1> QED BY <1>1, CamInitInv, CamNextStep, PTL DEF CamSpec, Spec

\* So the table, the session fields and the start of a slot are sound, and the
\* promise of CISessionTable is kept, with such a module too.
THEOREM SessionSoundWithModule ==
    CamSpec => [](SessionTable /\ CurrentLive /\ FreshStart) /\ TableSpec
<1>1. Spec => [](SessionTable /\ CurrentLive /\ FreshStart)
  BY SessionTableHolds, CurrentLiveHolds, FreshStartHolds, PTL
<1> QED BY <1>1, ImplementsSession, ImplementsTable, PTL

-----------------------------------------------------------------------------
(* What host and module know of one another's sessions: the invariant that *)
(* relates the table of the host, the table of the module and the messages *)
(* under way in both directions.                                           *)

(* What is under way, by position.                                         *)

\* The j-th SPDU of the queue q is what, for session h.
At(q, j, what, h) == j \in 1 .. Len(q) /\ q[j].spdu = what /\ q[j].sess = h
Queued(j, what, h) == At(sendq, j, what, h)

\* The i-th message of the module in q is what, on session h.
From(q, i, what, h) == i \in 1 .. Len(q) /\ q[i].what = what /\ q[i].sess = h
Sent(i, what, h) == From(toHost, i, what, h)

\* The SPDUs after which the module holds, or no longer holds, session h.
Control(j, h) ==
    Queued(j, "OPEN_OK", h) \/ Queued(j, "CLOSE_REQUEST", h) \/ Queued(j, "CLOSE_RESPONSE", h)

Request(i) == \E h \in Handles : Sent(i, "OPEN_REQUEST", h)
Answer(j)  == \E h \in Handles : Queued(j, "OPEN_OK", h) \/ Queued(j, "OPEN_F0", h)

Says(i, h) == Sent(i, "MENU", h) \/ Sent(i, "CA_INFO", h)

\* The module has asked for the end of session h, and the host does not know yet.
Leaves(i, h) == Sent(i, "CLOSE_REQUEST", h) \/ Sent(i, "CLOSEMMI", h)

\* The module has said something on session h.
About(i, h) == Says(i, h) \/ Leaves(i, h) \/ Sent(i, "CLOSE_RESPONSE", h)

\* The answer to the open request found the queue full: the module waits for
\* it until the slot starts again.
Lost == pending # NULL /\ (\A i : ~Request(i)) /\ (\A j : ~Answer(j))

\* Host and module are both in the MMI dialogue of session h.
Live(h) ==
    /\ pResource[h] = "MMI" /\ held[h] = "MMI"
    /\ leaving[h] = "no" \/ \E i : Leaves(i, h)

-----------------------------------------------------------------------------
(* The invariant of the two, as long as a module is in the slot.           *)

\* There is one open request: on its way, answered or lost.
OneRequest ==
    /\ \A i : Request(i) =>
        /\ pending # NULL
        /\ \A k : Request(k) => k = i
        /\ \A j : ~Answer(j)
    /\ \A j : Answer(j) => pending # NULL /\ \A k : Answer(k) => k = j

\* ... and it is the one the module waits for.
Pending ==
    \A i \in 1 .. Len(toHost) : toHost[i].what = "OPEN_REQUEST" => toHost[i].res = pending

\* What the module makes of its sessions.
ModuleSessions ==
    \A h \in Handles :
        /\ held[h] = NULL => leaving[h] = "no"
        /\ held[h] # NULL /\ leaving[h] = "no" => pResource[h] = held[h]
        /\ leaving[h] = "mmi" => held[h] = "MMI" /\ pResource[h] = "MMI"

\* What the host has told the module, and it does not know yet.
HostTold ==
    \A h \in Handles :
        /\ \A j : Queued(j, "OPEN_OK", h) =>
            /\ pResource[h] # NULL /\ pResource[h] = pending
            /\ held[h] = NULL \/ leaving[h] = "closing"
        /\ \A j : Queued(j, "CLOSE_REQUEST", h) => leaving[h] = "mmi" /\ current["MMI"] # h
        /\ \A j : Queued(j, "CLOSE_RESPONSE", h) => held[h] # NULL /\ leaving[h] = "closing"
        /\ \A j, k : Control(j, h) /\ Control(k, h) /\ j < k =>
            Queued(j, "CLOSE_RESPONSE", h) /\ Queued(k, "OPEN_OK", h)

\* What the module has told the host, and it does not know yet.
ModuleTold ==
    \A h \in Handles :
        /\ \A i : About(i, h) =>
            /\ pResource[h] # NULL
            /\ \A k : About(k, h) /\ k < i => Says(k, h)
            /\ \A j : ~Control(j, h)
        /\ \A i : Says(i, h) \/ Leaves(i, h) => held[h] = pResource[h]
        /\ \A i : Sent(i, "CLOSE_REQUEST", h) => leaving[h] = "closing"
        /\ \A i : Sent(i, "CLOSEMMI", h) => leaving[h] = "mmi"
        /\ \A i : Sent(i, "MENU", h) => held[h] = "MMI"
        /\ \A i : Sent(i, "CLOSE_RESPONSE", h) =>
            held[h] = NULL /\ pResource[h] = "MMI" /\ current["MMI"] # h

\* The MMI field names the session both are in, or one the module does not know of yet.
Dialogue ==
    current["MMI"] # 0 =>
        \/ Lost
        \/ \E j : Queued(j, "OPEN_OK", current["MMI"])
        \/ Live(current["MMI"])

\* A new dialogue is asked for behind the end of the old one.
AsksBehind ==
    pending = "MMI" =>
        \A i : Request(i) =>
            \A h \in Handles : held[h] = "MMI" =>
                leaving[h] # "no" /\ \A k : Leaves(k, h) => k < i

\* The module speaks on a session before it asks for its end, never after.
Follows ==
    \A h \in Handles : \A i : Says(i, h) => leaving[h] = "no" \/ \E k : Leaves(k, h)

(* With a patient module.                                                  *)

\* There is one dialogue, but for those the module is closing itself.
OneDialogue ==
    \A h \in Handles : held[h] = "MMI" /\ leaving[h] # "closing" =>
        /\ pending # "MMI"
        /\ \A k \in Handles : held[k] = "MMI" /\ k # h => leaving[k] = "closing"

\* The MMI field is the session of the dialogue, and of the one just granted.
FieldOfDialogue ==
    \A h \in Handles :
        /\ Live(h) => current["MMI"] = h
        /\ \A j : Queued(j, "OPEN_OK", h) /\ pending = "MMI" => current["MMI"] = h

\* While a dialogue ends at the host's demand there is no other.
Ending ==
    \A h \in Handles :
        /\ \A j : Queued(j, "CLOSE_REQUEST", h) =>
            pending # "MMI" /\ \A k \in Handles : ~Live(k)
        /\ \A i : Sent(i, "CLOSE_RESPONSE", h) =>
            /\ pending = "MMI" => \E k : Request(k) /\ i < k
            /\ \A k \in Handles : ~Live(k)

Known ==
    /\ OneRequest /\ Pending /\ ModuleSessions /\ HostTold /\ ModuleTold
    /\ Dialogue /\ AsksBehind /\ Follows
    /\ PatientMmi => OneDialogue /\ FieldOfDialogue /\ Ending

(* With room for every answer.                                             *)

Fits == linkUp /\ AnswerFits

\* What the module has asked for on session h, and what the host has granted,
\* is under way or known to both.
Account(h) ==
    /\ leaving[h] # "no" =>
        \/ \E i : Leaves(i, h)
        \/ \E j : Queued(j, "CLOSE_REQUEST", h) \/ Queued(j, "CLOSE_RESPONSE", h)
    /\ pResource[h] # NULL =>
        \/ \E j : Queued(j, "OPEN_OK", h)
        \/ \E i : Sent(i, "CLOSE_RESPONSE", h)
        \/ held[h] = pResource[h] /\ \A j : ~Queued(j, "CLOSE_RESPONSE", h)

Awaited == pending # NULL => (\E i : Request(i)) \/ \E j : Answer(j)

\* Whatever one of the two waits for is under way.
Accounted == Awaited /\ \A h \in Handles : Account(h)

-----------------------------------------------------------------------------
(* How a step changes what is under way.                                   *)

\* The SPDUs that answer the module or end a session.
Words == {"OPEN_OK", "OPEN_F0", "CLOSE_REQUEST", "CLOSE_RESPONSE"}

\* The SPDUs in W: nothing new, s at the end, the oldest is gone.
Still(W) == \A j, h : \A w \in W : Queued(j, w, h)' <=> Queued(j, w, h)
Queues(W, s) ==
    \A j, h : \A w \in W :
        Queued(j, w, h)' <=> Queued(j, w, h) \/ (j = Len(sendq) + 1 /\ w = s.spdu /\ h = s.sess)
Unqueues ==
    \A j, w, h :
        /\ Queued(j, w, h)' <=> j \in Nat \ {0} /\ Queued(j + 1, w, h)
        /\ Queued(j, w, h) => j = 1 \/ Queued(j - 1, w, h)'

\* The same of the messages of the module.
Silent == \A i, w, h : Sent(i, w, h)' <=> Sent(i, w, h)
Tells(m) ==
    \A i, w, h :
        Sent(i, w, h)' <=> Sent(i, w, h) \/ (i = Len(toHost) + 1 /\ w = m.what /\ h = m.sess)
Hears ==
    \A i, w, h :
        /\ Sent(i, w, h)' <=> i \in Nat \ {0} /\ Sent(i + 1, w, h)
        /\ Sent(i, w, h) => i = 1 \/ Sent(i - 1, w, h)'

\* What is at a position is one thing, and no position is past the end.
LEMMA Places ==
    ASSUME CamInv
    PROVE  /\ Len(sendq) \in Nat /\ Len(toHost) \in Nat
           /\ \A j, w, h : Queued(j, w, h) => /\ j \in Nat \ {0} /\ j < Len(sendq) + 1
                                              /\ \A v, k : Queued(j, v, k) => v = w /\ k = h
           /\ \A i, w, h : Sent(i, w, h) => /\ i \in Nat \ {0} /\ i < Len(toHost) + 1
                                            /\ \A v, k : Sent(i, v, k) => v = w /\ k = h
BY DEF CamInv, CamTypeOK, TypeOK, Queued, At, Sent, From

LEMMA AppendTo ==
    ASSUME NEW S, NEW q \in Seq(S), NEW m \in S
    PROVE  /\ Append(q, m) \in Seq(S) /\ Len(Append(q, m)) = Len(q) + 1 /\ Len(q) \in Nat
           /\ \A i \in 1 .. Len(q) : Append(q, m)[i] = q[i]
           /\ Append(q, m)[Len(q) + 1] = m
OBVIOUS

\* CI_WriteData adds at the end or drops; nothing else is disturbed.
LEMMA EnqueueAt ==
    ASSUME NEW q \in Seq(SPDUs), NEW up, NEW s \in SPDUs
    PROVE  /\ Enqueue(q, up, s) \in Seq(SPDUs)
           /\ \/ Enqueue(q, up, s) = q
              \/ \A j, w, h : At(Enqueue(q, up, s), j, w, h) <=>
                    At(q, j, w, h) \/ (j = Len(q) + 1 /\ w = s.spdu /\ h = s.sess)
           /\ up /\ Len(q) < CI_T_SENDQSIZE => Enqueue(q, up, s) = Append(q, s)
<1>1. /\ Append(q, s) \in Seq(SPDUs)
      /\ Len(Append(q, s)) = Len(q) + 1 /\ Len(q) \in Nat
      /\ \A i \in 1 .. Len(q) : Append(q, s)[i] = q[i]
      /\ Append(q, s)[Len(q) + 1] = s
  BY AppendTo
<1>2. \A j, w, h : At(Append(q, s), j, w, h) <=>
            At(q, j, w, h) \/ (j = Len(q) + 1 /\ w = s.spdu /\ h = s.sess)
  BY <1>1 DEF At
<1> QED BY <1>1, <1>2 DEF Enqueue

\* Send1 of an SPDU: at the end of the queue, or dropped; if it is not an
\* answer and ends nothing, nothing changes that the module must know.
LEMMA SendOne ==
    ASSUME CamInv, NEW s \in SPDUs, Send1(s), NEW W
    PROVE  /\ Still(W) \/ Queues(W, s)
           /\ s.spdu \notin W => Still(W)
           /\ linkUp /\ Len(sendq) < CI_T_SENDQSIZE => Queues(W, s)
<1>1. sendq \in Seq(SPDUs)
  BY DEF CamInv, CamTypeOK, TypeOK
<1>2. CASE sendq' = sendq
  <2>1. Still(W)
    BY <1>2 DEF Still, Queued
  <2>2. ~(linkUp /\ Len(sendq) < CI_T_SENDQSIZE)
    <3>1. Len(Append(sendq, s)) = Len(sendq) + 1 /\ Len(sendq) \in Nat
      BY <1>1, AppendTo
    <3> QED BY <3>1, <1>2 DEF Send1, Enqueue
  <2> QED BY <2>1, <2>2
<1>3. CASE sendq' # sendq
  <2>1. \A j, w, h : At(sendq', j, w, h) <=>
            At(sendq, j, w, h) \/ (j = Len(sendq) + 1 /\ w = s.spdu /\ h = s.sess)
    BY <1>1, <1>3, EnqueueAt DEF Send1
  <2>2. Queues(W, s)
    BY <2>1 DEF Queues, Queued
  <2>3. s.spdu \notin W => Still(W)
    BY <2>1 DEF Still, Queued
  <2> QED BY <2>2, <2>3
<1> QED BY <1>2, <1>3

\* Two at once, as Connect does: the second ends nothing.
LEMMA SendTwo ==
    ASSUME CamInv, NEW s \in SPDUs, NEW u \in SPDUs, Send2(s, u), u.spdu \notin Words
    PROVE  /\ Still(Words) \/ Queues(Words, s)
           /\ linkUp /\ Len(sendq) < CI_T_SENDQSIZE => Queues(Words, s)
<1> DEFINE q == Enqueue(sendq, linkUp, s)
<1>1. sendq \in Seq(SPDUs) /\ q \in Seq(SPDUs)
  BY EnqueueAt DEF CamInv, CamTypeOK, TypeOK
<1>2. \A j, h : \A w \in Words : At(sendq', j, w, h) <=> At(q, j, w, h)
  <2>1. \/ sendq' = q
        \/ \A j, w, h : At(sendq', j, w, h) <=>
              At(q, j, w, h) \/ (j = Len(q) + 1 /\ w = u.spdu /\ h = u.sess)
    BY <1>1, EnqueueAt DEF Send2
  <2> QED BY <2>1
<1>3. CASE q = sendq
  <2>1. Still(Words)
    BY <1>2, <1>3 DEF Still, Queued
  <2>2. ~(linkUp /\ Len(sendq) < CI_T_SENDQSIZE)
    <3>1. Len(Append(sendq, s)) = Len(sendq) + 1 /\ Len(sendq) \in Nat
      BY <1>1, AppendTo
    <3> QED BY <3>1, <1>3 DEF Enqueue
  <2> QED BY <2>1, <2>2
<1>4. CASE q # sendq
  <2>1. \A j, w, h : At(q, j, w, h) <=>
            At(sendq, j, w, h) \/ (j = Len(sendq) + 1 /\ w = s.spdu /\ h = s.sess)
    BY <1>1, <1>4, EnqueueAt
  <2>2. Queues(Words, s)
    BY <1>2, <2>1 DEF Queues, Queued
  <2> QED BY <2>2
<1> QED BY <1>3, <1>4

\* The host writes the head of its queue.
LEMMA TransmitTakes ==
    ASSUME CamInv, Transmit
    PROVE  /\ Unqueues
           /\ Head(sendq).sess \in Handles
           /\ Queued(1, Head(sendq).spdu, Head(sendq).sess)
<1>1. sendq \in Seq(SPDUs) /\ sendq # <<>> /\ sendq' = Tail(sendq)
  BY DEF CamInv, CamTypeOK, TypeOK, Transmit
<1>2. /\ Head(sendq) \in SPDUs
      /\ Head(sendq) = sendq[1] /\ Len(sendq) \in Nat \ {0}
      /\ Len(sendq') = Len(sendq) - 1
      /\ \A i \in 1 .. Len(sendq') : sendq'[i] = sendq[i + 1]
  BY <1>1, HeadTail
<1>3. Head(sendq).sess \in Handles
  BY <1>2 DEF SPDUs
<1>4. Queued(1, Head(sendq).spdu, Head(sendq).sess)
  BY <1>2 DEF Queued, At
<1>5. Unqueues
  BY <1>2 DEF Unqueues, Queued, At
<1> QED BY <1>3, <1>4, <1>5

\* The module says m.
LEMMA AppendTells ==
    ASSUME CamInv, NEW m \in Messages, toHost' = Append(toHost, m)
    PROVE  Tells(m)
<1>1. toHost \in Seq(Messages)
  BY DEF CamInv, CamTypeOK, Messages
<1>2. /\ Len(toHost') = Len(toHost) + 1 /\ Len(toHost) \in Nat
      /\ \A i \in 1 .. Len(toHost) : toHost'[i] = toHost[i]
      /\ toHost'[Len(toHost) + 1] = m
  BY <1>1, AppendTo
<1> QED BY <1>2 DEF Tells, Sent, From

\* The host takes the oldest message of the module.
LEMMA ParseHears ==
    ASSUME CamInv, NEW what, Parse(what)
    PROVE  /\ Hears
           /\ Head(toHost).sess \in Handles
           /\ Sent(1, what, Head(toHost).sess)
           /\ UNCHANGED <<held, leaving, pending>>
<1>1. toHost \in Seq(Messages) /\ toHost # <<>> /\ toHost' = Tail(toHost) /\ Head(toHost).what = what
  BY DEF CamInv, CamTypeOK, Parse, Messages
<1>2. /\ Head(toHost) \in Messages
      /\ Head(toHost) = toHost[1] /\ Len(toHost) \in Nat \ {0}
      /\ Len(toHost') = Len(toHost) - 1
      /\ \A i \in 1 .. Len(toHost') : toHost'[i] = toHost[i + 1]
  BY <1>1, HeadTail
<1>3. Head(toHost).sess \in Handles
  BY <1>2 DEF Messages
<1>4. Sent(1, what, Head(toHost).sess)
  BY <1>1, <1>2 DEF Sent, From
<1>5. Hears
  BY <1>2 DEF Hears, Sent, From
<1> QED BY <1>3, <1>4, <1>5 DEF Parse

-----------------------------------------------------------------------------
(* Known is kept, kind of step by kind of step.                            *)

\* A step that moves no answer and no message.
LEMMA QuietKnown ==
    ASSUME CamInv, Known, Still(Words), UNCHANGED <<toHost, held, leaving, pending, pResource>>,
           current'["MMI"] = current["MMI"]
    PROVE  Known' /\ (Accounted => Accounted')
<1> USE DEF Known, Words
<1>q. \A j, h : /\ Queued(j, "OPEN_OK", h)' <=> Queued(j, "OPEN_OK", h)
                /\ Queued(j, "OPEN_F0", h)' <=> Queued(j, "OPEN_F0", h)
                /\ Queued(j, "CLOSE_REQUEST", h)' <=> Queued(j, "CLOSE_REQUEST", h)
                /\ Queued(j, "CLOSE_RESPONSE", h)' <=> Queued(j, "CLOSE_RESPONSE", h)
  BY DEF Still
<1>s. \A i, w, h : Sent(i, w, h)' <=> Sent(i, w, h)
  BY DEF Sent
<1>1. OneRequest'
  BY <1>q, <1>s DEF OneRequest, Request, Answer
<1>2. Pending'
  BY DEF Pending
<1>3. ModuleSessions'
  BY DEF ModuleSessions
<1>4. HostTold'
  BY <1>q DEF HostTold, Control
<1>5. ModuleTold'
  BY <1>q, <1>s DEF ModuleTold, About, Says, Leaves, Control
<1>6. Dialogue'
  BY <1>q, <1>s DEF Dialogue, Lost, Live, Request, Answer, Leaves
<1>7. AsksBehind'
  BY <1>s DEF AsksBehind, Request, Leaves
<1>8. Follows'
  BY <1>s DEF Follows, Says, Leaves
<1>9. PatientMmi => OneDialogue'
  BY DEF OneDialogue
<1>10. PatientMmi => FieldOfDialogue'
  BY <1>q, <1>s DEF FieldOfDialogue, Live, Leaves
<1>11. PatientMmi => Ending'
  BY <1>q, <1>s DEF Ending, Live, Leaves, Request
<1>12. Accounted => Accounted'
  BY <1>q, <1>s DEF Accounted, Awaited, Account, Request, Answer, Leaves
<1> QED BY <1>1, <1>2, <1>3, <1>4, <1>5, <1>6, <1>7, <1>8, <1>9, <1>10, <1>11, <1>12

\* When the oldest message is gone, each of the others is one place further on.
LEMMA MovesUp ==
    ASSUME CamInv, Hears
    PROVE  /\ \A i : Request(i)' => i \in Nat \ {0} /\ Request(i + 1)
           /\ \A i : Request(i) => i \in Nat \ {0} /\ (i = 1 \/ Request(i - 1)')
           /\ \A i, h : Says(i, h)' <=> i \in Nat \ {0} /\ Says(i + 1, h)
           /\ \A i, h : Leaves(i, h)' => i \in Nat \ {0} /\ Leaves(i + 1, h)
           /\ \A i, h : Leaves(i, h) => i \in Nat \ {0} /\ (i = 1 \/ Leaves(i - 1, h)')
           /\ \A i, h : About(i, h)' => i \in Nat \ {0} /\ About(i + 1, h)
           /\ \A i, w, h : Sent(i, w, h)' => i \in Nat \ {0} /\ Sent(i + 1, w, h)
           /\ \A i, w, h : Sent(i, w, h) => i \in Nat \ {0} /\ (i = 1 \/ Sent(i - 1, w, h)')
<1>p. \A i, w, k : Sent(i, w, k) => i \in Nat \ {0}
  BY Places
<1>1. \A i, w, h : Sent(i, w, h)' => i \in Nat \ {0} /\ Sent(i + 1, w, h)
  BY DEF Hears
<1>2. \A i, w, h : Sent(i, w, h) => i \in Nat \ {0} /\ (i = 1 \/ Sent(i - 1, w, h)')
  BY <1>p DEF Hears
<1>3. \A i, h : Leaves(i, h) => i \in Nat \ {0} /\ (i = 1 \/ Leaves(i - 1, h)')
  BY <1>2 DEF Leaves
<1>4. \A i, h : /\ Leaves(i, h)' => i \in Nat \ {0} /\ Leaves(i + 1, h)
                /\ Says(i, h)' <=> i \in Nat \ {0} /\ Says(i + 1, h)
  BY <1>1 DEF Leaves, Says, Hears
<1>5. \A i, h : About(i, h)' => i \in Nat \ {0} /\ About(i + 1, h)
  BY <1>1, <1>4 DEF About
<1>6. \A i : Request(i)' => i \in Nat \ {0} /\ Request(i + 1)
  BY <1>1 DEF Request
<1>7. \A i : Request(i) => i \in Nat \ {0} /\ (i = 1 \/ Request(i - 1)')
  BY <1>2 DEF Request
<1> QED BY <1>1, <1>2, <1>3, <1>4, <1>5, <1>6, <1>7

\* The head of the module's queue is one thing, on one session.
LEMMA First ==
    ASSUME CamInv, NEW w, NEW h, Sent(1, w, h)
    PROVE  \A k : /\ Says(1, k) <=> w \in {"MENU", "CA_INFO"} /\ k = h
                  /\ Leaves(1, k) <=> w \in {"CLOSE_REQUEST", "CLOSEMMI"} /\ k = h
                  /\ Request(1) <=> w = "OPEN_REQUEST" /\ h \in Handles
                  /\ About(1, k) <=> k = h /\ w \in {"MENU", "CA_INFO", "CLOSE_REQUEST",
                                                     "CLOSEMMI", "CLOSE_RESPONSE"}
BY Places DEF Says, Leaves, About, Request

\* A step that moves no answer leaves answers and ends of sessions where they were.
LEMMA StillParts ==
    ASSUME Still(Words)
    PROVE  /\ \A j : Answer(j)' <=> Answer(j)
           /\ \A j, h : /\ Queued(j, "OPEN_OK", h)' <=> Queued(j, "OPEN_OK", h)
                        /\ Queued(j, "OPEN_F0", h)' <=> Queued(j, "OPEN_F0", h)
                        /\ Queued(j, "CLOSE_REQUEST", h)' <=> Queued(j, "CLOSE_REQUEST", h)
                        /\ Queued(j, "CLOSE_RESPONSE", h)' <=> Queued(j, "CLOSE_RESPONSE", h)
                        /\ Control(j, h)' <=> Control(j, h)
BY DEF Still, Words, Control, Answer

\* No message and no answer but the oldest message comes or goes.
LEMMA RequestsMoveUp ==
    ASSUME CamInv, OneRequest, Hears, pending' = pending, \A j : Answer(j)' <=> Answer(j)
    PROVE  OneRequest'
<1>1. \A i : Request(i)' => pending # NULL /\ \A j : ~Answer(j)
  BY MovesUp DEF OneRequest
<1>2. \A i, k : Request(i)' /\ Request(k)' => k = i
  BY MovesUp DEF OneRequest
<1> QED BY <1>1, <1>2 DEF OneRequest

\* What the host parses about one session ends no dialogue on another.
LEMMA LiveMovesUp ==
    ASSUME CamInv, Hears, NEW w, NEW h, Sent(1, w, h), NEW k,
           k # h \/ w \notin {"CLOSE_REQUEST", "CLOSEMMI"},
           UNCHANGED <<held, leaving>>, pResource'[k] = pResource[k]
    PROVE  Live(k) => Live(k)'
<1>1. ~Leaves(1, k)
  BY First
<1> QED BY <1>1, MovesUp DEF Live

\* The end of a dialogue is still the end of the only one.
LEMMA EndingMovesUp ==
    ASSUME CamInv, Ending, Hears, NEW w, NEW h, Sent(1, w, h), w # "OPEN_REQUEST",
           pending' = pending, \A k \in Handles : Live(k)' => Live(k),
           \A j : \A k \in Handles : Queued(j, "CLOSE_REQUEST", k)' => Queued(j, "CLOSE_REQUEST", k)
    PROVE  Ending'
<1>1. \A k \in Handles : \A j : Queued(j, "CLOSE_REQUEST", k)' =>
            pending' # "MMI" /\ \A l \in Handles : ~Live(l)'
  BY DEF Ending
<1>2. ASSUME NEW k \in Handles, NEW i, Sent(i, "CLOSE_RESPONSE", k)'
      PROVE  /\ pending' = "MMI" => \E l : Request(l)' /\ i < l
             /\ \A l \in Handles : ~Live(l)'
  <2>1. i \in Nat \ {0} /\ Sent(i + 1, "CLOSE_RESPONSE", k)
    BY <1>2, MovesUp
  <2>2. \A l \in Handles : ~Live(l)'
    BY <2>1 DEF Ending
  <2>3. ASSUME pending' = "MMI" PROVE \E l : Request(l)' /\ i < l
    <3>1. PICK l : Request(l) /\ i + 1 < l
      BY <2>1, <2>3 DEF Ending
    <3>2. l \in Nat /\ l # 1
      BY <3>1, First, MovesUp
    <3>3. Request(l - 1)' /\ i < l - 1
      BY <2>1, <3>1, <3>2, MovesUp
    <3> QED BY <3>3
  <2> QED BY <2>2, <2>3
<1> QED BY <1>1, <1>2 DEF Ending

\* What the module waits for is still under way, but for what is parsed now.
LEMMA AwaitedMovesUp ==
    ASSUME CamInv, Awaited, Hears, NEW w, NEW h, Sent(1, w, h), w # "OPEN_REQUEST",
           pending' = pending, \A j : Answer(j) => Answer(j)'
    PROVE  Awaited'
<1>1. ~Request(1)
  BY First
<1>2. (\E i : Request(i)) => \E i : Request(i)'
  BY <1>1, MovesUp
<1> QED BY <1>2 DEF Awaited

LEMMA AccountMovesUp ==
    ASSUME CamInv, Hears, NEW w, NEW h, Sent(1, w, h), NEW k, Account(k),
           k # h \/ w \in {"MENU", "CA_INFO", "OPEN_REQUEST"},
           UNCHANGED <<held, leaving>>, pResource'[k] = pResource[k],
           \A j : /\ Queued(j, "OPEN_OK", k) => Queued(j, "OPEN_OK", k)'
                  /\ Queued(j, "CLOSE_REQUEST", k) => Queued(j, "CLOSE_REQUEST", k)'
                  /\ Queued(j, "CLOSE_RESPONSE", k)' <=> Queued(j, "CLOSE_RESPONSE", k)
    PROVE  Account(k)'
<1>1. ~Leaves(1, k)
  BY First
<1>2. (\E i : Leaves(i, k)) => \E i : Leaves(i, k)'
  BY <1>1, MovesUp
<1>3. ~Sent(1, "CLOSE_RESPONSE", k)
  BY Places
<1>4. (\E i : Sent(i, "CLOSE_RESPONSE", k)) => \E i : Sent(i, "CLOSE_RESPONSE", k)'
  BY <1>3, MovesUp
<1> QED BY <1>2, <1>4 DEF Account

\* An SPDU more at the end of the queue.
LEMMA QueuesParts ==
    ASSUME CamInv, NEW w \in Words, NEW l \in Handles, Queues(Words, SPDU(w, l))
    PROVE  /\ \A j : Answer(j)' <=> Answer(j) \/ (j = Len(sendq) + 1 /\ w \in {"OPEN_OK", "OPEN_F0"})
           /\ \A v \in Words : \A j, h :
                Queued(j, v, h)' <=> Queued(j, v, h) \/ (j = Len(sendq) + 1 /\ v = w /\ h = l)
           /\ \A j, h : Control(j, h)' <=>
                Control(j, h) \/ (j = Len(sendq) + 1 /\ w # "OPEN_F0" /\ h = l)
           /\ \A j : Answer(j) => j \in Nat /\ j < Len(sendq) + 1
           /\ \A j, h : Control(j, h) => j \in Nat /\ j < Len(sendq) + 1
<1>1. \A v \in Words : \A j, h :
          Queued(j, v, h)' <=> Queued(j, v, h) \/ (j = Len(sendq) + 1 /\ v = w /\ h = l)
  BY DEF Queues, SPDU
<1>2. \A j : Answer(j)' <=> Answer(j) \/ (j = Len(sendq) + 1 /\ w \in {"OPEN_OK", "OPEN_F0"})
  BY <1>1 DEF Answer, Words
<1>3. \A j, h : Control(j, h)' <=>
          Control(j, h) \/ (j = Len(sendq) + 1 /\ w # "OPEN_F0" /\ h = l)
  BY <1>1 DEF Control, Words
<1>4. \A j : Answer(j) => j \in Nat /\ j < Len(sendq) + 1
  BY Places DEF Answer
<1>5. \A j, h : Control(j, h) => j \in Nat /\ j < Len(sendq) + 1
  BY Places DEF Control
<1> QED BY <1>1, <1>2, <1>3, <1>4, <1>5

\* Close of a session (CloseRequest, CloseResponse) concerns one session, and
\* the MMI field if the session is one of MMI.
LEMMA FreeFacts ==
    ASSUME CamInv, NEW h \in Handles, Free(h)
    PROVE  /\ pResource'[h] = NULL
           /\ \A k \in Handles \ {h} : pResource'[k] = pResource[k]
           /\ current'["MMI"] = IF pResource[h] = "MMI" THEN 0 ELSE current["MMI"]
<1>1. "MMI" \in Fields /\ "CaSupport" \in Fields
  BY DEF Fields, Resources
<1> QED BY <1>1 DEF Free, Closed, CamInv, CamTypeOK, TypeOK

\* The host takes data of the module on an open session (DataMenu, DataCaInfo).
LEMMA DataKnown ==
    ASSUME CamInv, Known, NEW h \in Handles, NEW w \in {"MENU", "CA_INFO"},
           Sent(1, w, h), Hears, Still(Words),
           toHost # <<>>, toHost' = Tail(toHost),
           UNCHANGED <<held, leaving, pending, pResource>>,
           current'["MMI"] = current["MMI"]
    PROVE  Known' /\ (Fits /\ Accounted => Accounted')
<1> USE DEF Known
<1>1. OneRequest'
  BY RequestsMoveUp, StillParts
<1>2. Pending'
  BY TailKeeps, HeadTail DEF Pending
<1>3. ModuleSessions'
  BY DEF ModuleSessions
<1>4. HostTold'
  BY StillParts DEF HostTold
<1>5. ModuleTold'
  <2>1. \A k \in Handles : \A i, j : About(i, k)' /\ About(j, k)' /\ j < i => Says(j, k)'
    BY MovesUp DEF ModuleTold
  <2> QED BY <2>1, StillParts, MovesUp DEF ModuleTold
<1>6. Dialogue'
  <2>2. \A k : Live(k) => Live(k)'
    BY LiveMovesUp
  <2>3. Lost => Lost'
    BY MovesUp, StillParts DEF Lost
  <2> QED BY <2>2, <2>3, StillParts DEF Dialogue
<1>7. AsksBehind'
  BY MovesUp DEF AsksBehind
<1>8. Follows'
  <2>1. \A k : ~Leaves(1, k)
    BY First
  <2> QED BY <2>1, MovesUp DEF Follows
<1>9. PatientMmi => OneDialogue'
  BY DEF OneDialogue
<1>l. \A k : Live(k)' => Live(k)
  BY MovesUp DEF Live
<1>10. PatientMmi => FieldOfDialogue'
  BY <1>l, StillParts DEF FieldOfDialogue
<1>11. PatientMmi => Ending'
  BY <1>l, EndingMovesUp, StillParts
<1>12. Accounted => Accounted'
  <2>1. Awaited => Awaited'
    BY AwaitedMovesUp, StillParts
  <2>2. \A k \in Handles : Account(k) => Account(k)'
    BY AccountMovesUp, StillParts
  <2> QED BY <2>1, <2>2 DEF Accounted
<1> QED BY <1>1, <1>2, <1>3, <1>4, <1>5, <1>6, <1>7, <1>8, <1>9, <1>10, <1>11, <1>12

\* The word that ends the module's side of a session is its last on it.
LEMMA LastWord ==
    ASSUME CamInv, ModuleTold, NEW h \in Handles,
           NEW w \in {"CLOSE_REQUEST", "CLOSEMMI", "CLOSE_RESPONSE"}, Sent(1, w, h)
    PROVE  /\ pResource[h] # NULL
           /\ \A j : ~Control(j, h)
           /\ \A i : About(i, h) => i = 1
<1>1. \A i : About(i, h) => i \in Nat \ {0}
  BY Places DEF About, Says, Leaves
<1>2. About(1, h) /\ ~Says(1, h)
  BY First
<1>3. \A i : About(i, h) /\ 1 < i => Says(1, h)
  BY <1>2 DEF ModuleTold
<1>4. \A i : About(i, h) => i = 1
  BY <1>1, <1>2, <1>3
<1> QED BY <1>2, <1>4 DEF ModuleTold

\* When there is room for an answer, the answer is queued.
LEMMA RoomToAnswer ==
    ASSUME CamInv, Fits, slot = "CISTART", NEW h,
           NEW w \in {"OPEN_REQUEST", "CLOSE_REQUEST", "CLOSEMMI"}, Sent(1, w, h)
    PROVE  linkUp /\ Len(sendq) < CI_T_SENDQSIZE
<1>1. toHost \in Seq(Messages) /\ toHost # <<>>
  BY DEF CamInv, CamTypeOK, Messages, Sent, From
<1>2. Head(toHost) = toHost[1]
  BY <1>1, HeadTail
<1> QED BY <1>1, <1>2 DEF Fits, AnswerFits, Sent, From

\* The module gives up a session: the host forgets it and queues its response,
\* or finds no room for it.
LEMMA CloseRequestKnown ==
    ASSUME CamInv, Inv, Known, NEW h \in Handles, Sent(1, "CLOSE_REQUEST", h), Hears,
           toHost # <<>>, toHost' = Tail(toHost), UNCHANGED <<held, leaving, pending>>,
           CloseRequest(h)
    PROVE  Known' /\ (Fits /\ Accounted => Accounted')
<1> USE DEF Known
<1>h. /\ pResource[h] # NULL /\ held[h] = pResource[h] /\ leaving[h] = "closing"
      /\ \A j : ~Control(j, h)
      /\ \A i : About(i, h) => i = 1
  BY LastWord DEF ModuleTold, Leaves
<1>f. /\ pResource'[h] = NULL
      /\ \A k \in Handles \ {h} : pResource'[k] = pResource[k]
      /\ current'["MMI"] = IF pResource[h] = "MMI" THEN 0 ELSE current["MMI"]
  BY FreeFacts DEF CloseRequest
<1>z. pResource[0] = NULL /\ NULL # "MMI" /\ 0 \in Handles
  BY NullFact, HandlesFacts DEF Inv, SessionTable, Resources, NULL
<1>a. \A i : ~About(i, h)'
  BY <1>h, MovesUp
<1>q. /\ \A j : Answer(j)' <=> Answer(j)
      /\ \A j, k : /\ Queued(j, "OPEN_OK", k)' <=> Queued(j, "OPEN_OK", k)
                   /\ Queued(j, "CLOSE_REQUEST", k)' <=> Queued(j, "CLOSE_REQUEST", k)
                   /\ k # h => (Queued(j, "CLOSE_RESPONSE", k)' <=> Queued(j, "CLOSE_RESPONSE", k))
                   /\ k # h => (Control(j, k)' <=> Control(j, k))
                   /\ Control(j, h)' => j = Len(sendq) + 1 /\ Queued(j, "CLOSE_RESPONSE", h)'
      /\ Fits => \E j : Queued(j, "CLOSE_RESPONSE", h)'
  <2>1. SPDU("CLOSE_RESPONSE", h) \in SPDUs
    BY SPDUTypes
  <2>2. /\ Still(Words) \/ Queues(Words, SPDU("CLOSE_RESPONSE", h))
        /\ Fits => Queues(Words, SPDU("CLOSE_RESPONSE", h))
    BY <2>1, SendOne, RoomToAnswer DEF CloseRequest
  <2>3. CASE Still(Words) /\ ~Queues(Words, SPDU("CLOSE_RESPONSE", h))
    BY <2>2, <2>3, <1>h, StillParts
  <2>4. CASE Queues(Words, SPDU("CLOSE_RESPONSE", h))
    BY <2>4, <1>h, QueuesParts DEF Words
  <2> QED BY <2>2, <2>3, <2>4
<1>1. OneRequest'
  BY RequestsMoveUp, <1>q
<1>2. Pending'
  BY TailKeeps, HeadTail DEF Pending
<1>3. ModuleSessions'
  BY <1>h, <1>f DEF ModuleSessions
<1>4. HostTold'
  <2>1. ASSUME NEW k \in Handles, k # h
        PROVE  /\ \A j : Queued(j, "OPEN_OK", k)' =>
                    /\ pResource'[k] # NULL /\ pResource'[k] = pending'
                    /\ held'[k] = NULL \/ leaving'[k] = "closing"
               /\ \A j : Queued(j, "CLOSE_REQUEST", k)' => leaving'[k] = "mmi" /\ current'["MMI"] # k
               /\ \A j : Queued(j, "CLOSE_RESPONSE", k)' => held'[k] # NULL /\ leaving'[k] = "closing"
               /\ \A j, l : Control(j, k)' /\ Control(l, k)' /\ j < l =>
                    Queued(j, "CLOSE_RESPONSE", k)' /\ Queued(l, "OPEN_OK", k)'
    BY <2>1, <1>f, <1>q, <1>z DEF HostTold, ModuleSessions
  <2>2. \A j : ~Queued(j, "OPEN_OK", h)' /\ ~Queued(j, "CLOSE_REQUEST", h)'
    BY <1>h, <1>q DEF Control
  <2>3. \A j, l : Control(j, h)' /\ Control(l, h)' => ~(j < l)
    BY <1>q, Places
  <2> QED BY <2>1, <2>2, <2>3, <1>h DEF HostTold
<1>5. ModuleTold'
  <2>1. \A k \in Handles : \A i, j : About(i, k)' /\ About(j, k)' /\ j < i => Says(j, k)'
    BY MovesUp DEF ModuleTold
  <2>2. \A i : ~Says(i, h)' /\ ~Leaves(i, h)' /\ ~Sent(i, "CLOSE_REQUEST", h)'
              /\ ~Sent(i, "CLOSEMMI", h)' /\ ~Sent(i, "MENU", h)' /\ ~Sent(i, "CLOSE_RESPONSE", h)'
    BY <1>a DEF About, Says, Leaves
  <2> QED BY <2>1, <2>2, <1>f, <1>q, <1>z, <1>a, MovesUp DEF ModuleTold
<1>6. Dialogue'
  <2>1. \A k \in Handles : Live(k) /\ k # h => Live(k)'
    BY LiveMovesUp, <1>f
  <2>2. Lost => Lost'
    BY MovesUp, <1>q DEF Lost
  <2>3. current["MMI"] \in Handles
    BY DEF Inv, TypeOK, Fields, Resources
  <2> QED BY <2>1, <2>2, <2>3, <1>f, <1>q DEF Dialogue, Live
<1>7. AsksBehind'
  BY MovesUp DEF AsksBehind
<1>8. Follows'
  <2>1. \A k : k # h => ~Leaves(1, k)
    BY First
  <2> QED BY <2>1, <1>a, MovesUp DEF Follows, About
<1>9. PatientMmi => OneDialogue'
  BY DEF OneDialogue
<1>v. \A k \in Handles : Live(k)' => Live(k) /\ k # h
  BY <1>f, <1>z, MovesUp DEF Live
<1>10. PatientMmi => FieldOfDialogue'
  <2>1. ASSUME PatientMmi, pResource[h] = "MMI"
        PROVE  \A k \in Handles : ~Live(k)' /\ \A j : ~(Queued(j, "OPEN_OK", k)' /\ pending' = "MMI")
    <3>1. Live(h)
      BY <2>1, <1>h, First DEF Live
    <3>2. current["MMI"] = h
      BY <2>1, <3>1 DEF FieldOfDialogue
    <3>3. \A k \in Handles : ~Live(k)'
      BY <2>1, <3>2, <1>v DEF FieldOfDialogue
    <3>4. \A j : ~Queued(j, "OPEN_OK", h)
      BY <1>h DEF Control
    <3>5. \A k \in Handles : \A j : ~(Queued(j, "OPEN_OK", k)' /\ pending' = "MMI")
      BY <2>1, <3>2, <3>4, <1>q DEF FieldOfDialogue
    <3> QED BY <3>3, <3>5
  <2>2. CASE pResource[h] # "MMI"
    BY <2>2, <1>v, <1>f, <1>q DEF FieldOfDialogue
  <2> QED BY <2>1, <2>2 DEF FieldOfDialogue
<1>11. PatientMmi => Ending'
  BY <1>v, <1>q, EndingMovesUp
<1>12. Fits /\ Accounted => Accounted'
  <2>1. Awaited => Awaited'
    BY <1>q, AwaitedMovesUp
  <2>2. \A k \in Handles \ {h} : Account(k) => Account(k)'
    BY <1>f, <1>q, AccountMovesUp
  <2>3. Fits => Account(h)'
    BY <1>f, <1>q DEF Account
  <2> QED BY <2>1, <2>2, <2>3 DEF Accounted
<1> QED BY <1>1, <1>2, <1>3, <1>4, <1>5, <1>6, <1>7, <1>8, <1>9, <1>10, <1>11, <1>12

\* The module confirms the end of a dialogue it has asked for: the host forgets
\* the session.
LEMMA CloseResponseKnown ==
    ASSUME CamInv, Inv, Known, NEW h \in Handles, Sent(1, "CLOSE_RESPONSE", h), Hears,
           toHost # <<>>, toHost' = Tail(toHost), UNCHANGED <<held, leaving, pending>>,
           CloseResponse(h)
    PROVE  Known' /\ (Fits /\ Accounted => Accounted')
<1> USE DEF Known
<1>h. /\ pResource[h] = "MMI" /\ held[h] = NULL
      /\ \A j : ~Control(j, h)
      /\ \A i : About(i, h) => i = 1
  BY LastWord DEF ModuleTold
<1>f. /\ pResource'[h] = NULL
      /\ \A k \in Handles \ {h} : pResource'[k] = pResource[k]
      /\ current'["MMI"] = 0
  BY FreeFacts, <1>h DEF CloseResponse
<1>z. pResource[0] = NULL /\ NULL # "MMI" /\ 0 \in Handles
  BY NullFact, HandlesFacts DEF Inv, SessionTable, Resources, NULL
<1>a. \A i : ~About(i, h)'
  BY <1>h, MovesUp
<1>q. /\ \A j : Answer(j)' <=> Answer(j)
      /\ \A j, k : /\ Queued(j, "OPEN_OK", k)' <=> Queued(j, "OPEN_OK", k)
                   /\ Queued(j, "CLOSE_REQUEST", k)' <=> Queued(j, "CLOSE_REQUEST", k)
                   /\ Queued(j, "CLOSE_RESPONSE", k)' <=> Queued(j, "CLOSE_RESPONSE", k)
                   /\ Control(j, k)' <=> Control(j, k)
  <2>1. Still(Words)
    BY DEF CloseResponse, Still, Queued
  <2> QED BY <2>1, StillParts
<1>1. OneRequest'
  BY RequestsMoveUp, <1>q
<1>2. Pending'
  BY TailKeeps, HeadTail DEF Pending
<1>3. ModuleSessions'
  BY <1>h, <1>f DEF ModuleSessions
<1>4. HostTold'
  BY <1>h, <1>f, <1>q, <1>z DEF HostTold, Control, ModuleSessions
<1>5. ModuleTold'
  <2>1. \A k \in Handles : \A i, j : About(i, k)' /\ About(j, k)' /\ j < i => Says(j, k)'
    BY MovesUp DEF ModuleTold
  <2>2. \A i : ~Says(i, h)' /\ ~Leaves(i, h)' /\ ~Sent(i, "CLOSE_REQUEST", h)'
              /\ ~Sent(i, "CLOSEMMI", h)' /\ ~Sent(i, "MENU", h)' /\ ~Sent(i, "CLOSE_RESPONSE", h)'
    BY <1>a DEF About, Says, Leaves
  <2> QED BY <2>1, <2>2, <1>f, <1>q, <1>z, <1>a, MovesUp DEF ModuleTold
<1>6. Dialogue'
  BY <1>f DEF Dialogue
<1>7. AsksBehind'
  BY MovesUp DEF AsksBehind
<1>8. Follows'
  <2>1. \A k : ~Leaves(1, k)
    BY First
  <2> QED BY <2>1, MovesUp DEF Follows
<1>9. PatientMmi => OneDialogue'
  BY DEF OneDialogue
<1>v. \A k \in Handles : Live(k)' => Live(k) /\ k # h
  BY <1>f, <1>z, MovesUp DEF Live
<1>10. PatientMmi => FieldOfDialogue'
  <2>1. PatientMmi => (pending = "MMI" => \E i : Request(i)) /\ \A k \in Handles : ~Live(k)
    BY DEF Ending
  <2>2. PatientMmi /\ pending = "MMI" => \A j : \A k \in Handles : ~Queued(j, "OPEN_OK", k)
    BY <2>1 DEF OneRequest, Answer
  <2> QED BY <2>1, <2>2, <1>v, <1>q DEF FieldOfDialogue
<1>11. PatientMmi => Ending'
  BY <1>v, <1>q, EndingMovesUp
<1>12. Accounted => Accounted'
  <2>1. Awaited => Awaited'
    BY <1>q, AwaitedMovesUp
  <2>2. \A k \in Handles \ {h} : Account(k) => Account(k)'
    BY <1>f, <1>q, AccountMovesUp
  <2>3. Account(h)'
    BY <1>f, <1>h DEF Account, ModuleSessions
  <2> QED BY <2>1, <2>2, <2>3 DEF Accounted
<1> QED BY <1>1, <1>2, <1>3, <1>4, <1>5, <1>6, <1>7, <1>8, <1>9, <1>10, <1>11, <1>12

\* CLOSEMMI: the host forgets the dialogue and asks for the end of its session,
\* or finds no room to ask.
LEMMA CloseMmiKnown ==
    ASSUME CamInv, Inv, Known, NEW h \in Handles, Sent(1, "CLOSEMMI", h), Hears,
           toHost # <<>>, toHost' = Tail(toHost), UNCHANGED <<held, leaving, pending>>,
           DataCloseMmi(h)
    PROVE  Known' /\ (Fits /\ Accounted => Accounted')
<1> USE DEF Known
<1>h. /\ pResource[h] = "MMI" /\ held[h] = "MMI" /\ leaving[h] = "mmi"
      /\ \A j : ~Control(j, h)
      /\ \A i : About(i, h) => i = 1
  BY LastWord DEF ModuleTold, Leaves, DataCloseMmi, Data
<1>f. pResource' = pResource /\ current'["MMI"] = 0
  BY DEF DataCloseMmi, CamInv, CamTypeOK, TypeOK, Fields, Resources
<1>z. pResource[0] = NULL /\ NULL # "MMI" /\ 0 \in Handles
  BY NullFact, HandlesFacts DEF Inv, SessionTable, Resources, NULL
<1>a. \A i : ~About(i, h)'
  BY <1>h, MovesUp
<1>q. /\ \A j : Answer(j)' <=> Answer(j)
      /\ \A j, k : /\ Queued(j, "OPEN_OK", k)' <=> Queued(j, "OPEN_OK", k)
                   /\ Queued(j, "CLOSE_RESPONSE", k)' <=> Queued(j, "CLOSE_RESPONSE", k)
                   /\ k # h => (Queued(j, "CLOSE_REQUEST", k)' <=> Queued(j, "CLOSE_REQUEST", k))
                   /\ k # h => (Control(j, k)' <=> Control(j, k))
                   /\ Control(j, h)' => j = Len(sendq) + 1 /\ Queued(j, "CLOSE_REQUEST", h)'
      /\ Fits => \E j : Queued(j, "CLOSE_REQUEST", h)'
  <2>1. SPDU("CLOSE_REQUEST", h) \in SPDUs
    BY SPDUTypes
  <2>2. /\ Still(Words) \/ Queues(Words, SPDU("CLOSE_REQUEST", h))
        /\ Fits => Queues(Words, SPDU("CLOSE_REQUEST", h))
    BY <2>1, SendOne, RoomToAnswer DEF DataCloseMmi, Data
  <2>3. CASE Still(Words) /\ ~Queues(Words, SPDU("CLOSE_REQUEST", h))
    BY <2>2, <2>3, <1>h, StillParts
  <2>4. CASE Queues(Words, SPDU("CLOSE_REQUEST", h))
    BY <2>4, <1>h, QueuesParts DEF Words
  <2> QED BY <2>2, <2>3, <2>4
<1>1. OneRequest'
  BY RequestsMoveUp, <1>q
<1>2. Pending'
  BY TailKeeps, HeadTail DEF Pending
<1>3. ModuleSessions'
  BY <1>f DEF ModuleSessions
<1>4. HostTold'
  <2>1. ASSUME NEW k \in Handles, k # h
        PROVE  /\ \A j : Queued(j, "OPEN_OK", k)' =>
                    /\ pResource'[k] # NULL /\ pResource'[k] = pending'
                    /\ held'[k] = NULL \/ leaving'[k] = "closing"
               /\ \A j : Queued(j, "CLOSE_REQUEST", k)' => leaving'[k] = "mmi" /\ current'["MMI"] # k
               /\ \A j : Queued(j, "CLOSE_RESPONSE", k)' => held'[k] # NULL /\ leaving'[k] = "closing"
               /\ \A j, l : Control(j, k)' /\ Control(l, k)' /\ j < l =>
                    Queued(j, "CLOSE_RESPONSE", k)' /\ Queued(l, "OPEN_OK", k)'
    BY <2>1, <1>f, <1>q, <1>z DEF HostTold, ModuleSessions
  <2>2. \A j : ~Queued(j, "OPEN_OK", h)' /\ ~Queued(j, "CLOSE_RESPONSE", h)'
    BY <1>h, <1>q DEF Control
  <2>3. \A j, l : Control(j, h)' /\ Control(l, h)' => ~(j < l)
    BY <1>q, Places
  <2>4. h # 0
    BY <1>h, <1>z
  <2> QED BY <2>1, <2>2, <2>3, <2>4, <1>h, <1>f DEF HostTold
<1>5. ModuleTold'
  <2>1. \A k \in Handles : \A i, j : About(i, k)' /\ About(j, k)' /\ j < i => Says(j, k)'
    BY MovesUp DEF ModuleTold
  <2>2. \A i : ~Says(i, h)' /\ ~Leaves(i, h)' /\ ~Sent(i, "CLOSE_REQUEST", h)'
              /\ ~Sent(i, "CLOSEMMI", h)' /\ ~Sent(i, "MENU", h)' /\ ~Sent(i, "CLOSE_RESPONSE", h)'
    BY <1>a DEF About, Says, Leaves
  <2> QED BY <2>1, <2>2, <1>f, <1>q, <1>z, <1>a, MovesUp DEF ModuleTold
<1>6. Dialogue'
  BY <1>f DEF Dialogue
<1>7. AsksBehind'
  BY MovesUp DEF AsksBehind
<1>8. Follows'
  <2>1. \A k : k # h => ~Leaves(1, k)
    BY First
  <2> QED BY <2>1, <1>a, MovesUp DEF Follows, About
<1>9. PatientMmi => OneDialogue'
  BY DEF OneDialogue
<1>v. PatientMmi => pending # "MMI" /\ \A k \in Handles : ~Live(k)'
  <2>1. Live(h)
    BY <1>h, First DEF Live
  <2>2. ~Live(h)'
    BY <1>h, <1>a DEF Live, About
  <2>3. \A k \in Handles : Live(k)' => Live(k)
    BY <1>f, MovesUp DEF Live
  <2>4. PatientMmi => pending # "MMI"
    BY <1>h DEF OneDialogue
  <2> QED BY <2>1, <2>2, <2>3, <2>4 DEF FieldOfDialogue
<1>10. PatientMmi => FieldOfDialogue'
  BY <1>v DEF FieldOfDialogue
<1>11. PatientMmi => Ending'
  BY <1>v DEF Ending
<1>12. Fits /\ Accounted => Accounted'
  <2>1. Awaited => Awaited'
    BY <1>q, AwaitedMovesUp
  <2>2. \A k \in Handles \ {h} : Account(k) => Account(k)'
    BY <1>f, <1>q, AccountMovesUp
  <2>3. \A j : ~Queued(j, "CLOSE_RESPONSE", h)'
    BY <1>h, <1>q DEF Control
  <2>4. Fits => Account(h)'
    BY <2>3, <1>f, <1>h, <1>q DEF Account
  <2> QED BY <2>1, <2>2, <2>4 DEF Accounted
<1> QED BY <1>1, <1>2, <1>3, <1>4, <1>5, <1>6, <1>7, <1>8, <1>9, <1>10, <1>11, <1>12

\* An open request at the head of the queue is the only one, and the module waits.
LEMMA TheRequest ==
    ASSUME CamInv, Known, NEW l \in Handles, Sent(1, "OPEN_REQUEST", l), toHost # <<>>
    PROVE  /\ pending # NULL /\ Head(toHost).res = pending
           /\ \A i : Request(i) => i = 1
           /\ \A j : ~Answer(j)
           /\ \A i, h : About(i, h) => i # 1
           /\ \A i, h : Leaves(i, h) => i # 1
<1>1. Request(1)
  BY First
<1>2. pending # NULL /\ (\A i : Request(i) => i = 1) /\ \A j : ~Answer(j)
  BY <1>1 DEF Known, OneRequest
<1>3. \A h : ~About(1, h) /\ ~Leaves(1, h)
  BY First
<1>4. Head(toHost).res = pending
  <2>1. toHost \in Seq(Messages)
    BY DEF CamInv, CamTypeOK, Messages
  <2>2. Head(toHost) = toHost[1]
    BY <2>1, HeadTail
  <2> QED BY <2>2 DEF Sent, From, Known, Pending
<1> QED BY <1>2, <1>3, <1>4

\* What the module has said is still under way, but for the request.
LEMMA RequestTaken ==
    ASSUME CamInv, Known, NEW l \in Handles, Sent(1, "OPEN_REQUEST", l), Hears, toHost # <<>>
    PROVE  /\ \A i : ~Request(i)'
           /\ \A k \in Handles : \A i, j : About(i, k)' /\ About(j, k)' /\ j < i => Says(j, k)'
           /\ UNCHANGED <<held, leaving>> =>
                \A k : Live(k) /\ pResource'[k] = pResource[k] => Live(k)'
<1>1. \A i : ~Request(i)'
  BY TheRequest, MovesUp
<1>2. \A k \in Handles : \A i, j : About(i, k)' /\ About(j, k)' /\ j < i => Says(j, k)'
  BY MovesUp DEF Known, ModuleTold
<1>3. ASSUME UNCHANGED <<held, leaving>>, NEW k, Live(k), pResource'[k] = pResource[k] PROVE Live(k)'
  BY <1>3, LiveMovesUp
<1> QED BY <1>1, <1>2, <1>3

\* A dialogue ends before the request that is parsed now, if that is for another.
LEMMA EndingBehindRequest ==
    ASSUME CamInv, Known, Ending, NEW l \in Handles, Sent(1, "OPEN_REQUEST", l), Hears,
           toHost # <<>>, pending' = pending, \A k \in Handles : Live(k)' => Live(k),
           \A j : \A k \in Handles : Queued(j, "CLOSE_REQUEST", k)' => Queued(j, "CLOSE_REQUEST", k)
    PROVE  Ending' /\ (pending = "MMI" =>
                \A i : \A k \in Handles : ~Sent(i, "CLOSE_RESPONSE", k)')
<1>1. ASSUME NEW i, NEW k \in Handles, Sent(i, "CLOSE_RESPONSE", k)'
      PROVE  pending # "MMI" /\ \A j \in Handles : ~Live(j)'
  <2>1. i \in Nat \ {0} /\ Sent(i + 1, "CLOSE_RESPONSE", k)
    BY <1>1, MovesUp
  <2>2. pending = "MMI" => \E j : Request(j) /\ i + 1 < j
    BY <2>1 DEF Ending
  <2>3. \A j : Request(j) => j = 1
    BY TheRequest
  <2> QED BY <2>1, <2>2, <2>3 DEF Ending
<1> QED BY <1>1 DEF Ending

\* The host refuses: OPEN_F0 is queued, or finds no room and the module waits for good.
LEMMA RefusalKnown ==
    ASSUME CamInv, Known, NEW l \in Handles, Sent(1, "OPEN_REQUEST", l), Hears,
           toHost # <<>>, toHost' = Tail(toHost), slot = "CISTART", UNCHANGED <<held, leaving, pending>>,
           UNCHANGED <<pResource, current>>, NEW h \in Handles, Send1(SPDU("OPEN_F0", h))
    PROVE  Known' /\ (Fits /\ Accounted => Accounted')
<1> USE DEF Known
<1>h. pending # NULL /\ \A j : ~Answer(j)
  BY TheRequest
<1>n. \A j, k : ~Queued(j, "OPEN_OK", k) \/ k \notin Handles
  BY <1>h DEF Answer
<1>q. /\ \A j : Answer(j)' => j = Len(sendq) + 1
      /\ \A j, k : /\ Queued(j, "OPEN_OK", k)' <=> Queued(j, "OPEN_OK", k)
                   /\ Queued(j, "CLOSE_REQUEST", k)' <=> Queued(j, "CLOSE_REQUEST", k)
                   /\ Queued(j, "CLOSE_RESPONSE", k)' <=> Queued(j, "CLOSE_RESPONSE", k)
                   /\ Control(j, k)' <=> Control(j, k)
      /\ Fits => \E j : Answer(j)'
  <2>1. SPDU("OPEN_F0", h) \in SPDUs
    BY SPDUTypes
  <2>2. /\ Still(Words) \/ Queues(Words, SPDU("OPEN_F0", h))
        /\ Fits => Queues(Words, SPDU("OPEN_F0", h))
    BY <2>1, SendOne, RoomToAnswer
  <2>3. CASE Still(Words) /\ ~Queues(Words, SPDU("OPEN_F0", h))
    BY <2>2, <2>3, <1>h, StillParts
  <2>4. CASE Queues(Words, SPDU("OPEN_F0", h))
    BY <2>4, <1>h, QueuesParts DEF Words
  <2> QED BY <2>2, <2>3, <2>4
<1>1. OneRequest'
  BY RequestTaken, <1>h, <1>q DEF OneRequest
<1>2. Pending'
  BY TailKeeps, HeadTail DEF Pending
<1>3. ModuleSessions'
  BY DEF ModuleSessions
<1>4. HostTold'
  BY <1>q DEF HostTold
<1>5. ModuleTold'
  BY RequestTaken, <1>q, MovesUp DEF ModuleTold
<1>6. Dialogue'
  <2>1. current["MMI"] \in Handles
    BY DEF CamInv, CamTypeOK, TypeOK, Fields, Resources
  <2>2. ~Lost
    BY First DEF Lost
  <2>3. Dialogue => (current["MMI"] # 0 => Live(current["MMI"]))
    BY <2>1, <2>2, <1>n DEF Dialogue
  <2> QED BY <2>3, RequestTaken DEF Dialogue
<1>7. AsksBehind'
  BY RequestTaken DEF AsksBehind
<1>8. Follows'
  <2>1. \A k : ~Leaves(1, k)
    BY First
  <2> QED BY <2>1, MovesUp DEF Follows
<1>9. PatientMmi => OneDialogue'
  BY DEF OneDialogue
<1>v. \A k : Live(k)' => Live(k)
  BY MovesUp DEF Live
<1>10. PatientMmi => FieldOfDialogue'
  BY <1>v, <1>q DEF FieldOfDialogue
<1>11. PatientMmi => Ending'
  BY <1>v, <1>q, EndingBehindRequest
<1>12. Fits /\ Accounted => Accounted'
  <2>1. \A k \in Handles : Account(k) => Account(k)'
    BY <1>q, AccountMovesUp
  <2> QED BY <1>q, <2>1 DEF Accounted, Awaited
<1> QED BY <1>1, <1>2, <1>3, <1>4, <1>5, <1>6, <1>7, <1>8, <1>9, <1>10, <1>11, <1>12

\* Connect of MMI never refuses this module: it asks for a dialogue behind the
\* end of the one before, and the host forgets a dialogue at its end.
LEMMA NeverRefused ==
    ASSUME CamInv, Inv, Known, NEW l \in Handles, Sent(1, "OPEN_REQUEST", l), toHost # <<>>
    PROVE  ~OpenRefused(Head(toHost).res)
<1> SUFFICES ASSUME pending = "MMI", current["MMI"] # 0 PROVE FALSE
  BY TheRequest DEF OpenRefused, Refuses
<1>1. current["MMI"] \in Handles
  BY DEF CamInv, CamTypeOK, TypeOK, Fields, Resources
<1>2. Request(1)
  BY First
<1>3. ~Lost
  BY <1>2 DEF Lost
<1>4. \A j : ~Queued(j, "OPEN_OK", current["MMI"])
  BY <1>1, TheRequest DEF Answer
<1>5. Live(current["MMI"])
  BY <1>3, <1>4 DEF Known, Dialogue
<1>6. /\ leaving[current["MMI"]] # "no"
      /\ \A k : Leaves(k, current["MMI"]) => k < 1
  BY <1>1, <1>2, <1>5 DEF Known, AsksBehind, Live
<1>7. PICK k : Leaves(k, current["MMI"])
  BY <1>5, <1>6 DEF Live
<1>8. k \in Nat \ {0}
  BY <1>7, Places DEF Leaves
<1> QED BY <1>6, <1>7, <1>8

\* The host accepts: the handle is free, OPEN_OK is queued before what Connect
\* sends, or finds no room and the module waits for good.
LEMMA AcceptKnown ==
    ASSUME CamInv, Inv, Known, NEW l \in Handles, Sent(1, "OPEN_REQUEST", l), Hears,
           toHost # <<>>, toHost' = Tail(toHost), UNCHANGED <<held, leaving, pending>>,
           OpenAccepted(Head(toHost).res)
    PROVE  Known' /\ (Fits /\ Accounted => Accounted')
<1> USE DEF Known
<1> DEFINE r == Head(toHost).res
<1>h. pending # NULL /\ r = pending /\ \A j : ~Answer(j)
  BY TheRequest
<1>t. pResource \in [Handles -> Resources \cup {NULL}] /\ current \in [Fields -> Handles]
  BY DEF CamInv, CamTypeOK, TypeOK
<1>p. PICK h \in Handles :
        /\ FirstFree(h)
        /\ IF Greeting(r) = "" THEN Send1(SPDU("OPEN_OK", h))
           ELSE Send2(SPDU("OPEN_OK", h), SPDU(Greeting(r), h))
        /\ pResource' = [pResource EXCEPT ![h] = r]
        /\ current' = [current EXCEPT ![Field(r)] = h]
  BY DEF OpenAccepted
<1>r. r \in Resources /\ r # NULL
  BY NullFact DEF OpenAccepted, NULL
<1>f. /\ pResource[h] = NULL /\ h # 0
      /\ pResource'[h] = r
      /\ \A k \in Handles \ {h} : pResource'[k] = pResource[k]
      /\ current'["MMI"] = IF r = "MMI" THEN h ELSE current["MMI"]
  <2>1. "MMI" \in Fields /\ (Field(r) = "MMI" <=> r = "MMI")
    BY DEF Field, Fields, Resources
  <2> QED BY <1>p, <1>t, <2>1 DEF FirstFree, Inv, SessionTable
<1>z. NULL # "MMI"
  BY DEF NULL
<1>l. held[h] = NULL \/ leaving[h] = "closing"
  <2>1. leaving[h] \in {"no", "closing", "mmi"}
    BY DEF CamInv, CamTypeOK
  <2> QED BY <2>1, <1>f, <1>z DEF ModuleSessions
<1>n. \A j, k : k \in Handles => ~Queued(j, "OPEN_OK", k)
  BY <1>h DEF Answer
<1>q. /\ (\A j : ~Answer(j)') \/ \E j : Queued(j, "OPEN_OK", h)'
      /\ \A j : Answer(j)' => j = Len(sendq) + 1
      /\ \A j, k : /\ Queued(j, "CLOSE_REQUEST", k)' <=> Queued(j, "CLOSE_REQUEST", k)
                   /\ Queued(j, "CLOSE_RESPONSE", k)' <=> Queued(j, "CLOSE_RESPONSE", k)
                   /\ k # h => (Queued(j, "OPEN_OK", k)' <=> Queued(j, "OPEN_OK", k))
                   /\ k # h => (Control(j, k)' <=> Control(j, k))
                   /\ Queued(j, "OPEN_OK", h)' => j = Len(sendq) + 1
                   /\ Control(j, h)' => Control(j, h) \/ (j = Len(sendq) + 1 /\ Queued(j, "OPEN_OK", h)')
                   /\ Control(j, h) => j \in Nat /\ j < Len(sendq) + 1
      /\ Fits => \E j : Queued(j, "OPEN_OK", h)'
  <2>1. SPDU("OPEN_OK", h) \in SPDUs /\ SPDU("OPEN_OK", h).spdu = "OPEN_OK"
    BY SPDUTypes DEF SPDU
  <2>r. Fits => linkUp /\ Len(sendq) < CI_T_SENDQSIZE
    BY RoomToAnswer DEF OpenAccepted
  <2>2. /\ Still(Words) \/ Queues(Words, SPDU("OPEN_OK", h))
        /\ Fits => Queues(Words, SPDU("OPEN_OK", h))
    <3>1. CASE Greeting(r) = ""
      BY <3>1, <1>p, <2>1, <2>r, SendOne
    <3>2. CASE Greeting(r) # ""
      <4>1. Greeting(r) \in {"PROFILE_ENQ", "APPINFO_ENQ", "CAINFO_ENQ"}
        BY <3>2, <1>r, GreetingType
      <4>2. SPDU(Greeting(r), h) \in SPDUs /\ SPDU(Greeting(r), h).spdu \notin Words
        BY <4>1, SPDUTypes DEF SPDU, Words
      <4> QED BY <3>2, <1>p, <2>1, <2>r, <4>2, SendTwo
    <3> QED BY <3>1, <3>2
  <2>3. \A j : Control(j, h) => j \in Nat /\ j < Len(sendq) + 1
    BY Places DEF Control
  <2>4. CASE Still(Words) /\ ~Queues(Words, SPDU("OPEN_OK", h))
    BY <2>2, <2>3, <2>4, <1>h, <1>n, StillParts
  <2>5. CASE Queues(Words, SPDU("OPEN_OK", h))
    <3>1. \A j : Answer(j)' => j = Len(sendq) + 1
      BY <2>5, <1>h, QueuesParts DEF Words
    <3>2. \A v \in Words : \A j, k :
            Queued(j, v, k)' <=> Queued(j, v, k) \/ (j = Len(sendq) + 1 /\ v = "OPEN_OK" /\ k = h)
      BY <2>5, QueuesParts DEF Words
    <3>3. \A j, k : Control(j, k)' <=> Control(j, k) \/ (j = Len(sendq) + 1 /\ k = h)
      BY <2>5, QueuesParts DEF Words
    <3>4. \A j, k : /\ Queued(j, "CLOSE_REQUEST", k)' <=> Queued(j, "CLOSE_REQUEST", k)
                    /\ Queued(j, "CLOSE_RESPONSE", k)' <=> Queued(j, "CLOSE_RESPONSE", k)
                    /\ Queued(j, "OPEN_OK", k)' <=>
                            Queued(j, "OPEN_OK", k) \/ (j = Len(sendq) + 1 /\ k = h)
      BY <3>2 DEF Words
    <3>5. \E j : Queued(j, "OPEN_OK", h)'
      BY <3>4
    <3>6. \A j : ~Queued(j, "OPEN_OK", h)
      BY <1>n
    <3> QED BY <3>1, <3>3, <3>4, <3>5, <3>6, <2>3
  <2> QED BY <2>2, <2>4, <2>5
<1>a. \A i : ~About(i, h)'
  BY <1>f, MovesUp DEF ModuleTold
<1>1. OneRequest'
  BY RequestTaken, <1>h, <1>q DEF OneRequest
<1>2. Pending'
  BY TailKeeps, HeadTail DEF Pending
<1>3. ModuleSessions'
  BY <1>f, <1>l, <1>z DEF ModuleSessions
<1>4. HostTold'
  <2>1. ASSUME NEW k \in Handles, k # h
        PROVE  /\ \A j : Queued(j, "OPEN_OK", k)' =>
                    /\ pResource'[k] # NULL /\ pResource'[k] = pending'
                    /\ held'[k] = NULL \/ leaving'[k] = "closing"
               /\ \A j : Queued(j, "CLOSE_REQUEST", k)' => leaving'[k] = "mmi" /\ current'["MMI"] # k
               /\ \A j : Queued(j, "CLOSE_RESPONSE", k)' => held'[k] # NULL /\ leaving'[k] = "closing"
               /\ \A j, i : Control(j, k)' /\ Control(i, k)' /\ j < i =>
                    Queued(j, "CLOSE_RESPONSE", k)' /\ Queued(i, "OPEN_OK", k)'
    BY <2>1, <1>f, <1>q DEF HostTold
  <2>2. \A j : ~Queued(j, "CLOSE_REQUEST", h)
    BY <1>f, <1>z DEF HostTold, ModuleSessions
  <2>3. \A j : Control(j, h) => Queued(j, "CLOSE_RESPONSE", h)
    BY <2>2, <1>n DEF Control
  <2>4. \A j, i : Control(j, h) /\ Control(i, h) => ~(j < i)
    BY <2>3, <1>n DEF HostTold
  <2>5. \A j, i : Control(j, h)' /\ Control(i, h)' /\ j < i =>
            Queued(j, "CLOSE_RESPONSE", h)' /\ Queued(i, "OPEN_OK", h)'
    BY <2>3, <2>4, <1>q, Places
  <2> QED BY <2>1, <2>2, <2>5, <1>f, <1>h, <1>r, <1>l, <1>q DEF HostTold
<1>5. ModuleTold'
  <2>2. \A i : ~Says(i, h)' /\ ~Leaves(i, h)' /\ ~Sent(i, "CLOSE_REQUEST", h)'
              /\ ~Sent(i, "CLOSEMMI", h)' /\ ~Sent(i, "MENU", h)' /\ ~Sent(i, "CLOSE_RESPONSE", h)'
    BY <1>a DEF About, Says, Leaves
  <2> QED BY RequestTaken, <2>2, <1>f, <1>q, <1>a, MovesUp DEF ModuleTold
<1>6. Dialogue'
  <2>1. current["MMI"] \in Handles
    BY <1>t DEF Fields, Resources
  <2>2. ~Lost
    BY First DEF Lost
  <2>3. current["MMI"] # 0 => Live(current["MMI"])
    BY <2>1, <2>2, <1>n DEF Dialogue
  <2>4. CASE \A j : ~Answer(j)'
    BY <2>4, <1>h, RequestTaken DEF Dialogue, Lost
  <2>5. CASE (\E j : Queued(j, "OPEN_OK", h)') /\ r = "MMI"
    BY <2>5, <1>f DEF Dialogue
  <2>6. CASE r # "MMI"
    BY <2>6, <2>1, <2>3, <1>f, <1>z, RequestTaken DEF Dialogue, Live
  <2> QED BY <2>4, <2>5, <2>6, <1>q
<1>7. AsksBehind'
  BY RequestTaken DEF AsksBehind
<1>8. Follows'
  <2>1. \A k : ~Leaves(1, k)
    BY First
  <2> QED BY <2>1, MovesUp DEF Follows
<1>9. PatientMmi => OneDialogue'
  BY DEF OneDialogue
<1>v. \A k \in Handles : Live(k)' => Live(k) /\ k # h
  <2>1. ~Live(h)'
    BY <1>l, <1>a, <1>z DEF Live, About
  <2>2. \A k \in Handles : k # h /\ Live(k)' => Live(k)
    BY <1>f, MovesUp DEF Live
  <2> QED BY <2>1, <2>2
<1>w. r = "MMI" /\ PatientMmi => \A k \in Handles : ~Live(k)'
  <2>1. r = "MMI" => current["MMI"] = 0
    BY DEF OpenAccepted, Refuses
  <2>2. pResource[0] = NULL
    BY HandlesFacts DEF Inv, SessionTable
  <2>3. ~Live(0)
    BY <2>2, <1>z DEF Live
  <2> QED BY <2>1, <2>3, <1>v DEF FieldOfDialogue
<1>10. PatientMmi => FieldOfDialogue'
  BY <1>v, <1>w, <1>f, <1>h, <1>n, <1>q DEF FieldOfDialogue
<1>11. PatientMmi => Ending'
  BY <1>v, <1>q, EndingBehindRequest
<1>12. Fits /\ Accounted => Accounted'
  <2>1. \A k \in Handles \ {h} : Account(k) => Account(k)'
    BY <1>f, <1>q, AccountMovesUp
  <2>2. Fits /\ Account(h) => Account(h)'
    <3>1. \A i : ~Leaves(i, h)
      BY <1>f DEF ModuleTold, About
    <3> QED BY <3>1, <1>q DEF Account
  <2>3. Fits => Awaited'
    BY <1>q DEF Awaited, Answer
  <2> QED BY <2>1, <2>2, <2>3 DEF Accounted
<1> QED BY <1>1, <1>2, <1>3, <1>4, <1>5, <1>6, <1>7, <1>8, <1>9, <1>10, <1>11, <1>12

-----------------------------------------------------------------------------
\* A message more at the end of the module's queue.
LEMMA TellsParts ==
    ASSUME CamInv, NEW m, Tells(m), m.sess \in Handles
    PROVE  /\ \A i : Request(i)' <=> Request(i) \/ (i = Len(toHost) + 1 /\ m.what = "OPEN_REQUEST")
           /\ \A i, h : Says(i, h)' <=>
                Says(i, h) \/ (i = Len(toHost) + 1 /\ m.what \in {"MENU", "CA_INFO"} /\ h = m.sess)
           /\ \A i, h : Leaves(i, h)' <=>
                Leaves(i, h) \/ (i = Len(toHost) + 1 /\ m.what \in {"CLOSE_REQUEST", "CLOSEMMI"} /\ h = m.sess)
           /\ \A i, h : About(i, h)' <=>
                About(i, h) \/ (/\ i = Len(toHost) + 1 /\ h = m.sess
                                /\ m.what \in {"MENU", "CA_INFO", "CLOSE_REQUEST", "CLOSEMMI", "CLOSE_RESPONSE"})
           /\ \A i, w, h : Sent(i, w, h)' <=>
                Sent(i, w, h) \/ (i = Len(toHost) + 1 /\ w = m.what /\ h = m.sess)
           /\ \A i : Request(i) => i \in Nat /\ i < Len(toHost) + 1
           /\ \A i, h : About(i, h) => i \in Nat /\ i < Len(toHost) + 1
           /\ \A i, h : Leaves(i, h) => About(i, h)
<1>1. \A i, w, h : Sent(i, w, h)' <=>
            Sent(i, w, h) \/ (i = Len(toHost) + 1 /\ w = m.what /\ h = m.sess)
  BY DEF Tells
<1>2. \A i : Request(i)' <=> Request(i) \/ (i = Len(toHost) + 1 /\ m.what = "OPEN_REQUEST")
  BY <1>1 DEF Request
<1>3. \A i, h : Says(i, h)' <=>
            Says(i, h) \/ (i = Len(toHost) + 1 /\ m.what \in {"MENU", "CA_INFO"} /\ h = m.sess)
  BY <1>1 DEF Says
<1>4. \A i, h : Leaves(i, h)' <=>
            Leaves(i, h) \/ (i = Len(toHost) + 1 /\ m.what \in {"CLOSE_REQUEST", "CLOSEMMI"} /\ h = m.sess)
  BY <1>1 DEF Leaves
<1>5. \A i, h : About(i, h)' <=>
            About(i, h) \/ (/\ i = Len(toHost) + 1 /\ h = m.sess
                            /\ m.what \in {"MENU", "CA_INFO", "CLOSE_REQUEST", "CLOSEMMI", "CLOSE_RESPONSE"})
  BY <1>1, <1>3, <1>4 DEF About
<1>6. \A i : Request(i) => i \in Nat /\ i < Len(toHost) + 1
  BY Places DEF Request
<1>7. \A i, h : About(i, h) => i \in Nat /\ i < Len(toHost) + 1
  BY Places DEF About, Says, Leaves
<1>8. \A i, h : Leaves(i, h) => About(i, h)
  BY DEF About
<1> QED BY <1>1, <1>2, <1>3, <1>4, <1>5, <1>6, <1>7, <1>8

\* What the module says, and whether it is a request.
LEMMA SayTells ==
    ASSUME CamInv, NEW m \in Messages, Say(m)
    PROVE  /\ Tells(m) /\ m.sess \in Handles
           /\ Still(Words)
           /\ UNCHANGED vars
           /\ toHost' = Append(toHost, m)
<1>1. Tells(m)
  BY AppendTells DEF Say
<1>2. UNCHANGED vars /\ toHost' = Append(toHost, m)
  BY DEF Say
<1>3. Still(Words)
  BY <1>2 DEF Still, Queued, vars
<1>4. m.sess \in Handles
  BY DEF Messages
<1> QED BY <1>1, <1>2, <1>3, <1>4

\* Pending, when something that is no request, or the pending one, is appended.
LEMMA AppendPending ==
    ASSUME CamInv, NEW m \in Messages, toHost' = Append(toHost, m),
           \A i \in 1 .. Len(toHost) : toHost[i].what = "OPEN_REQUEST" => toHost[i].res = pending',
           m.what = "OPEN_REQUEST" => m.res = pending'
    PROVE  Pending'
<1>1. toHost \in Seq(Messages)
  BY DEF CamInv, CamTypeOK, Messages
<1>2. /\ Len(toHost') = Len(toHost) + 1 /\ Len(toHost) \in Nat
      /\ \A i \in 1 .. Len(toHost) : toHost'[i] = toHost[i]
      /\ toHost'[Len(toHost) + 1] = m
  BY <1>1, AppendTo
<1> QED BY <1>2 DEF Pending

\* No open request is at any place of the queue while the module waits for none.
LEMMA NoneAsked ==
    ASSUME CamInv, OneRequest, pending = NULL \/ \E j : Answer(j)
    PROVE  \A i \in 1 .. Len(toHost) : toHost[i].what # "OPEN_REQUEST"
<1>1. \A i : ~Request(i)
  BY DEF OneRequest
<1>2. ASSUME NEW i \in 1 .. Len(toHost), toHost[i].what = "OPEN_REQUEST" PROVE FALSE
  <2>1. toHost \in Seq(Messages)
    BY DEF CamInv, CamTypeOK, Messages
  <2>2. toHost[i] \in Messages
    BY <2>1
  <2>3. toHost[i].sess \in Handles
    BY <2>2 DEF Messages
  <2> QED BY <1>1, <1>2, <2>3 DEF Request, Sent, From
<1> QED BY <1>2

\* The module asks for a session: nothing of an older request is under way, and
\* a dialogue it asks for comes behind the end of the one before.
LEMMA OpenKnown ==
    ASSUME CamInv, Known, NEW r \in CamRequests, CamOpen(r)
    PROVE  Known' /\ (Fits /\ Accounted => Accounted')
<1> USE DEF Known
<1> DEFINE m == Message("OPEN_REQUEST", 0, r)
<1>m. m \in Messages /\ m.what = "OPEN_REQUEST" /\ m.res = r /\ m.sess = 0
  BY HandlesFacts DEF Message, Messages
<1>s. /\ Tells(m) /\ m.sess \in Handles /\ Still(Words)
      /\ UNCHANGED <<pResource, current, held, leaving>> /\ toHost' = Append(toHost, m)
      /\ pending = NULL /\ pending' = r /\ r # NULL
  BY <1>m, SayTells, CamAssumption DEF CamOpen, vars, tableVars
<1>n. (\A i : ~Request(i)) /\ (\A j : ~Answer(j)) /\ ~Lost
  BY <1>s DEF OneRequest, Lost
<1>1. OneRequest'
  BY <1>s, <1>n, <1>m, TellsParts, StillParts DEF OneRequest
<1>2. Pending'
  BY <1>s, <1>m, NoneAsked, AppendPending
<1>3. ModuleSessions'
  BY <1>s DEF ModuleSessions
<1>4. HostTold'
  <2>1. \A h \in Handles : \A j : ~Queued(j, "OPEN_OK", h)
    BY <1>n DEF Answer
  <2> QED BY <1>s, <2>1, StillParts DEF HostTold
<1>5. ModuleTold'
  BY <1>s, <1>m, TellsParts, StillParts DEF ModuleTold
<1>6. Dialogue'
  BY <1>s, <1>n, <1>m, TellsParts, StillParts DEF Dialogue, Live
<1>7. AsksBehind'
  <2>1. r = "MMI" => \A h \in Handles : held[h] = "MMI" => leaving[h] # "no"
    BY DEF CamOpen
  <2>2. \A i : Request(i)' => i = Len(toHost) + 1
    BY <1>s, <1>n, <1>m, TellsParts
  <2>3. \A k, h : Leaves(k, h)' => k \in Nat /\ k < Len(toHost) + 1
    BY <1>s, <1>m, TellsParts
  <2> QED BY <1>s, <2>1, <2>2, <2>3 DEF AsksBehind
<1>8. Follows'
  BY <1>s, <1>m, TellsParts DEF Follows
<1>9. PatientMmi => OneDialogue'
  <2>1. PatientMmi /\ r = "MMI" => \A h \in Handles : held[h] = "MMI" => leaving[h] = "closing"
    BY DEF CamOpen
  <2> QED BY <2>1, <1>s DEF OneDialogue
<1>v. \A k : Live(k)' <=> Live(k)
  BY <1>s, <1>m, TellsParts DEF Live
<1>10. PatientMmi => FieldOfDialogue'
  <2>1. \A h \in Handles : \A j : ~Queued(j, "OPEN_OK", h)'
    BY <1>n, <1>s, StillParts DEF Answer
  <2> QED BY <2>1, <1>s, <1>v DEF FieldOfDialogue
<1>11. PatientMmi => Ending'
  <2>1. PatientMmi /\ r = "MMI" => \A h \in Handles : \A j : ~Queued(j, "CLOSE_REQUEST", h)
    <3>1. PatientMmi /\ r = "MMI" => \A h \in Handles : leaving[h] # "mmi"
      BY DEF CamOpen, ModuleSessions
    <3> QED BY <3>1 DEF HostTold
  <2>2. \A h \in Handles : \A i : Sent(i, "CLOSE_RESPONSE", h)' =>
            Sent(i, "CLOSE_RESPONSE", h) /\ i < Len(toHost) + 1
    BY <1>s, <1>m, TellsParts, Places
  <2>3. \E k : Request(k)' /\ k = Len(toHost) + 1
    BY <1>s, <1>m, TellsParts
  <2> QED BY <2>1, <2>2, <2>3, <1>s, <1>v, StillParts DEF Ending
<1>12. Accounted => Accounted'
  BY <1>s, <1>m, TellsParts, StillParts DEF Accounted, Awaited, Account
<1> QED BY <1>1, <1>2, <1>3, <1>4, <1>5, <1>6, <1>7, <1>8, <1>9, <1>10, <1>11, <1>12

\* The module says something on a session it holds and has not given up, and
\* may give it up with that.
LEMMA SpeaksKnown ==
    ASSUME CamInv, Known, NEW h \in Handles, held[h] # NULL, leaving[h] = "no",
           NEW w \in {"CLOSE_REQUEST", "CLOSEMMI", "MENU", "CA_INFO"},
           Say(Message(w, h, held[h])), UNCHANGED <<held, pending>>,
           w \in {"MENU", "CLOSEMMI"} => held[h] = "MMI",
           leaving' = [leaving EXCEPT ![h] = CASE w = "CLOSE_REQUEST" -> "closing"
                                               [] w = "CLOSEMMI" -> "mmi"
                                               [] OTHER -> "no"]
    PROVE  Known' /\ (Fits /\ Accounted => Accounted')
<1> USE DEF Known
<1> DEFINE m == Message(w, h, held[h])
<1>m. m \in Messages /\ m.what = w /\ m.sess = h
  BY DEF Message, Messages, CamInv, CamTypeOK
<1>s. /\ Tells(m) /\ m.sess \in Handles /\ Still(Words)
      /\ UNCHANGED <<pResource, current>> /\ toHost' = Append(toHost, m)
  BY <1>m, SayTells DEF vars, tableVars
<1>l. /\ \A k \in Handles \ {h} : leaving'[k] = leaving[k]
      /\ leaving'[h] = CASE w = "CLOSE_REQUEST" -> "closing" [] w = "CLOSEMMI" -> "mmi" [] OTHER -> "no"
  BY DEF CamInv, CamTypeOK
<1>h. /\ pResource[h] = held[h]
      /\ \A j : ~Control(j, h)
      /\ \A i : ~Leaves(i, h) /\ (About(i, h) => Says(i, h))
  <2>1. pResource[h] = held[h] /\ \A j : ~Control(j, h)
    BY DEF ModuleSessions, HostTold, Control
  <2>2. \A i : ~Leaves(i, h) /\ ~Sent(i, "CLOSE_RESPONSE", h)
    BY DEF ModuleTold, Leaves
  <2> QED BY <2>1, <2>2 DEF About
<1>1. OneRequest'
  BY <1>s, <1>m, TellsParts, StillParts DEF OneRequest
<1>2. Pending'
  BY <1>s, <1>m, AppendPending DEF Pending
<1>3. ModuleSessions'
  BY <1>s, <1>l, <1>h DEF ModuleSessions
<1>4. HostTold'
  BY <1>s, <1>l, <1>h, StillParts DEF HostTold, Control
<1>5. ModuleTold'
  <2>1. ASSUME NEW k \in Handles, k # h
        PROVE  /\ \A i : About(i, k)' => /\ pResource'[k] # NULL
                                         /\ \A j : About(j, k)' /\ j < i => Says(j, k)'
                                         /\ \A j : ~Control(j, k)'
               /\ \A i : Says(i, k)' \/ Leaves(i, k)' => held'[k] = pResource'[k]
               /\ \A i : Sent(i, "CLOSE_REQUEST", k)' => leaving'[k] = "closing"
               /\ \A i : Sent(i, "CLOSEMMI", k)' => leaving'[k] = "mmi"
               /\ \A i : Sent(i, "MENU", k)' => held'[k] = "MMI"
               /\ \A i : Sent(i, "CLOSE_RESPONSE", k)' =>
                    held'[k] = NULL /\ pResource'[k] = "MMI" /\ current'["MMI"] # k
    BY <2>1, <1>s, <1>l, <1>m, TellsParts, StillParts DEF ModuleTold
  <2>2. \A i, j : About(i, h)' /\ About(j, h)' /\ j < i => Says(j, h)'
    BY <1>s, <1>h, <1>m, TellsParts
  <2>3. \A j : ~Control(j, h)'
    BY <1>h, <1>s, StillParts
  <2>4. /\ \A i : Sent(i, "CLOSE_REQUEST", h)' => w = "CLOSE_REQUEST"
        /\ \A i : Sent(i, "CLOSEMMI", h)' => w = "CLOSEMMI"
        /\ \A i : Sent(i, "MENU", h)' => held[h] = "MMI"
        /\ \A i : ~Sent(i, "CLOSE_RESPONSE", h)'
    BY <1>s, <1>m, <1>h, TellsParts DEF ModuleTold, Leaves
  <2>5. /\ pResource'[h] # NULL /\ held'[h] = pResource'[h]
        /\ w = "CLOSE_REQUEST" => leaving'[h] = "closing"
        /\ w = "CLOSEMMI" => leaving'[h] = "mmi"
    BY <1>s, <1>h, <1>l
  <2> QED BY <2>1, <2>2, <2>3, <2>4, <2>5 DEF ModuleTold
<1>6. Dialogue'
  <2>1. \A k \in Handles : Live(k) => Live(k)'
    BY <1>s, <1>m, <1>l, <1>h, TellsParts DEF Live
  <2>2. Lost => Lost'
    BY <1>s, <1>m, TellsParts, StillParts DEF Lost
  <2>3. current["MMI"] \in Handles
    BY DEF CamInv, CamTypeOK, TypeOK, Fields, Resources
  <2> QED BY <2>1, <2>2, <2>3, <1>s, StillParts DEF Dialogue
<1>7. AsksBehind'
  BY <1>s, <1>m, <1>l, <1>h, TellsParts DEF AsksBehind
<1>8. Follows'
  <2>1. \A k \in Handles : k # h => \A i : Says(i, k)' => leaving'[k] = "no" \/ \E j : Leaves(j, k)'
    BY <1>s, <1>m, <1>l, TellsParts DEF Follows
  <2>2. leaving'[h] = "no" \/ \E j : Leaves(j, h)'
    BY <1>s, <1>m, <1>l, TellsParts
  <2> QED BY <2>1, <2>2 DEF Follows
<1>9. PatientMmi => OneDialogue'
  BY <1>l DEF OneDialogue
<1>v. \A k \in Handles : Live(k)' => Live(k)
  BY <1>s, <1>m, <1>l, <1>h, TellsParts DEF Live
<1>10. PatientMmi => FieldOfDialogue'
  BY <1>s, <1>v, StillParts DEF FieldOfDialogue
<1>11. PatientMmi => Ending'
  <2>1. \A k \in Handles : \A i : Sent(i, "CLOSE_RESPONSE", k)' => Sent(i, "CLOSE_RESPONSE", k)
    BY <1>s, <1>m, TellsParts
  <2>2. \A i : Request(i)' <=> Request(i)
    BY <1>s, <1>m, TellsParts
  <2> QED BY <2>1, <2>2, <1>s, <1>v, StillParts DEF Ending
<1>12. Accounted => Accounted'
  <2>1. Awaited => Awaited'
    BY <1>s, <1>m, TellsParts, StillParts DEF Awaited
  <2>2. \A k \in Handles \ {h} : Account(k) => Account(k)'
    BY <1>s, <1>m, <1>l, TellsParts, StillParts DEF Account
  <2>3. leaving'[h] # "no" => \E j : Leaves(j, h)'
    BY <1>s, <1>m, <1>l, TellsParts
  <2>4. held'[h] = pResource'[h] /\ \A j : ~Queued(j, "CLOSE_RESPONSE", h)'
    BY <1>s, <1>h, StillParts DEF Control
  <2> QED BY <2>1, <2>2, <2>3, <2>4 DEF Accounted, Account
<1> QED BY <1>1, <1>2, <1>3, <1>4, <1>5, <1>6, <1>7, <1>8, <1>9, <1>10, <1>11, <1>12

-----------------------------------------------------------------------------
\* When the oldest SPDU is written, each of the others is one place further on.
LEMMA UnqueuesParts ==
    ASSUME CamInv, Unqueues
    PROVE  /\ \A j : Answer(j)' <=> j \in Nat \ {0} /\ Answer(j + 1)
           /\ \A j : Answer(j) => j \in Nat \ {0} /\ (j = 1 \/ Answer(j - 1)')
           /\ \A j, h : Control(j, h)' <=> j \in Nat \ {0} /\ Control(j + 1, h)
           /\ \A j, w, h : Queued(j, w, h)' <=> j \in Nat \ {0} /\ Queued(j + 1, w, h)
           /\ \A j, w, h : Queued(j, w, h) => j \in Nat \ {0} /\ (j = 1 \/ Queued(j - 1, w, h)')
<1>1. \A j, w, h : Queued(j, w, h)' <=> j \in Nat \ {0} /\ Queued(j + 1, w, h)
  BY DEF Unqueues
<1>2. \A j, w, h : Queued(j, w, h) => j \in Nat \ {0} /\ (j = 1 \/ Queued(j - 1, w, h)')
  BY Places DEF Unqueues
<1>3. \A j : Answer(j)' <=> j \in Nat \ {0} /\ Answer(j + 1)
  BY <1>1 DEF Answer
<1>4. \A j : Answer(j) => j \in Nat \ {0} /\ (j = 1 \/ Answer(j - 1)')
  BY <1>2 DEF Answer
<1>5. \A j, h : Control(j, h)' <=> j \in Nat \ {0} /\ Control(j + 1, h)
  BY <1>1 DEF Control
<1> QED BY <1>1, <1>2, <1>3, <1>4, <1>5

\* The one request stays one when the oldest SPDU is written and the module asks for nothing.
LEMMA StillOneRequest ==
    ASSUME CamInv, Unqueues, OneRequest, pending' = pending, \A i : Request(i)' <=> Request(i)
    PROVE  OneRequest'
<1>1. \A j : Answer(j)' => Answer(j + 1) /\ j \in Nat
  BY UnqueuesParts
<1>2. ASSUME NEW i, Request(i)'
      PROVE  pending' # NULL /\ (\A k : Request(k)' => k = i) /\ \A j : ~Answer(j)'
  BY <1>1, <1>2 DEF OneRequest
<1>3. ASSUME NEW j, Answer(j)'
      PROVE  pending' # NULL /\ \A k : Answer(k)' => k = j
  <2>1. Answer(j + 1) /\ j \in Nat
    BY <1>1, <1>3
  <2>2. pending' # NULL
    BY <2>1 DEF OneRequest
  <2>3. ASSUME NEW k, Answer(k)' PROVE k = j
    <3>1. Answer(k + 1) /\ k \in Nat
      BY <1>1, <2>3
    <3>2. k + 1 = j + 1
      BY <2>1, <3>1 DEF OneRequest
    <3> QED BY <2>1, <3>1, <3>2
  <2> QED BY <2>2, <2>3
<1> QED BY <1>2, <1>3 DEF OneRequest

\* The head of the host's queue is one thing, for one session.
LEMMA Oldest ==
    ASSUME CamInv, NEW w, NEW h \in Handles, Queued(1, w, h)
    PROVE  /\ \A v, k : Queued(1, v, k) => v = w /\ k = h
           /\ Answer(1) <=> w \in {"OPEN_OK", "OPEN_F0"}
           /\ \A k : Control(1, k) <=> k = h /\ w \in {"OPEN_OK", "CLOSE_REQUEST", "CLOSE_RESPONSE"}
BY Places DEF Answer, Control

\* What else is under way for the session of the oldest SPDU.
LEMMA OldestTold ==
    ASSUME CamInv, HostTold, NEW w, NEW h \in Handles, Queued(1, w, h), Unqueues,
           w \in {"OPEN_OK", "CLOSE_REQUEST", "CLOSE_RESPONSE"}
    PROVE  /\ \A j : Control(j, h)' => w = "CLOSE_RESPONSE" /\ Queued(j, "OPEN_OK", h)'
           /\ \A i, j : ~(Control(i, h)' /\ Control(j, h)' /\ i < j)
<1>1. Control(1, h) /\ (w # "CLOSE_RESPONSE" => ~Queued(1, "CLOSE_RESPONSE", h))
  BY Oldest
<1>2. ASSUME NEW j, Control(j, h)' PROVE w = "CLOSE_RESPONSE" /\ Queued(j, "OPEN_OK", h)'
  <2>1. j \in Nat \ {0} /\ Control(j + 1, h) /\ 1 < j + 1
    BY <1>2, UnqueuesParts
  <2>2. Queued(1, "CLOSE_RESPONSE", h) /\ Queued(j + 1, "OPEN_OK", h)
    BY <1>1, <2>1 DEF HostTold
  <2> QED BY <1>1, <2>1, <2>2, UnqueuesParts
<1>3. ASSUME NEW i, NEW j, Control(i, h)', Control(j, h)', i < j PROVE FALSE
  <2>1. /\ i \in Nat \ {0} /\ j \in Nat \ {0}
        /\ Control(i + 1, h) /\ Control(j + 1, h) /\ i + 1 < j + 1
    BY <1>3, UnqueuesParts
  <2>2. Queued(i + 1, "CLOSE_RESPONSE", h)
    BY <2>1 DEF HostTold
  <2>3. Queued(i + 1, "OPEN_OK", h)
    BY <1>2, <1>3, UnqueuesParts
  <2> QED BY <2>2, <2>3, Places
<1> QED BY <1>2, <1>3

\* What is under way for the other sessions.
LEMMA OthersTold ==
    ASSUME CamInv, HostTold, Unqueues, NEW k \in Handles
    PROVE  \A i, j : Control(i, k)' /\ Control(j, k)' /\ i < j =>
                        Queued(i, "CLOSE_RESPONSE", k)' /\ Queued(j, "OPEN_OK", k)'
<1> SUFFICES ASSUME NEW i, NEW j, Control(i, k)', Control(j, k)', i < j
             PROVE  Queued(i, "CLOSE_RESPONSE", k)' /\ Queued(j, "OPEN_OK", k)'
  OBVIOUS
<1>1. /\ i \in Nat \ {0} /\ j \in Nat \ {0}
      /\ Control(i + 1, k) /\ Control(j + 1, k) /\ i + 1 < j + 1
  BY UnqueuesParts
<1>2. Queued(i + 1, "CLOSE_RESPONSE", k) /\ Queued(j + 1, "OPEN_OK", k)
  BY <1>1 DEF HostTold
<1> QED BY <1>1, <1>2, UnqueuesParts

\* What is under way for a session the oldest SPDU is not about.
LEMMA AccountStays ==
    ASSUME CamInv, Unqueues, NEW k, Account(k),
           ~Queued(1, "OPEN_OK", k), ~Queued(1, "CLOSE_REQUEST", k), ~Queued(1, "CLOSE_RESPONSE", k),
           held'[k] = held[k], leaving'[k] = leaving[k], pResource'[k] = pResource[k],
           \A i, w : Sent(i, w, k) => Sent(i, w, k)'
    PROVE  Account(k)'
<1>1. ASSUME NEW w \in {"OPEN_OK", "CLOSE_REQUEST", "CLOSE_RESPONSE"}
      PROVE  (\E j : Queued(j, w, k)) => \E j : Queued(j, w, k)'
  BY <1>1, UnqueuesParts
<1>2. \A j : Queued(j, "CLOSE_RESPONSE", k)' => Queued(j + 1, "CLOSE_RESPONSE", k)
  BY UnqueuesParts
<1>3. (\E i : Leaves(i, k)) => \E i : Leaves(i, k)'
  BY DEF Leaves
<1> QED BY <1>1, <1>2, <1>3 DEF Account

\* The module takes an SPDU that is no answer and ends nothing.
LEMMA DataDelivered ==
    ASSUME CamInv, Known, NEW h \in Handles, NEW w, w \notin Words, Queued(1, w, h), Unqueues,
           UNCHANGED <<toHost, held, leaving, pending, pResource, current>>
    PROVE  Known' /\ (Fits /\ Accounted => Accounted')
<1> USE DEF Known
<1>w. ~Answer(1) /\ \A k : ~Control(1, k)
  BY Oldest DEF Words
<1>s. \A i, v, k : Sent(i, v, k)' <=> Sent(i, v, k)
  BY DEF Sent
<1>o. \A k : ~Queued(1, "OPEN_OK", k)
  BY <1>w DEF Control
<1>1. OneRequest'
  BY <1>s, StillOneRequest DEF Request
<1>2. Pending'
  BY DEF Pending
<1>3. ModuleSessions'
  BY DEF ModuleSessions
<1>4. HostTold'
  BY OthersTold, UnqueuesParts DEF HostTold
<1>5. ModuleTold'
  BY <1>s, UnqueuesParts DEF ModuleTold, About, Says, Leaves
<1>6. Dialogue'
  <2>1. Live(current["MMI"]) => Dialogue'
    BY <1>s DEF Live, Leaves, Dialogue
  <2>2. Lost => Lost'
    BY <1>s, UnqueuesParts DEF Lost, Request
  <2>3. ASSUME NEW j, Queued(j, "OPEN_OK", current["MMI"]) PROVE Dialogue'
    BY <2>3, <1>o, UnqueuesParts DEF Dialogue
  <2> QED BY <2>1, <2>2, <2>3 DEF Dialogue
<1>7. AsksBehind'
  BY <1>s DEF AsksBehind, Request, Leaves
<1>8. Follows'
  BY <1>s DEF Follows, Says, Leaves
<1>9. PatientMmi => OneDialogue'
  BY DEF OneDialogue
<1>v. \A k : Live(k)' <=> Live(k)
  BY <1>s DEF Live, Leaves
<1>10. PatientMmi => FieldOfDialogue'
  BY <1>v, UnqueuesParts DEF FieldOfDialogue
<1>11. PatientMmi => Ending'
  BY <1>v, <1>s, UnqueuesParts DEF Ending, Request
<1>12. Accounted => Accounted'
  <2>1. Awaited => Awaited'
    BY <1>w, <1>s, UnqueuesParts DEF Awaited, Request
  <2>2. \A k : /\ ~Queued(1, "OPEN_OK", k) /\ ~Queued(1, "CLOSE_REQUEST", k)
               /\ ~Queued(1, "CLOSE_RESPONSE", k)
    BY Oldest DEF Words
  <2>3. \A k \in Handles : Account(k) => Account(k)'
    BY <2>2, <1>s, AccountStays
  <2> QED BY <2>1, <2>3 DEF Accounted
<1> QED BY <1>1, <1>2, <1>3, <1>4, <1>5, <1>6, <1>7, <1>8, <1>9, <1>10, <1>11, <1>12

\* The module gets the session it has asked for: from now on both have it.
LEMMA AcceptDelivered ==
    ASSUME CamInv, Inv, Known, NEW h \in Handles, Queued(1, "OPEN_OK", h), Unqueues,
           CamGetsAccept(h), UNCHANGED <<pResource, current>>
    PROVE  Known' /\ (Fits /\ Accounted => Accounted')
<1> USE DEF Known
<1>w. /\ Answer(1) /\ Control(1, h)
      /\ \A k : Queued(1, "OPEN_OK", k) => k = h
  BY Oldest
<1>s. \A i, v, k : Sent(i, v, k)' <=> Sent(i, v, k)
  BY DEF Sent, CamGetsAccept
<1>h. /\ pResource[h] = pending /\ pending # NULL
      /\ \A i : ~About(i, h)
      /\ \A i : ~Request(i)
      /\ \A j : Answer(j) => j = 1
  BY <1>w DEF HostTold, ModuleTold, OneRequest
<1>u. /\ held'[h] = pending /\ leaving'[h] = "no" /\ pending' = NULL /\ toHost' = toHost
      /\ \A k \in Handles \ {h} : held'[k] = held[k] /\ leaving'[k] = leaving[k]
  BY DEF CamGetsAccept, CamInv, CamTypeOK
<1>a. \A j : ~Answer(j)'
  BY <1>h, UnqueuesParts
<1>n. \A j : \A k \in Handles : ~Queued(j, "OPEN_OK", k)'
  BY <1>a DEF Answer
<1>1. OneRequest'
  BY <1>s, <1>h, <1>a DEF OneRequest, Request
<1>2. Pending'
  BY <1>w, <1>u, NoneAsked DEF Pending
<1>3. ModuleSessions'
  BY <1>u, <1>h DEF ModuleSessions
<1>c. \A j : ~Control(j, h)'
  BY <1>n, OldestTold
<1>4. HostTold'
  <2>1. \A j : ~Queued(j, "CLOSE_REQUEST", h)' /\ ~Queued(j, "CLOSE_RESPONSE", h)'
    BY <1>c DEF Control
  <2> QED BY <2>1, <1>c, <1>n, <1>u, OthersTold, UnqueuesParts DEF HostTold
<1>5. ModuleTold'
  <2>1. \A i : ~Says(i, h) /\ ~Leaves(i, h) /\ ~Sent(i, "CLOSE_REQUEST", h)
              /\ ~Sent(i, "CLOSEMMI", h) /\ ~Sent(i, "MENU", h) /\ ~Sent(i, "CLOSE_RESPONSE", h)
    BY <1>h DEF About, Says, Leaves
  <2>2. \A i, k : /\ About(i, k)' <=> About(i, k)
                  /\ Says(i, k)' <=> Says(i, k)
                  /\ Leaves(i, k)' <=> Leaves(i, k)
    BY <1>s DEF About, Says, Leaves
  <2> QED BY <2>1, <2>2, <1>s, <1>u, <1>h, UnqueuesParts DEF ModuleTold
<1>6. Dialogue'
  <2>1. current["MMI"] \in Handles
    BY DEF CamInv, CamTypeOK, TypeOK, Fields, Resources
  <2>2. CASE current["MMI"] = h /\ current["MMI"] # 0
    <3>1. pResource[h] = "MMI"
      BY <2>2 DEF Inv, CurrentLive
    <3> QED BY <3>1, <2>2, <1>u, <1>h DEF Dialogue, Live
  <2>3. CASE current["MMI"] # h /\ current["MMI"] # 0
    <3>1. \A j : ~Queued(j, "OPEN_OK", current["MMI"])
      BY <2>1, <2>3, <1>w, <1>h DEF Answer
    <3>2. Live(current["MMI"])
      BY <3>1, <2>3, <1>w DEF Dialogue, Lost
    <3> QED BY <2>1, <2>3, <3>2, <1>u, <1>s DEF Dialogue, Live, Leaves
  <2> QED BY <2>2, <2>3 DEF Dialogue
<1>7. AsksBehind'
  BY <1>u DEF AsksBehind, NULL
<1>8. Follows'
  BY <1>s, <1>u DEF Follows, Says, Leaves
<1>9. PatientMmi => OneDialogue'
  <2>1. PatientMmi /\ pending = "MMI" =>
            \A k \in Handles : held[k] = "MMI" => leaving[k] = "closing"
    BY DEF OneDialogue
  <2>2. pending' # "MMI"
    BY <1>u DEF NULL
  <2> QED BY <2>1, <2>2, <1>u DEF OneDialogue
<1>v. \A k \in Handles : Live(k)' => Live(k) \/ (k = h /\ pending = "MMI")
  BY <1>u, <1>s DEF Live, Leaves
<1>10. PatientMmi => FieldOfDialogue'
  BY <1>v, <1>u, <1>n, <1>w DEF FieldOfDialogue
<1>11. PatientMmi => Ending'
  <2>1. \A k \in Handles : \A i : Sent(i, "CLOSE_RESPONSE", k)' /\ PatientMmi =>
            pending # "MMI" /\ \A l \in Handles : ~Live(l)
    BY <1>s, <1>h DEF Ending
  <2>2. \A k \in Handles : \A j : Queued(j, "CLOSE_REQUEST", k)' /\ PatientMmi =>
            pending # "MMI" /\ \A l \in Handles : ~Live(l)
    BY UnqueuesParts DEF Ending
  <2>3. pending' # "MMI"
    BY <1>u DEF NULL
  <2> QED BY <2>1, <2>2, <2>3, <1>v DEF Ending
<1>12. Accounted => Accounted'
  <2>1. \A k \in Handles \ {h} : Account(k) => Account(k)'
    BY AccountStays, Oldest, <1>u, <1>s
  <2>2. Account(h)'
    BY <1>u, <1>h, <1>c DEF Account, Control
  <2> QED BY <2>1, <2>2, <1>u DEF Accounted, Awaited
<1> QED BY <1>1, <1>2, <1>3, <1>4, <1>5, <1>6, <1>7, <1>8, <1>9, <1>10, <1>11, <1>12

\* The module is refused: it may ask again.
LEMMA RefusalDelivered ==
    ASSUME CamInv, Known, NEW h \in Handles, Queued(1, "OPEN_F0", h), Unqueues,
           CamGetsRefusal, UNCHANGED <<pResource, current>>
    PROVE  Known' /\ (Fits /\ Accounted => Accounted')
<1> USE DEF Known
<1>w. Answer(1) /\ \A k : ~Control(1, k)
  BY Oldest
<1>s. \A i, v, k : Sent(i, v, k)' <=> Sent(i, v, k)
  BY DEF Sent, CamGetsRefusal
<1>u. UNCHANGED <<toHost, held, leaving>> /\ pending' = NULL
  BY DEF CamGetsRefusal
<1>h. (\A i : ~Request(i)) /\ \A j : Answer(j) => j = 1
  BY <1>w DEF OneRequest
<1>a. \A j : ~Answer(j)'
  BY <1>h, UnqueuesParts
<1>n. \A j : \A k \in Handles : ~Queued(j, "OPEN_OK", k)' /\ ~Queued(j, "OPEN_OK", k)
  <2>1. \A j : \A k \in Handles : ~Queued(j, "OPEN_OK", k)'
    BY <1>a DEF Answer
  <2>2. \A j : \A k \in Handles : Queued(j, "OPEN_OK", k) => j = 1
    BY <1>h DEF Answer
  <2> QED BY <2>1, <2>2, <1>w DEF Control
<1>1. OneRequest'
  BY <1>s, <1>h, <1>a DEF OneRequest, Request
<1>2. Pending'
  BY <1>w, <1>u, NoneAsked DEF Pending
<1>3. ModuleSessions'
  BY <1>u DEF ModuleSessions
<1>4. HostTold'
  BY <1>n, <1>u, OthersTold, UnqueuesParts DEF HostTold
<1>5. ModuleTold'
  BY <1>s, <1>u, UnqueuesParts DEF ModuleTold, About, Says, Leaves
<1>6. Dialogue'
  <2>1. current["MMI"] \in Handles
    BY DEF CamInv, CamTypeOK, TypeOK, Fields, Resources
  <2>2. current["MMI"] # 0 => Live(current["MMI"])
    BY <2>1, <1>n, <1>w DEF Dialogue, Lost
  <2> QED BY <2>2, <1>u, <1>s DEF Dialogue, Live, Leaves
<1>7. AsksBehind'
  BY <1>u DEF AsksBehind, NULL
<1>8. Follows'
  BY <1>s, <1>u DEF Follows, Says, Leaves
<1>9. PatientMmi => OneDialogue'
  BY <1>u DEF OneDialogue, NULL
<1>v. \A k : Live(k)' <=> Live(k)
  BY <1>s, <1>u DEF Live, Leaves
<1>10. PatientMmi => FieldOfDialogue'
  BY <1>v, <1>n DEF FieldOfDialogue
<1>11. PatientMmi => Ending'
  <2>1. pending' # "MMI"
    BY <1>u DEF NULL
  <2> QED BY <2>1, <1>v, <1>s, UnqueuesParts DEF Ending
<1>12. Accounted => Accounted'
  <2>1. \A k \in Handles : Account(k) => Account(k)'
    BY AccountStays, Oldest, <1>u, <1>s
  <2> QED BY <2>1, <1>u DEF Accounted, Awaited
<1> QED BY <1>1, <1>2, <1>3, <1>4, <1>5, <1>6, <1>7, <1>8, <1>9, <1>10, <1>11, <1>12

\* The host confirms the end of a session the module has given up.
LEMMA CloseResponseDelivered ==
    ASSUME CamInv, Known, NEW h \in Handles, Queued(1, "CLOSE_RESPONSE", h), Unqueues,
           CamGetsCloseResponse(h), UNCHANGED <<pResource, current>>
    PROVE  Known' /\ (Fits /\ Accounted => Accounted')
<1> USE DEF Known
<1>w. /\ ~Answer(1) /\ Control(1, h)
      /\ \A k : ~Queued(1, "OPEN_OK", k)
  BY Oldest
<1>s. \A i, v, k : Sent(i, v, k)' <=> Sent(i, v, k)
  BY DEF Sent, CamGetsCloseResponse
<1>h. leaving[h] = "closing" /\ \A i : ~About(i, h)
  BY <1>w DEF HostTold, ModuleTold
<1>u. /\ held'[h] = NULL /\ leaving'[h] = "no" /\ pending' = pending /\ toHost' = toHost
      /\ \A k \in Handles \ {h} : held'[k] = held[k] /\ leaving'[k] = leaving[k]
  BY DEF CamGetsCloseResponse, CamInv, CamTypeOK
<1>p. \A i, k : /\ About(i, k)' <=> About(i, k)
                /\ Says(i, k)' <=> Says(i, k)
                /\ Leaves(i, k)' <=> Leaves(i, k)
                /\ Request(i)' <=> Request(i)
  BY <1>s DEF About, Says, Leaves, Request
<1>1. OneRequest'
  BY <1>p, <1>u, StillOneRequest
<1>2. Pending'
  BY <1>u DEF Pending
<1>3. ModuleSessions'
  BY <1>u DEF ModuleSessions
<1>4. HostTold'
  <2>1. \A j : ~Queued(j, "CLOSE_REQUEST", h)' /\ ~Queued(j, "CLOSE_RESPONSE", h)'
    <3>1. \A j : Control(j, h)' => Queued(j, "OPEN_OK", h)'
      BY OldestTold
    <3>2. \A j : Queued(j, "OPEN_OK", h)' => ~Queued(j, "CLOSE_REQUEST", h)' /\ ~Queued(j, "CLOSE_RESPONSE", h)'
      BY UnqueuesParts, Places
    <3> QED BY <3>1, <3>2 DEF Control
  <2> QED BY <2>1, <1>u, OthersTold, UnqueuesParts DEF HostTold
<1>5. ModuleTold'
  <2>1. \A i : ~Says(i, h) /\ ~Leaves(i, h) /\ ~Sent(i, "CLOSE_REQUEST", h)
              /\ ~Sent(i, "CLOSEMMI", h) /\ ~Sent(i, "MENU", h) /\ ~Sent(i, "CLOSE_RESPONSE", h)
    BY <1>h DEF About, Says, Leaves
  <2> QED BY <2>1, <1>p, <1>s, <1>u, <1>h, UnqueuesParts DEF ModuleTold
<1>6. Dialogue'
  <2>1. current["MMI"] \in Handles
    BY DEF CamInv, CamTypeOK, TypeOK, Fields, Resources
  <2>2. Lost => Lost'
    BY <1>p, <1>u, UnqueuesParts DEF Lost
  <2>3. ASSUME NEW j, Queued(j, "OPEN_OK", current["MMI"]) PROVE Dialogue'
    BY <2>3, <1>w, UnqueuesParts DEF Dialogue
  <2>4. ASSUME Live(current["MMI"]) PROVE Dialogue'
    <3>1. current["MMI"] # h
      BY <2>4, <1>h DEF Live, About
    <3> QED BY <3>1, <2>1, <2>4, <1>u, <1>p DEF Dialogue, Live
  <2> QED BY <2>2, <2>3, <2>4 DEF Dialogue
<1>7. AsksBehind'
  BY <1>u, <1>p DEF AsksBehind, NULL
<1>8. Follows'
  BY <1>p, <1>u DEF Follows
<1>9. PatientMmi => OneDialogue'
  BY <1>u DEF OneDialogue, NULL
<1>v. \A k \in Handles : Live(k)' => Live(k)
  BY <1>p, <1>u DEF Live, NULL
<1>10. PatientMmi => FieldOfDialogue'
  BY <1>v, <1>u, UnqueuesParts DEF FieldOfDialogue
<1>11. PatientMmi => Ending'
  BY <1>v, <1>u, <1>s, <1>p, UnqueuesParts DEF Ending
<1>12. Accounted => Accounted'
  <2>1. Awaited => Awaited'
    BY <1>w, <1>p, <1>u, UnqueuesParts DEF Awaited
  <2>2. \A k \in Handles \ {h} : Account(k) => Account(k)'
    BY AccountStays, Oldest, <1>u, <1>s
  <2>3. Account(h) => Account(h)'
    <3>1. (\E j : Queued(j, "OPEN_OK", h)) => \E j : Queued(j, "OPEN_OK", h)'
      BY <1>w, UnqueuesParts
    <3>2. (\E i : Sent(i, "CLOSE_RESPONSE", h)) => \E i : Sent(i, "CLOSE_RESPONSE", h)'
      BY <1>s
    <3> QED BY <3>1, <3>2, <1>u DEF Account
  <2> QED BY <2>1, <2>2, <2>3 DEF Accounted
<1> QED BY <1>1, <1>2, <1>3, <1>4, <1>5, <1>6, <1>7, <1>8, <1>9, <1>10, <1>11, <1>12

\* The host asks for the end of a dialogue the module has left: it confirms.
LEMMA CloseRequestDelivered ==
    ASSUME CamInv, Known, NEW h \in Handles, Queued(1, "CLOSE_REQUEST", h), Unqueues,
           CamGetsCloseRequest(h), UNCHANGED <<pResource, current>>
    PROVE  Known' /\ (Fits /\ Accounted => Accounted')
<1> USE DEF Known
<1> DEFINE m == Message("CLOSE_RESPONSE", h, NULL)
<1>w. /\ ~Answer(1) /\ Control(1, h)
      /\ \A k : ~Queued(1, "OPEN_OK", k)
  BY Oldest
<1>m. /\ m \in Messages /\ m.what = "CLOSE_RESPONSE" /\ m.sess = h
      /\ toHost' = Append(toHost, m) /\ Tells(m)
  <2>1. m \in Messages /\ m.what = "CLOSE_RESPONSE" /\ m.sess = h
    BY DEF Message, Messages
  <2>2. toHost' = Append(toHost, m)
    BY DEF CamGetsCloseRequest
  <2> QED BY <2>1, <2>2, AppendTells
<1>h. /\ leaving[h] = "mmi" /\ current["MMI"] # h /\ pResource[h] = "MMI"
      /\ \A i : ~About(i, h)
  BY <1>w DEF HostTold, ModuleTold, ModuleSessions
<1>u. /\ held'[h] = NULL /\ leaving'[h] = "no" /\ pending' = pending
      /\ \A k \in Handles \ {h} : held'[k] = held[k] /\ leaving'[k] = leaving[k]
  BY DEF CamGetsCloseRequest, CamInv, CamTypeOK
<1>p. \A i, k : /\ About(i, k)' <=> About(i, k) \/ (i = Len(toHost) + 1 /\ k = h)
                /\ Says(i, k)' <=> Says(i, k)
                /\ Leaves(i, k)' <=> Leaves(i, k)
                /\ Request(i)' <=> Request(i)
                /\ About(i, k) => i \in Nat /\ i < Len(toHost) + 1
  BY <1>m, TellsParts
<1>c. \A j : ~Control(j, h)'
  BY OldestTold
<1>1. OneRequest'
  BY <1>p, <1>u, StillOneRequest
<1>2. Pending'
  BY <1>u, <1>m, AppendPending DEF Pending
<1>3. ModuleSessions'
  BY <1>u DEF ModuleSessions
<1>4. HostTold'
  <2>1. \A j : ~Queued(j, "CLOSE_REQUEST", h)' /\ ~Queued(j, "CLOSE_RESPONSE", h)' /\ ~Queued(j, "OPEN_OK", h)'
    BY <1>c DEF Control
  <2> QED BY <2>1, <1>u, OthersTold, UnqueuesParts DEF HostTold
<1>5. ModuleTold'
  <2>1. ASSUME NEW k \in Handles, k # h
        PROVE  /\ \A i : About(i, k)' => /\ pResource'[k] # NULL
                                         /\ \A j : About(j, k)' /\ j < i => Says(j, k)'
                                         /\ \A j : ~Control(j, k)'
               /\ \A i : Says(i, k)' \/ Leaves(i, k)' => held'[k] = pResource'[k]
               /\ \A i : Sent(i, "CLOSE_REQUEST", k)' => leaving'[k] = "closing"
               /\ \A i : Sent(i, "CLOSEMMI", k)' => leaving'[k] = "mmi"
               /\ \A i : Sent(i, "MENU", k)' => held'[k] = "MMI"
               /\ \A i : Sent(i, "CLOSE_RESPONSE", k)' =>
                    held'[k] = NULL /\ pResource'[k] = "MMI" /\ current'["MMI"] # k
    BY <2>1, <1>u, <1>m, <1>p, TellsParts, UnqueuesParts DEF ModuleTold
  <2>2. \A i, j : About(i, h)' /\ About(j, h)' => ~(j < i)
    BY <1>h, <1>p, Places
  <2>3. \A i : ~Says(i, h)' /\ ~Leaves(i, h)'
    BY <1>h, <1>p DEF About
  <2>4. \A i : ~Sent(i, "CLOSE_REQUEST", h)' /\ ~Sent(i, "CLOSEMMI", h)' /\ ~Sent(i, "MENU", h)'
    BY <2>3 DEF Says, Leaves
  <2>5. pResource'[h] # NULL
    BY <1>h DEF NULL
  <2> QED BY <2>1, <2>2, <2>3, <2>4, <2>5, <1>c, <1>h, <1>u DEF ModuleTold
<1>6. Dialogue'
  <2>1. current["MMI"] \in Handles
    BY DEF CamInv, CamTypeOK, TypeOK, Fields, Resources
  <2>2. Lost => Lost'
    BY <1>p, <1>u, UnqueuesParts DEF Lost
  <2>3. ASSUME NEW j, Queued(j, "OPEN_OK", current["MMI"]) PROVE Dialogue'
    BY <2>3, <1>w, UnqueuesParts DEF Dialogue
  <2>4. ASSUME Live(current["MMI"]) PROVE Dialogue'
    BY <1>h, <2>1, <2>4, <1>u, <1>p DEF Dialogue, Live
  <2> QED BY <2>2, <2>3, <2>4 DEF Dialogue
<1>7. AsksBehind'
  BY <1>u, <1>p DEF AsksBehind, NULL
<1>8. Follows'
  BY <1>p, <1>u DEF Follows
<1>9. PatientMmi => OneDialogue'
  BY <1>u DEF OneDialogue, NULL
<1>v. \A k \in Handles : Live(k)' => Live(k)
  BY <1>p, <1>u DEF Live, NULL
<1>10. PatientMmi => FieldOfDialogue'
  BY <1>v, <1>u, UnqueuesParts DEF FieldOfDialogue
<1>11. PatientMmi => Ending'
  <2>1. PatientMmi => pending # "MMI" /\ \A k \in Handles : ~Live(k)
    BY DEF Ending
  <2> QED BY <2>1, <1>u, <1>v DEF Ending
<1>12. Accounted => Accounted'
  <2>s. /\ \A i, w, k : Sent(i, w, k) => Sent(i, w, k)'
        /\ \E i : Sent(i, "CLOSE_RESPONSE", h)'
    BY <1>m, TellsParts
  <2>1. Awaited => Awaited'
    BY <1>w, <1>p, <1>u, UnqueuesParts DEF Awaited
  <2>2. \A k \in Handles \ {h} : Account(k) => Account(k)'
    BY AccountStays, Oldest, <1>u, <2>s
  <2>3. Account(h)'
    BY <2>s, <1>u DEF Account
  <2> QED BY <2>1, <2>2, <2>3 DEF Accounted
<1> QED BY <1>1, <1>2, <1>3, <1>4, <1>5, <1>6, <1>7, <1>8, <1>9, <1>10, <1>11, <1>12

-----------------------------------------------------------------------------
(* Every step of the two.                                                  *)

\* With no module in the slot nothing is said; the next one starts anew.
Linked == slot # "EMPTY" => Known

\* A slot that runs has agreed on the size of its buffers.
LinkIsUp == slot = "CISTART" => linkUp

AllAccounted == slot # "EMPTY" => Accounted

\* What the module says of its own accord.
LEMMA CamKnown == CamInv /\ Known /\ Cam => Known' /\ (Fits /\ Accounted => Accounted')
<1> SUFFICES ASSUME CamInv, Known, Cam PROVE Known' /\ (Fits /\ Accounted => Accounted')
  OBVIOUS
<1>1. ASSUME NEW r \in CamRequests, CamOpen(r) PROVE Known' /\ (Fits /\ Accounted => Accounted')
  BY <1>1, OpenKnown
<1>t. leaving \in [Handles -> {"no", "closing", "mmi"}]
  BY DEF CamInv, CamTypeOK
<1>2. ASSUME NEW h \in Handles, CamClose(h) PROVE Known' /\ (Fits /\ Accounted => Accounted')
  <2>1. leaving' = [leaving EXCEPT ![h] = CASE "CLOSE_REQUEST" = "CLOSE_REQUEST" -> "closing"
                                            [] "CLOSE_REQUEST" = "CLOSEMMI" -> "mmi"
                                            [] OTHER -> "no"]
    BY <1>2 DEF CamClose
  <2> QED BY <1>2, <2>1, SpeaksKnown DEF CamClose
<1>3. ASSUME NEW h \in Handles, CamCloseMmi(h) PROVE Known' /\ (Fits /\ Accounted => Accounted')
  <2>1. leaving' = [leaving EXCEPT ![h] = CASE "CLOSEMMI" = "CLOSE_REQUEST" -> "closing"
                                            [] "CLOSEMMI" = "CLOSEMMI" -> "mmi"
                                            [] OTHER -> "no"]
    BY <1>3 DEF CamCloseMmi
  <2>2. held[h] # NULL
    BY <1>3 DEF CamCloseMmi, NULL
  <2> QED BY <1>3, <2>1, <2>2, SpeaksKnown DEF CamCloseMmi
<1>4. ASSUME NEW h \in Handles, CamData(h, "MMI", "MENU") PROVE Known' /\ (Fits /\ Accounted => Accounted')
  <2>1. leaving' = [leaving EXCEPT ![h] = CASE "MENU" = "CLOSE_REQUEST" -> "closing"
                                            [] "MENU" = "CLOSEMMI" -> "mmi"
                                            [] OTHER -> "no"]
    BY <1>4, <1>t DEF CamData
  <2>2. held[h] # NULL /\ held[h] = "MMI"
    BY <1>4 DEF CamData, NULL
  <2> QED BY <1>4, <2>1, <2>2, SpeaksKnown DEF CamData
<1>5. ASSUME NEW h \in Handles, CamData(h, "CaSupport", "CA_INFO") PROVE Known' /\ (Fits /\ Accounted => Accounted')
  <2>1. leaving' = [leaving EXCEPT ![h] = CASE "CA_INFO" = "CLOSE_REQUEST" -> "closing"
                                            [] "CA_INFO" = "CLOSEMMI" -> "mmi"
                                            [] OTHER -> "no"]
    BY <1>5, <1>t DEF CamData
  <2>2. held[h] # NULL /\ held[h] = "CaSupport"
    BY <1>5 DEF CamData, NULL
  <2> QED BY <1>5, <2>1, <2>2, SpeaksKnown DEF CamData
<1> QED BY <1>1, <1>2, <1>3, <1>4, <1>5 DEF Cam

\* What Parse_SPDU makes of it.
LEMMA ParseKnown == CamInv /\ Inv /\ Known /\ HostParses => Known' /\ (Fits /\ Accounted => Accounted')
<1> SUFFICES ASSUME CamInv, Inv, Known, HostParses PROVE Known' /\ (Fits /\ Accounted => Accounted')
  OBVIOUS
<1> DEFINE m == Head(toHost)
<1>p. ASSUME NEW w, Parse(w)
      PROVE  /\ Hears /\ m.sess \in Handles /\ Sent(1, w, m.sess)
             /\ toHost # <<>> /\ toHost' = Tail(toHost) /\ UNCHANGED <<held, leaving, pending>>
  BY <1>p, ParseHears DEF Parse
<1>1. CASE Parse("OPEN_REQUEST") /\ OpenNoHandle
  <2>1. /\ UNCHANGED <<pResource, current>> /\ Send1(SPDU("OPEN_F0", 0)) /\ 0 \in Handles
        /\ slot = "CISTART"
    BY <1>1, HandlesFacts DEF OpenNoHandle, tableVars
  <2> QED BY <1>1, <1>p, <2>1, RefusalKnown
<1>2. CASE Parse("OPEN_REQUEST") /\ OpenUnknown(m.res)
  <2>1. PICK h \in Handles : Send1(SPDU("OPEN_F0", h))
    BY <1>2 DEF OpenUnknown
  <2>2. UNCHANGED <<pResource, current>> /\ slot = "CISTART"
    BY <1>2 DEF OpenUnknown, tableVars
  <2> QED BY <1>2, <1>p, <2>1, <2>2, RefusalKnown
<1>3. CASE Parse("OPEN_REQUEST") /\ OpenRefused(m.res)
  BY <1>3, <1>p, NeverRefused
<1>4. CASE Parse("OPEN_REQUEST") /\ OpenAccepted(m.res)
  BY <1>4, <1>p, AcceptKnown
<1>5. CASE Parse("CLOSE_REQUEST") /\ CloseRequest(m.sess)
  BY <1>5, <1>p, CloseRequestKnown
<1>6. CASE Parse("CLOSE_RESPONSE") /\ CloseResponse(m.sess)
  BY <1>6, <1>p, CloseResponseKnown
<1>r. ASSUME NEW w \in {"CLOSEMMI", "MENU", "CA_INFO"}, Parse(w) PROVE ~DataRejected(m.sess)
  <2>1. About(1, m.sess)
    BY <1>r, <1>p, First
  <2>2. pResource[m.sess] # NULL
    BY <1>r, <1>p, <2>1 DEF Known, ModuleTold
  <2> QED BY <1>r, <1>p, <2>2 DEF DataRejected, Inv, SessionTable
<1>7. CASE Parse("CLOSEMMI") /\ DataCloseMmi(m.sess)
  BY <1>7, <1>p, CloseMmiKnown
<1>8. CASE Parse("MENU") /\ DataMenu(m.sess)
  <2>1. UNCHANGED <<pResource, current>>
    BY <1>8 DEF DataMenu, tableVars
  <2>2. Still(Words)
    <3>1. current["MMI"] \in Handles
      BY DEF Inv, TypeOK, Fields, Resources
    <3>2. SPDU("MMI_CLOSE", current["MMI"]) \in SPDUs /\ SPDU("MMI_CLOSE", current["MMI"]).spdu \notin Words
      BY <3>1, SPDUTypes DEF SPDU, Words
    <3> QED BY <1>8, <3>2, SendOne DEF DataMenu
  <2> QED BY <1>8, <1>p, <2>1, <2>2, DataKnown
<1>9. CASE Parse("CA_INFO") /\ DataCaInfo(m.sess)
  <2>1. UNCHANGED <<pResource, current>> /\ Still(Words)
    BY <1>9 DEF DataCaInfo, tableVars, Still, Queued
  <2> QED BY <1>9, <1>p, <2>1, DataKnown
<1> QED BY <1>1, <1>2, <1>3, <1>4, <1>5, <1>6, <1>7, <1>8, <1>9, <1>r DEF HostParses, Opened

\* What the module makes of the SPDUs it gets.
LEMMA DeliverKnown == CamInv /\ Inv /\ Known /\ Deliver => Known' /\ (Fits /\ Accounted => Accounted')
<1> SUFFICES ASSUME CamInv, Inv, Known, Deliver PROVE Known' /\ (Fits /\ Accounted => Accounted')
  OBVIOUS
<1> DEFINE s == Head(sendq)
<1>0. Transmit /\ UNCHANGED <<pResource, current>>
  BY DEF Deliver, Transmit, tableVars
<1>1. Unqueues /\ s.sess \in Handles /\ Queued(1, s.spdu, s.sess)
  BY <1>0, TransmitTakes
<1>2. CASE s.spdu = "OPEN_OK" /\ CamGetsAccept(s.sess)
  BY <1>0, <1>1, <1>2, AcceptDelivered
<1>3. CASE s.spdu = "OPEN_F0" /\ CamGetsRefusal
  BY <1>0, <1>1, <1>3, RefusalDelivered
<1>4. CASE s.spdu = "CLOSE_RESPONSE" /\ CamGetsCloseResponse(s.sess)
  BY <1>0, <1>1, <1>4, CloseResponseDelivered
<1>5. CASE s.spdu = "CLOSE_REQUEST" /\ CamGetsCloseRequest(s.sess)
  BY <1>0, <1>1, <1>5, CloseRequestDelivered
<1>6. CASE s.spdu \notin Words /\ UNCHANGED camVars
  BY <1>0, <1>1, <1>6, DataDelivered DEF camVars
<1> QED BY <1>2, <1>3, <1>4, <1>5, <1>6 DEF Deliver, Words

\* A module starts with nothing known and nothing to know.
LEMMA StartKnown == ModuleInserted /\ CamFresh => Known' /\ Accounted'
<1> SUFFICES ASSUME ModuleInserted, CamFresh PROVE Known' /\ Accounted'
  OBVIOUS
<1>1. sendq' = <<>> /\ toHost' = <<>>
  BY DEF ModuleInserted, Zeroed, CamFresh
<1>2. \A j, w, h : ~Queued(j, w, h)' /\ ~Sent(j, w, h)'
  BY <1>1 DEF Queued, At, Sent, From
<1>3. \A j, h : ~Control(j, h)' /\ ~About(j, h)' /\ ~Says(j, h)' /\ ~Leaves(j, h)'
  BY <1>2 DEF Control, About, Says, Leaves
<1>4. \A j : ~Answer(j)' /\ ~Request(j)'
  BY <1>2 DEF Answer, Request
<1>5. /\ held' = [h \in Handles |-> NULL] /\ leaving' = [h \in Handles |-> "no"] /\ pending' = NULL
      /\ current'["MMI"] = 0
  BY DEF ModuleInserted, Zeroed, CamFresh, Fields, Resources
<1>6. OneRequest' /\ AsksBehind'
  BY <1>4 DEF OneRequest, AsksBehind
<1>7. Pending'
  BY <1>1 DEF Pending
<1>8. ModuleSessions'
  BY <1>5 DEF ModuleSessions
<1>9. HostTold' /\ ModuleTold'
  BY <1>2, <1>3 DEF HostTold, ModuleTold
<1>10. Dialogue'
  BY <1>5 DEF Dialogue
<1>11. Follows'
  BY <1>3 DEF Follows
<1>12. \A h \in Handles : /\ held'[h] = NULL /\ leaving'[h] = "no" /\ pResource'[h] = NULL
                          /\ ~Live(h)'
  BY <1>5, <1>3 DEF Live, NULL, ModuleInserted, Zeroed
<1>13. OneDialogue' /\ FieldOfDialogue' /\ Ending'
  BY <1>2, <1>12 DEF OneDialogue, FieldOfDialogue, Ending, NULL
<1>14. Accounted'
  BY <1>5, <1>12 DEF Accounted, Awaited, Account
<1> QED BY <1>6, <1>7, <1>8, <1>9, <1>10, <1>11, <1>13, <1>14 DEF Known

\* The CA_PMTs of the sender threads answer nothing and end nothing.
LEMMA SendersQuiet ==
    ASSUME CamInv, HostSends
    PROVE  /\ Still(Words) /\ slot' = slot
           /\ UNCHANGED <<toHost, held, leaving, pending, pResource, current>>
<1> PICK t \in Senders : Sender(t) /\ UNCHANGED camVars
  BY DEF HostSends
<1>1. CASE SendPMT(t)
  <2>1. CaPmt(sess[t], Head(modes[t])) \in SPDUs
    <3>1. sess[t] \in Handles /\ modes[t] \in Seq(Modes) /\ modes[t] # <<>>
      BY <1>1 DEF SendPMT, CamInv, CamTypeOK, TypeOK
    <3>2. Head(modes[t]) \in Modes
      BY <3>1, HeadTail
    <3> QED BY <3>1, <3>2, SPDUTypes
  <2>2. CaPmt(sess[t], Head(modes[t])).spdu \notin Words
    BY DEF CaPmt, Words
  <2>3. Still(Words)
    BY <1>1, <2>1, <2>2, SendOne DEF SendPMT
  <2> QED BY <1>1, <2>3 DEF SendPMT, tableVars, camVars
<1>2. CASE Start(t) \/ Overflow(t) \/ Check(t) \/ Lookup(t) \/ ClearFlag(t)
  <2>1. sendq' = sendq /\ slot' = slot /\ UNCHANGED <<pResource, current, toHost, held, leaving, pending>>
    BY <1>2 DEF Start, Overflow, Check, Lookup, ClearFlag, tableVars, camVars
  <2> QED BY <2>1 DEF Still, Queued
<1> QED BY <1>1, <1>2 DEF Sender

\* The initial states, and every step.
LEMMA LinkedInit == CamInit => Linked /\ LinkIsUp /\ AllAccounted
BY DEF CamInit, Init, Linked, LinkIsUp, AllAccounted

LEMMA LinkIsUpStep == LinkIsUp /\ [Next]_vars => LinkIsUp'
<1> SUFFICES ASSUME LinkIsUp, [Next]_vars, slot' = "CISTART" PROVE linkUp'
  BY DEF LinkIsUp
<1>1. CASE ConfigDone
  BY <1>1 DEF ConfigDone
<1>2. CASE ModuleInserted \/ ConfigFailed \/ ModuleRemoved \/ ResetCAM
  BY <1>2 DEF ModuleInserted, ConfigFailed, ModuleRemoved, ResetCAM
<1>3. CASE slot' = slot /\ linkUp' = linkUp
  BY <1>3 DEF LinkIsUp
<1>4. CASE OpenRequest
  BY <1>3, <1>4 DEF OpenRequest, OpenNoHandle, OpenUnknown, OpenRefused, OpenAccepted
<1>5. ASSUME NEW h \in Handles, CloseRequest(h) \/ CloseResponse(h) \/ SessionData(h) PROVE linkUp'
  BY <1>3, <1>5 DEF CloseRequest, CloseResponse, SessionData, DataCloseMmi, DataProfile, DataProfileEnq,
        DataDisplayControl, DataMenu, DataCaInfo, Reply
<1>6. CASE Transmit
  BY <1>3, <1>6 DEF Transmit
<1>7. ASSUME NEW t \in Senders, Sender(t) PROVE linkUp'
  BY <1>3, <1>7 DEF Sender, Start, Overflow, Check, Lookup, SendPMT, ClearFlag
<1>8. CASE UNCHANGED vars
  BY <1>3, <1>8 DEF vars
<1> QED BY <1>1, <1>2, <1>4, <1>5, <1>6, <1>7, <1>8 DEF Next, Monitoring

LEMMA LinkedStep ==
    CamInv /\ Inv /\ Linked /\ [CamNext]_allVars =>
        Linked' /\ (AnswerFits /\ LinkIsUp /\ AllAccounted => AllAccounted')
<1> SUFFICES ASSUME CamInv, Inv, Linked, [CamNext]_allVars, slot' # "EMPTY"
             PROVE  Known' /\ (AnswerFits /\ LinkIsUp /\ AllAccounted => Accounted')
  BY DEF Linked, AllAccounted
<1>l. /\ slot # "EMPTY" => Known
      /\ slot = "CISTART" => (AnswerFits /\ LinkIsUp => Fits)
      /\ slot # "EMPTY" => (AllAccounted => Accounted)
  BY DEF Linked, AllAccounted, LinkIsUp, Fits
<1>1. CASE Cam
  <2>1. slot = "CISTART"
    BY <1>1 DEF Cam, CamOpen, CamClose, CamCloseMmi, CamData, Say
  <2> QED BY <1>1, <2>1, <1>l, CamKnown
<1>2. CASE HostParses
  <2>1. slot = "CISTART"
    BY <1>2 DEF HostParses, Opened, OpenNoHandle, OpenUnknown, OpenRefused, OpenAccepted, CloseRequest,
                CloseResponse, DataCloseMmi, DataMenu, DataCaInfo, DataRejected, Data
  <2> QED BY <1>2, <2>1, <1>l, ParseKnown
<1>3. CASE Deliver
  <2>1. slot = "CISTART"
    BY <1>3 DEF Deliver, Transmit
  <2> QED BY <1>3, <2>1, <1>l, DeliverKnown
<1>4. CASE ModuleInserted /\ CamFresh
  BY <1>4, StartKnown
<1>5. CASE (ConfigDone \/ ConfigFailed) /\ UNCHANGED camVars
  <2>1. Still(Words) /\ slot # "EMPTY" /\ UNCHANGED <<toHost, held, leaving, pending, pResource, current>>
    BY <1>5 DEF ConfigDone, ConfigFailed, tableVars, camVars, Still, Queued
  <2> QED BY <2>1, <1>l, QuietKnown
<1>6. CASE ModuleRemoved \/ ResetCAM
  BY <1>6 DEF ModuleRemoved, ResetCAM
<1>7. CASE HostSends
  BY <1>7, <1>l, SendersQuiet, QuietKnown
<1>8. CASE UNCHANGED allVars
  <2>1. Still(Words) /\ slot' = slot /\ UNCHANGED <<toHost, held, leaving, pending, pResource, current>>
    BY <1>8 DEF allVars, vars, tableVars, camVars, Still, Queued
  <2> QED BY <2>1, <1>l, QuietKnown
<1> QED BY <1>1, <1>2, <1>3, <1>4, <1>5, <1>6, <1>7, <1>8 DEF CamNext, HostSlot

-----------------------------------------------------------------------------
(* What host and module promise one another: they agree on their sessions  *)
(* once nothing is under way, the MMI field is the session of the dialogue,*)
(* and the host speaks on no session the module does not hold.             *)

(* Both agree when nothing is under way.                                   *)

AgreeInv == CamInv /\ Inv /\ Linked /\ LinkIsUp /\ AllAccounted

LEMMA AgreeInit == CamInit => AgreeInv
<1>1. CamInit => Inv
  BY InitInv DEF CamInit
<1> QED BY <1>1, CamInitInv, LinkedInit DEF AgreeInv

LEMMA AgreeStep == AgreeInv /\ AnswerFits /\ [CamNext]_allVars => AgreeInv'
BY CamNextStep, InvStep, LinkedStep, LinkIsUpStep DEF AgreeInv

LEMMA AccountedAgree == AgreeInv => Agreement
<1> SUFFICES ASSUME AgreeInv, slot = "CISTART", sendq = <<>>, toHost = <<>>
             PROVE  pending = NULL /\ \A h \in Handles : leaving[h] = "no" /\ pResource[h] = held[h]
  BY DEF Agreement
<1>1. (\A j, w, h : ~Queued(j, w, h)) /\ (\A i, w, h : ~Sent(i, w, h))
  BY DEF Queued, At, Sent, From
<1>2. Accounted /\ ModuleSessions
  BY DEF AgreeInv, AllAccounted, Linked, Known
<1>3. \A i, h : ~Request(i) /\ ~Answer(i) /\ ~Leaves(i, h)
  BY <1>1 DEF Request, Answer, Leaves
<1>4. pending = NULL
  BY <1>2, <1>3 DEF Accounted, Awaited
<1>5. \A h \in Handles : leaving[h] = "no" /\ pResource[h] = held[h]
  BY <1>1, <1>2, <1>3 DEF Accounted, Account, ModuleSessions
<1> QED BY <1>4, <1>5

\* As long as Parse_SPDU finds room for what it has to answer, host and module
\* have the same sessions whenever nothing is under way, and nobody waits: no
\* order of requests, closes and their answers (ci.c:420-530) parts them.
THEOREM AgreementHolds == CamSpec /\ []AnswerFits => []Agreement
BY AgreeInit, AgreeStep, AccountedAgree, PTL DEF CamSpec

-----------------------------------------------------------------------------
(* The MMI field, with a module that waits for the end of its dialogue.    *)

LinkInv == CamInv /\ Inv /\ Linked

LEMMA LinkInvInit == CamInit => LinkInv
BY AgreeInit DEF AgreeInv, LinkInv

LEMMA LinkInvStep == LinkInv /\ [CamNext]_allVars => LinkInv'
BY CamNextStep, InvStep, LinkedStep DEF LinkInv

LEMMA DialogueIsCurrent == PatientMmi /\ Known => MmiSessionCurrent
BY DEF Known, FieldOfDialogue, Live, MmiSessionCurrent

\* STATUS_ResetCAM leaves the tables as they are, CI_ModuleRemoved clears them.
LEMMA CurrentWithoutModule ==
    ASSUME CamInv, MmiSessionCurrent, [CamNext]_allVars, slot' = "EMPTY"
    PROVE  MmiSessionCurrent'
<1>1. CASE UNCHANGED <<pResource, current, held, leaving>>
  BY <1>1 DEF MmiSessionCurrent
<1>2. CASE Cam \/ HostParses \/ Deliver
  BY <1>2 DEF Cam, CamOpen, CamClose, CamCloseMmi, CamData, Say, HostParses, Opened, OpenNoHandle,
        OpenUnknown, OpenRefused, OpenAccepted, CloseRequest, CloseResponse, DataCloseMmi, DataMenu,
        DataCaInfo, DataRejected, Data, Deliver, Transmit, vars
<1>3. CASE ModuleInserted
  BY <1>3 DEF ModuleInserted
<1>4. CASE (ConfigDone \/ ConfigFailed \/ ResetCAM) /\ UNCHANGED camVars
  BY <1>1, <1>4 DEF ConfigDone, ConfigFailed, ResetCAM, tableVars, camVars
<1>5. CASE ModuleRemoved
  BY <1>5 DEF ModuleRemoved, Zeroed, MmiSessionCurrent, NULL
<1>6. CASE HostSends
  BY <1>1, <1>6, SendersQuiet
<1>7. CASE UNCHANGED allVars
  BY <1>1, <1>7 DEF allVars, vars, tableVars, camVars
<1> QED BY <1>2, <1>3, <1>4, <1>5, <1>6, <1>7 DEF CamNext, HostSlot

LEMMA CurrentStep ==
    PatientMmi /\ LinkInv /\ MmiSessionCurrent /\ [CamNext]_allVars => MmiSessionCurrent'
<1> SUFFICES ASSUME PatientMmi, LinkInv, MmiSessionCurrent, [CamNext]_allVars
             PROVE  MmiSessionCurrent'
  OBVIOUS
<1>1. CASE slot' = "EMPTY"
  BY <1>1, CurrentWithoutModule DEF LinkInv
<1>2. CASE slot' # "EMPTY"
  <2>1. Known'
    BY <1>2, LinkInvStep DEF LinkInv, Linked
  <2> QED BY <2>1 DEF Known, FieldOfDialogue, Live, MmiSessionCurrent
<1> QED BY <1>1, <1>2

\* With a module that opens no dialogue before the old one is closed, the field
\* of CI_MMI.c is the session of the dialogue both are in, even when answers
\* are lost in a full queue.
THEOREM MmiSessionCurrentHolds == PatientMmi => (CamSpec => []MmiSessionCurrent)
<1> SUFFICES ASSUME PatientMmi PROVE CamSpec => []MmiSessionCurrent
  OBVIOUS
<1>1. CamInit => MmiSessionCurrent
  BY DEF CamInit, Init, MmiSessionCurrent, NULL
<1>2. LinkInv /\ MmiSessionCurrent /\ [CamNext]_allVars => MmiSessionCurrent'
  BY CurrentStep
<1> QED BY <1>1, <1>2, LinkInvInit, LinkInvStep, PTL DEF CamSpec

-----------------------------------------------------------------------------
(* The host speaks on sessions the module holds.                           *)

\* The SPDUs of SpeaksOnHeldSession, and those it depends on.
Spoken == {"PROFILE_ENQ", "APPINFO_ENQ", "CAINFO_ENQ", "MMI_CLOSE", "CLOSE_REQUEST"}
Heard  == Spoken \cup {"OPEN_OK", "CLOSE_RESPONSE"}

Speaks(j, h) == \E w \in Spoken : Queued(j, w, h)
Ends(j, h)   == Queued(j, "CLOSE_REQUEST", h) \/ Queued(j, "CLOSE_RESPONSE", h)
Grants(j, h) == Queued(j, "OPEN_OK", h)

\* When an SPDU on session h gets its turn, the module holds the session: what
\* grants it comes before, and after whatever ends it.
InTurn(h) ==
    \A j : Speaks(j, h) =>
        /\ held[h] = NULL => \E k : Grants(k, h) /\ k < j
        /\ \A i : Ends(i, h) /\ i < j => \E k : Grants(k, h) /\ i < k /\ k < j

HeldInTurn == \A h \in Handles : InTurn(h)

\* What speaks, ends and grants has its place in the queue.
LEMMA SpokenPlaces ==
    ASSUME CamInv
    PROVE  \A j, h : Speaks(j, h) \/ Ends(j, h) \/ Grants(j, h) => j \in Nat \ {0} /\ j < Len(sendq) + 1
BY Places DEF Speaks, Ends, Grants

LEMMA TurnStill ==
    ASSUME Still(Heard), NEW h, held'[h] = held[h], InTurn(h)
    PROVE  InTurn(h)'
<1>1. \A j : /\ Speaks(j, h)' <=> Speaks(j, h)
             /\ Ends(j, h)' <=> Ends(j, h)
             /\ Grants(j, h)' <=> Grants(j, h)
  BY DEF Still, Heard, Spoken, Speaks, Ends, Grants
<1> QED BY <1>1 DEF InTurn

\* The host speaks only on a session whose end is not under way.
LEMMA TurnQueues ==
    ASSUME CamInv, NEW s, Queues(Heard, s), NEW h, held'[h] = held[h], InTurn(h),
           s.sess = h /\ s.spdu \in Spoken => held[h] # NULL /\ \A j : ~Ends(j, h)
    PROVE  InTurn(h)'
<1>1. \A j : /\ Speaks(j, h)' <=> Speaks(j, h) \/ (j = Len(sendq) + 1 /\ s.sess = h /\ s.spdu \in Spoken)
             /\ Ends(j, h)' => Ends(j, h) \/ j = Len(sendq) + 1
             /\ Grants(j, h) => Grants(j, h)'
  BY DEF Queues, Heard, Spoken, Speaks, Ends, Grants
<1>2. ASSUME NEW j, Speaks(j, h)
      PROVE  /\ held'[h] = NULL => \E k : Grants(k, h)' /\ k < j
             /\ \A i : Ends(i, h)' /\ i < j => \E k : Grants(k, h)' /\ i < k /\ k < j
  <2>1. \A i : Ends(i, h)' /\ i < j => Ends(i, h)
    BY <1>1, <1>2, SpokenPlaces, Places
  <2> QED BY <1>1, <1>2, <2>1 DEF InTurn
<1>3. ASSUME NEW j, j = Len(sendq) + 1, s.sess = h, s.spdu \in Spoken
      PROVE  held'[h] # NULL /\ \A i : ~(Ends(i, h)' /\ i < j)
  BY <1>1, <1>3, Places
<1> QED BY <1>1, <1>2, <1>3 DEF InTurn

\* What Connect sends comes right behind the grant.
LEMMA TurnGreets ==
    ASSUME CamInv, NEW l \in Handles, NEW g \in {"PROFILE_ENQ", "APPINFO_ENQ", "CAINFO_ENQ"},
           Send2(SPDU("OPEN_OK", l), SPDU(g, l)), NEW h, held'[h] = held[h], InTurn(h)
    PROVE  InTurn(h)'
<1> DEFINE s == SPDU("OPEN_OK", l)
           u == SPDU(g, l)
           q == Enqueue(sendq, linkUp, s)
<1>1. s \in SPDUs /\ u \in SPDUs /\ s.spdu = "OPEN_OK" /\ u.spdu = g /\ u.sess = l /\ s.sess = l
  BY SPDUTypes DEF SPDU
<1>2. sendq \in Seq(SPDUs) /\ q \in Seq(SPDUs)
  BY <1>1, EnqueueAt DEF CamInv, CamTypeOK, TypeOK
<1>3. \/ sendq' = q
      \/ \A j, w, k : At(sendq', j, w, k) <=>
            At(q, j, w, k) \/ (j = Len(q) + 1 /\ w = g /\ k = l)
  BY <1>1, <1>2, EnqueueAt DEF Send2
<1>4. CASE q = sendq
  <2>1. sendq' = sendq
    BY <1>4, <1>2, AppendTo DEF Send2, Enqueue
  <2> QED BY <2>1, TurnStill DEF Still, Queued
<1>5. CASE q # sendq /\ sendq' = q
  <2>1. \A j, w, k : At(q, j, w, k) <=>
            At(sendq, j, w, k) \/ (j = Len(sendq) + 1 /\ w = s.spdu /\ k = s.sess)
    BY <1>1, <1>2, <1>5, EnqueueAt
  <2>2. Queues(Heard, s)
    BY <1>5, <2>1 DEF Queues, Queued
  <2> QED BY <2>2, <1>1, TurnQueues DEF Spoken
<1>6. CASE q # sendq /\ sendq' # q
  <2>1. q = Append(sendq, s) /\ Len(q) = Len(sendq) + 1
    BY <1>1, <1>2, <1>6, AppendTo DEF Enqueue
  <2>2. \A j, w, k : At(q, j, w, k) <=>
            At(sendq, j, w, k) \/ (j = Len(sendq) + 1 /\ w = "OPEN_OK" /\ k = l)
    BY <1>1, <1>2, <1>6, EnqueueAt
  <2>3. \A j, w, k : Queued(j, w, k)' <=>
            \/ Queued(j, w, k)
            \/ j = Len(sendq) + 1 /\ w = "OPEN_OK" /\ k = l
            \/ j = Len(sendq) + 1 + 1 /\ w = g /\ k = l
    BY <1>3, <1>6, <2>1, <2>2 DEF Queued
  <2>4. \A j : /\ Speaks(j, h)' <=> Speaks(j, h) \/ (j = Len(sendq) + 1 + 1 /\ h = l)
               /\ Ends(j, h)' <=> Ends(j, h)
               /\ Grants(j, h)' <=> Grants(j, h) \/ (j = Len(sendq) + 1 /\ h = l)
    BY <2>3 DEF Spoken, Speaks, Ends, Grants
  <2>5. \A j : Speaks(j, h) =>
            /\ held'[h] = NULL => \E k : Grants(k, h)' /\ k < j
            /\ \A i : Ends(i, h)' /\ i < j => \E k : Grants(k, h)' /\ i < k /\ k < j
    BY <2>4 DEF InTurn
  <2>6. ASSUME NEW j, j = Len(sendq) + 1 + 1, h = l
        PROVE  /\ \E k : Grants(k, h)' /\ k < j
               /\ \A i : Ends(i, h)' => \E k : Grants(k, h)' /\ i < k /\ k < j
    <3>1. \E k : Grants(k, h)' /\ k = Len(sendq) + 1
      BY <2>4, <2>6
    <3>2. \A i : Ends(i, h)' => i < Len(sendq) + 1
      BY <2>4, SpokenPlaces
    <3> QED BY <3>1, <3>2, <2>6, Places
  <2> QED BY <2>4, <2>5, <2>6 DEF InTurn
<1> QED BY <1>3, <1>4, <1>5, <1>6

\* The module takes the oldest SPDU, and holds the session it grants and no
\* longer the one it ends.
LEMMA TurnUnqueues ==
    ASSUME CamInv, Unqueues, NEW h, InTurn(h),
           Grants(1, h) => held'[h] # NULL,
           ~Grants(1, h) /\ ~Ends(1, h) => held'[h] = held[h]
    PROVE  InTurn(h)'
<1>1. \A j : /\ Speaks(j, h)' <=> j \in Nat \ {0} /\ Speaks(j + 1, h)
             /\ Ends(j, h)' <=> j \in Nat \ {0} /\ Ends(j + 1, h)
             /\ Grants(j, h)' <=> j \in Nat \ {0} /\ Grants(j + 1, h)
             /\ Grants(j, h) => j = 1 \/ Grants(j - 1, h)'
             /\ Grants(j, h) => j \in Nat \ {0}
             /\ ~(Grants(j, h) /\ Ends(j, h))
  BY UnqueuesParts, Places DEF Speaks, Ends, Grants
<1>2. ASSUME NEW j, Speaks(j, h)', held'[h] = NULL PROVE \E k : Grants(k, h)' /\ k < j
  <2>1. j \in Nat \ {0} /\ Speaks(j + 1, h) /\ ~Grants(1, h)
    BY <1>1, <1>2
  <2>2. PICK k : Grants(k, h) /\ k < j + 1 /\ k # 1
    <3>1. CASE Ends(1, h)
      BY <2>1, <3>1 DEF InTurn
    <3>2. CASE ~Ends(1, h)
      BY <1>2, <2>1, <3>2 DEF InTurn
    <3> QED BY <3>1, <3>2
  <2>3. Grants(k - 1, h)' /\ k - 1 < j
    BY <1>1, <2>1, <2>2
  <2> QED BY <2>3
<1>3. ASSUME NEW j, Speaks(j, h)', NEW i, Ends(i, h)', i < j
      PROVE  \E k : Grants(k, h)' /\ i < k /\ k < j
  <2>1. /\ i \in Nat \ {0} /\ j \in Nat \ {0}
        /\ Speaks(j + 1, h) /\ Ends(i + 1, h) /\ i + 1 < j + 1
    BY <1>1, <1>3
  <2>2. PICK k : Grants(k, h) /\ i + 1 < k /\ k < j + 1
    BY <2>1 DEF InTurn
  <2>3. k \in Nat /\ k # 1
    BY <1>1, <2>1, <2>2
  <2>4. Grants(k - 1, h)'
    BY <1>1, <2>2, <2>3
  <2>5. i < k - 1 /\ k - 1 < j
    BY <2>1, <2>2, <2>3
  <2> QED BY <2>4, <2>5
<1> QED BY <1>2, <1>3 DEF InTurn

\* The module acts on the oldest SPDU.
LEMMA TurnDeliver ==
    ASSUME CamInv, HostTold, Deliver, NEW h \in Handles, InTurn(h)
    PROVE  InTurn(h)'
<1> DEFINE s == Head(sendq)
<1>1. Unqueues /\ s.sess \in Handles /\ Queued(1, s.spdu, s.sess)
  BY TransmitTakes DEF Deliver
<1>h. held \in [Handles -> CamRequests \cup {NULL}]
  BY DEF CamInv, CamTypeOK
<1>2. Grants(1, h) => s.spdu = "OPEN_OK" /\ s.sess = h /\ pending # NULL
  BY <1>1, Oldest DEF Grants, HostTold
<1>3. ~Grants(1, h) /\ ~Ends(1, h) =>
        s.sess # h \/ s.spdu \notin {"OPEN_OK", "CLOSE_REQUEST", "CLOSE_RESPONSE"}
  BY <1>1 DEF Grants, Ends
<1>4. CASE s.spdu = "OPEN_OK" /\ CamGetsAccept(s.sess)
  BY <1>1, <1>2, <1>3, <1>4, <1>h, TurnUnqueues DEF CamGetsAccept
<1>5. CASE s.spdu = "OPEN_F0" /\ CamGetsRefusal
  BY <1>1, <1>2, <1>5, TurnUnqueues DEF CamGetsRefusal
<1>6. CASE s.spdu = "CLOSE_RESPONSE" /\ CamGetsCloseResponse(s.sess)
  BY <1>1, <1>2, <1>3, <1>6, <1>h, TurnUnqueues DEF CamGetsCloseResponse
<1>7. CASE s.spdu = "CLOSE_REQUEST" /\ CamGetsCloseRequest(s.sess)
  BY <1>1, <1>2, <1>3, <1>7, <1>h, TurnUnqueues DEF CamGetsCloseRequest
<1>8. CASE s.spdu \notin Words /\ UNCHANGED camVars
  BY <1>1, <1>2, <1>8, TurnUnqueues DEF camVars, Words
<1> QED BY <1>4, <1>5, <1>6, <1>7, <1>8 DEF Deliver, Words

\* An answer of the host that says nothing itself.
LEMMA TurnSends ==
    ASSUME CamInv, NEW w, NEW l \in Handles, SPDU(w, l) \in SPDUs, Send1(SPDU(w, l)),
           NEW h, held'[h] = held[h], InTurn(h),
           l = h /\ w \in Spoken => held[h] # NULL /\ \A j : ~Ends(j, h)
    PROVE  InTurn(h)'
<1>1. Still(Heard) \/ Queues(Heard, SPDU(w, l))
  BY SendOne
<1>2. SPDU(w, l).sess = l /\ SPDU(w, l).spdu = w
  BY DEF SPDU
<1> QED BY <1>1, <1>2, TurnStill, TurnQueues

\* The host parses what the module says: it speaks on a session of the module
\* that nobody has ended, or on one it grants at the same time.
LEMMA TurnParses ==
    ASSUME PatientMmi, CamInv, Inv, Known, HostParses, NEW h \in Handles, InTurn(h)
    PROVE  InTurn(h)'
<1> DEFINE m == Head(toHost)
<1>p. ASSUME NEW w, Parse(w)
      PROVE  /\ m.sess \in Handles /\ Sent(1, w, m.sess) /\ toHost # <<>>
             /\ held'[h] = held[h]
  BY <1>p, ParseHears DEF Parse
<1>s. ASSUME sendq' = sendq PROVE Still(Heard)
  BY <1>s DEF Still, Queued
<1>1. CASE Parse("OPEN_REQUEST") /\ (OpenNoHandle \/ OpenUnknown(m.res))
  <2>1. PICK l \in Handles : Send1(SPDU("OPEN_F0", l))
    BY <1>1, HandlesFacts DEF OpenNoHandle, OpenUnknown
  <2>2. SPDU("OPEN_F0", l) \in SPDUs
    BY SPDUTypes
  <2> QED BY <1>1, <1>p, <2>1, <2>2, TurnSends DEF Spoken
<1>2. CASE Parse("OPEN_REQUEST") /\ OpenRefused(m.res)
  BY <1>2, <1>p, NeverRefused
<1>3. CASE Parse("OPEN_REQUEST") /\ OpenAccepted(m.res)
  <2>1. PICK l \in Handles :
            IF Greeting(m.res) = "" THEN Send1(SPDU("OPEN_OK", l))
            ELSE Send2(SPDU("OPEN_OK", l), SPDU(Greeting(m.res), l))
    BY <1>3 DEF OpenAccepted
  <2>2. m.res \in Resources
    BY <1>3 DEF OpenAccepted
  <2>3. CASE Greeting(m.res) = ""
    <3>1. SPDU("OPEN_OK", l) \in SPDUs /\ Send1(SPDU("OPEN_OK", l))
      BY <2>1, <2>3, SPDUTypes
    <3>2. held'[h] = held[h]
      BY <1>3, <1>p
    <3> QED BY <3>1, <3>2, TurnSends DEF Spoken
  <2>4. CASE Greeting(m.res) # ""
    <3>1. Greeting(m.res) \in {"PROFILE_ENQ", "APPINFO_ENQ", "CAINFO_ENQ"}
      BY <2>2, <2>4, GreetingType
    <3> QED BY <1>3, <1>p, <2>1, <2>4, <3>1, TurnGreets
  <2> QED BY <2>3, <2>4
<1>4. CASE Parse("CLOSE_REQUEST") /\ CloseRequest(m.sess)
  <2>1. SPDU("CLOSE_RESPONSE", m.sess) \in SPDUs
    BY <1>4, <1>p, SPDUTypes
  <2> QED BY <1>4, <1>p, <2>1, TurnSends DEF CloseRequest, Spoken
<1>5. CASE Parse("CLOSE_RESPONSE") /\ CloseResponse(m.sess)
  BY <1>5, <1>p, <1>s, TurnStill DEF CloseResponse
<1>6. CASE Parse("CLOSEMMI") /\ DataCloseMmi(m.sess)
  <2>1. m.sess \in Handles /\ SPDU("CLOSE_REQUEST", m.sess) \in SPDUs
    BY <1>6, <1>p, SPDUTypes
  <2>2. Leaves(1, m.sess)
    BY <1>6, <1>p DEF Leaves
  <2>3. held[m.sess] = "MMI"
    BY <1>6, <2>1, <2>2 DEF Known, ModuleTold, DataCloseMmi, Data
  <2>4. \A j : ~Ends(j, m.sess)
    BY <1>6, <1>p, LastWord DEF Known, Control, Ends
  <2> QED BY <1>6, <1>p, <2>1, <2>3, <2>4, TurnSends DEF DataCloseMmi, NULL
<1>7. CASE Parse("MENU") /\ DataMenu(m.sess)
  <2>1. m.sess \in Handles /\ Says(1, m.sess) /\ About(1, m.sess)
    BY <1>7, <1>p DEF Says, About
  <2>2. /\ held[m.sess] = "MMI" /\ pResource[m.sess] = "MMI"
        /\ \A j : ~Ends(j, m.sess)
    BY <1>7, <2>1 DEF Known, ModuleTold, DataMenu, Data, Control, Ends
  <2>3. current["MMI"] = m.sess
    BY <2>1, <2>2 DEF Known, Follows, FieldOfDialogue, Live
  <2>4. SPDU("MMI_CLOSE", m.sess) \in SPDUs
    BY <2>1, SPDUTypes
  <2> QED BY <1>7, <1>p, <2>1, <2>2, <2>3, <2>4, TurnSends DEF DataMenu, NULL
<1>8. CASE Parse("CA_INFO") /\ DataCaInfo(m.sess)
  BY <1>8, <1>p, <1>s, TurnStill DEF DataCaInfo
<1>9. ASSUME NEW w, Parse(w), DataRejected(m.sess) PROVE InTurn(h)'
  BY <1>9, <1>p, <1>s, TurnStill DEF DataRejected, vars
<1> QED BY <1>1, <1>2, <1>3, <1>4, <1>5, <1>6, <1>7, <1>8, <1>9 DEF HostParses, Opened

\* The sender threads queue CA_PMTs and nothing else.
LEMMA TurnHostSends ==
    ASSUME CamInv, HostSends, NEW h, InTurn(h)
    PROVE  InTurn(h)'
<1> PICK t \in Senders : Sender(t) /\ UNCHANGED camVars
  BY DEF HostSends
<1>h. held'[h] = held[h]
  BY DEF camVars
<1>1. CASE SendPMT(t)
  <2>1. sess[t] \in Handles /\ modes[t] \in Seq(Modes) /\ modes[t] # <<>>
    BY <1>1 DEF SendPMT, CamInv, CamTypeOK, TypeOK
  <2>2. Head(modes[t]) \in Modes
    BY <2>1, HeadTail
  <2>3. CaPmt(sess[t], Head(modes[t])) \in SPDUs
    BY <2>1, <2>2, SPDUTypes
  <2>4. CaPmt(sess[t], Head(modes[t])).spdu \notin Heard
    BY DEF CaPmt, Heard, Spoken
  <2>5. Still(Heard)
    BY <1>1, <2>3, <2>4, SendOne DEF SendPMT
  <2> QED BY <1>h, <2>5, TurnStill
<1>2. CASE Start(t) \/ Overflow(t) \/ Check(t) \/ Lookup(t) \/ ClearFlag(t)
  <2>1. sendq' = sendq
    BY <1>2 DEF Start, Overflow, Check, Lookup, ClearFlag
  <2>2. Still(Heard)
    BY <2>1 DEF Still, Queued
  <2> QED BY <1>h, <2>2, TurnStill
<1> QED BY <1>1, <1>2 DEF Sender

AllInTurn == slot # "EMPTY" => HeldInTurn

LEMMA TurnStep ==
    PatientMmi /\ LinkInv /\ AllInTurn /\ [CamNext]_allVars => AllInTurn'
<1> SUFFICES ASSUME PatientMmi, LinkInv, AllInTurn, [CamNext]_allVars, slot' # "EMPTY",
                    NEW h \in Handles
             PROVE  InTurn(h)'
  BY DEF AllInTurn, HeldInTurn
<1>l. CamInv /\ Inv /\ (slot # "EMPTY" => Known /\ InTurn(h))
  BY DEF LinkInv, Linked, AllInTurn, HeldInTurn
<1>s. ASSUME sendq' = sendq, held' = held, slot # "EMPTY" PROVE InTurn(h)'
  <2>1. Still(Heard)
    BY <1>s DEF Still, Queued
  <2> QED BY <1>l, <1>s, <2>1, TurnStill
<1>1. CASE Cam
  <2>1. slot # "EMPTY" /\ sendq' = sendq /\ held' = held
    BY <1>1 DEF Cam, CamOpen, CamClose, CamCloseMmi, CamData, Say, vars
  <2> QED BY <1>s, <2>1
<1>2. CASE HostParses
  <2>1. slot # "EMPTY"
    BY <1>2 DEF HostParses, Opened, OpenNoHandle, OpenUnknown, OpenRefused, OpenAccepted, CloseRequest,
                CloseResponse, DataCloseMmi, DataMenu, DataCaInfo, DataRejected, Data
  <2> QED BY <1>2, <1>l, <2>1, TurnParses
<1>3. CASE Deliver
  <2>1. slot # "EMPTY"
    BY <1>3 DEF Deliver, Transmit
  <2> QED BY <1>3, <1>l, <2>1, TurnDeliver DEF Known
<1>4. CASE ModuleInserted /\ CamFresh
  <2>1. sendq' = <<>>
    BY <1>4 DEF ModuleInserted, Zeroed
  <2>2. \A j : ~Speaks(j, h)'
    BY <2>1 DEF Speaks, Queued, At
  <2> QED BY <2>2 DEF InTurn
<1>5. CASE (ConfigDone \/ ConfigFailed) /\ UNCHANGED camVars
  BY <1>s, <1>5 DEF ConfigDone, ConfigFailed, camVars
<1>6. CASE ModuleRemoved \/ ResetCAM
  BY <1>6 DEF ModuleRemoved, ResetCAM
<1>7. CASE HostSends
  BY <1>7, <1>l, SendersQuiet, TurnHostSends
<1>8. CASE UNCHANGED allVars
  BY <1>s, <1>8 DEF allVars, vars, camVars
<1> QED BY <1>1, <1>2, <1>3, <1>4, <1>5, <1>6, <1>7, <1>8 DEF CamNext, HostSlot

\* The oldest SPDU speaks on a session the module holds: nothing that grants it
\* is still to come.
LEMMA SpeaksInTurn ==
    LinkInv /\ AllInTurn =>
        (Deliver /\ Head(sendq).spdu \in Spoken => held[Head(sendq).sess] # NULL)
<1> SUFFICES ASSUME LinkInv, AllInTurn, Deliver, Head(sendq).spdu \in Spoken,
                    held[Head(sendq).sess] = NULL
             PROVE  FALSE
  OBVIOUS
<1> DEFINE h == Head(sendq).sess
<1>1. h \in Handles /\ Speaks(1, h)
  BY TransmitTakes DEF LinkInv, Deliver, Speaks
<1>2. slot # "EMPTY"
  BY DEF Deliver, Transmit
<1>3. PICK k : Grants(k, h) /\ k < 1
  BY <1>1, <1>2 DEF AllInTurn, HeldInTurn, InTurn
<1>4. k \in Nat \ {0}
  BY <1>3, SpokenPlaces DEF LinkInv
<1> QED BY <1>3, <1>4

\* With a module that opens no dialogue before the old one is closed, whatever
\* the host says on a session finds the module holding it, even when answers
\* are lost in a full queue.
THEOREM SpeaksOnHeldHolds == PatientMmi => (CamSpec => SpeaksOnHeldSession)
<1> SUFFICES ASSUME PatientMmi PROVE CamSpec => SpeaksOnHeldSession
  OBVIOUS
<1>1. CamInit => AllInTurn
  BY DEF CamInit, Init, AllInTurn
<1>2. LinkInv /\ AllInTurn /\ [CamNext]_allVars => AllInTurn'
  BY TurnStep
<1>3. LinkInv /\ AllInTurn /\ [CamNext]_allVars =>
        [Deliver /\ Head(sendq).spdu \in {"PROFILE_ENQ", "APPINFO_ENQ", "CAINFO_ENQ", "MMI_CLOSE", "CLOSE_REQUEST"}
            => held[Head(sendq).sess] # NULL]_allVars
  BY SpeaksInTurn DEF Spoken
<1> QED BY <1>1, <1>2, <1>3, LinkInvInit, LinkInvStep, PTL DEF CamSpec, SpeaksOnHeldSession

=============================================================================
