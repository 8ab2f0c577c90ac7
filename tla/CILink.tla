-------------------------------- MODULE CILink --------------------------------
(***************************************************************************)
(* The transport layer of one Common Interface slot: SendTransportPacket   *)
(* and CI_WriteData fill the send queue under g_ci_mutex from any thread;  *)
(* CI_CheckSlot, in the monitoring thread, reads what the module has to    *)
(* say and writes the head of the queue, and polls when there is nothing   *)
(* to write.  The module is external: it answers every complete message,   *)
(* with its data when it is asked for it, and says in each answer whether  *)
(* it has more (T_SB).                                                     *)
(***************************************************************************)
EXTENDS Naturals, Sequences, SequencesExt

CONSTANTS
    CI_T_SENDQSIZE,     \* packets the send queue holds
    FRAGMENTS,          \* packets a message of a sender, or of the module, needs
    MODULE_BUFFER,      \* packets the module takes before it is no longer free
    Senders,            \* threads that send CA_PMTs
    Monitoring,         \* WVCI_TaskMonitoring
    NONE,               \* no thread
    MAX_RESTARTS        \* BOUND: how often the module is lost and started again

ASSUME LinkAssumption ==
    /\ {CI_T_SENDQSIZE, FRAGMENTS, MODULE_BUFFER} \subseteq Nat \ {0}
    /\ Monitoring \notin Senders
    /\ NONE \notin Senders \cup {Monitoring}
    /\ MAX_RESTARTS \in Nat

VARIABLES
    link,           \* see Links
    sendq,          \* CI_T_SENDQ
    fRXPending,     \* a packet with the "more" bit was the last one read
    fGotPollAck,    \* a T_SB came since the last write or poll
    lock,           \* the holder of g_ci_mutex
    at,             \* where CI_CheckSlot is
    todo,           \* the messages each thread has still to send
    sending,        \* where each thread is in SendTransportPacket
    part,           \* the packet of its message a thread writes next
    toModule,       \* packets written, not taken by the module
    toHost,         \* packets of the module, not read
    created,        \* the module has seen T_CREATE
    begun,          \* the packets of a message the module has not got whole
    pending,        \* the module has data for the host
    broken,         \* history: the queue lost the end of a message it had begun
    crashed,        \* SendTransportPacket copied (size_t)-2 bytes
    restarts

hostVars   == <<link, sendq, fRXPending, fGotPollAck, lock, at, todo, sending, part>>
moduleVars == <<toModule, toHost, created, begun, pending>>
history    == <<broken, crashed, restarts>>
vars       == <<hostVars, moduleVars, history>>

Threads == Senders \cup {Monitoring}

\* wBufferSize is 0 after the memset ("down"), is agreed in CI_CheckConfig
\* ("sized") and stays when STATUS_ResetCAM leaves the slot ("left").
Links == {"down", "sized", "up", "left"}
Sized == link # "down"

Kinds == {"create", "data", "poll", "rcv"}

\* What the monitoring thread sends fits one packet.
Packets(t) == IF t \in Senders THEN FRAGMENTS ELSE 1

Packet(t, kind, n) ==
    [from |-> t, kind |-> kind, part |-> n, last |-> n = Packets(t)]

HostPackets ==
    {p \in [from : Threads, kind : Kinds, part : 1 .. FRAGMENTS, last : BOOLEAN] :
        p.part <= Packets(p.from) /\ p = Packet(p.from, p.kind, p.part)}

\* The T_SB at the end of an answer: no more data, or more.
ModulePackets == [last : BOOLEAN, data : BOOLEAN, sb : {"none", "empty", "more"}]

-----------------------------------------------------------------------------
(* SendTransportPacket.                                                    *)

\* wBufferSize is tested before the mutex is taken.
Gate(t) ==
    /\ sending[t] = "idle" /\ todo[t] # <<>>
    /\ IF Sized THEN sending' = [sending EXCEPT ![t] = "wait"] /\ UNCHANGED todo
       ELSE todo' = [todo EXCEPT ![t] = Tail(@)] /\ UNCHANGED sending
    /\ UNCHANGED <<link, sendq, fRXPending, fGotPollAck, lock, at, part, moduleVars, history>>

\* Mutant of Acquire: a build without ENABLE_CI_SEMPHORE.
AcquireAtOnce(t) ==
    /\ sending[t] = "wait"
    /\ sending' = [sending EXCEPT ![t] = "write"]
    /\ UNCHANGED <<link, sendq, fRXPending, fGotPollAck, lock, at, todo, part, moduleVars, history>>

Acquire(t) ==
    /\ sending[t] = "wait"
    /\ lock = NONE
    /\ lock' = t
    /\ sending' = [sending EXCEPT ![t] = "write"]
    /\ UNCHANGED <<link, sendq, fRXPending, fGotPollAck, at, todo, part, moduleVars, history>>

\* Mutant of Put: CI_WriteData without its search for a free entry.
PutUnbounded(p) == Append(sendq, p)

\* CI_WriteData drops what finds no free entry.
Put(p) == IF Len(sendq) < CI_T_SENDQSIZE THEN Append(sendq, p) ELSE sendq

\* The queue keeps the beginning of a message whose packet p it drops.
Cuts(p) == Put(p) = sendq /\ p.part > 1 /\ sendq # <<>> /\ Last(sendq).from = p.from
            /\ ~Last(sendq).last

Write(t) ==
    /\ sending[t] = "write" /\ Sized
    /\ LET p == Packet(t, Head(todo[t]), part[t]) IN
        /\ sendq' = Put(p)
        /\ broken' = (broken \/ Cuts(p))
        /\ IF p.last
           THEN /\ part' = [part EXCEPT ![t] = 1]
                /\ todo' = [todo EXCEPT ![t] = Tail(@)]
                /\ sending' = [sending EXCEPT ![t] = "idle"]
                /\ lock' = NONE
           ELSE /\ part' = [part EXCEPT ![t] = @ + 1]
                /\ UNCHANGED <<todo, sending, lock>>
    /\ UNCHANGED <<link, fRXPending, fGotPollAck, at, moduleVars, crashed, restarts>>

\* The structure was cleared after the test: wBufferSize - 2 is negative.
Crash(t) ==
    /\ sending[t] = "write" /\ ~Sized
    /\ crashed' = TRUE
    /\ UNCHANGED <<hostVars, moduleVars, broken, restarts>>

\* WVCI_UpdateSetting has a CA_PMT for the module.
NewMessage(t) ==
    /\ t \in Senders
    /\ todo[t] = <<>> /\ link = "up" /\ created
    /\ todo' = [todo EXCEPT ![t] = <<"data">>]
    /\ UNCHANGED <<link, sendq, fRXPending, fGotPollAck, lock, at, sending, part, moduleVars, history>>

-----------------------------------------------------------------------------
(* CI_CheckSlot.                                                           *)

\* The monitoring thread is not inside SendTransportPacket.
Free == todo[Monitoring] = <<>>

Round == link = "up" /\ at = "check" /\ Free

ReadMore ==
    /\ Round
    /\ toHost # <<>> /\ ~Head(toHost).last
    /\ fRXPending' = TRUE
    /\ toHost' = Tail(toHost)
    /\ UNCHANGED <<link, sendq, fGotPollAck, lock, at, todo, sending, part,
                   toModule, created, begun, pending, history>>

\* Mutant of Read: the T_SB is not taken as the answer to a poll.
ReadNoAck ==
    /\ Round
    /\ toHost # <<>> /\ Head(toHost).last
    /\ fRXPending' = FALSE
    /\ \E reply \in (IF Head(toHost).data THEN {<<>>, <<"data">>} ELSE {<<>>}) :
        todo' = [todo EXCEPT ![Monitoring] =
                    reply \o (IF Head(toHost).sb = "more" THEN <<"rcv">> ELSE <<>>)]
    /\ toHost' = Tail(toHost)
    /\ UNCHANGED <<link, sendq, fGotPollAck, lock, at, sending, part,
                   toModule, created, begun, pending, history>>

\* Mutant of Read: "data ready" in a T_SB is not answered with T_RCV.
ReadNoRcv ==
    /\ Round
    /\ toHost # <<>> /\ Head(toHost).last
    /\ fRXPending' = FALSE
    /\ fGotPollAck' = TRUE
    /\ toHost' = Tail(toHost)
    /\ UNCHANGED <<link, sendq, lock, at, todo, sending, part,
                   toModule, created, begun, pending, history>>

\* Parse_TPDU: the session layer may answer the data, then the T_SB counts.
Read ==
    /\ Round
    /\ toHost # <<>> /\ Head(toHost).last
    /\ fRXPending' = FALSE
    /\ fGotPollAck' = TRUE
    /\ \E reply \in (IF Head(toHost).data THEN {<<>>, <<"data">>} ELSE {<<>>}) :
        todo' = [todo EXCEPT ![Monitoring] =
                    reply \o (IF Head(toHost).sb = "more" THEN <<"rcv">> ELSE <<>>)]
    /\ toHost' = Tail(toHost)
    /\ UNCHANGED <<link, sendq, lock, at, sending, part,
                   toModule, created, begun, pending, history>>

TakeLock ==
    /\ Round
    /\ toHost = <<>> /\ ~fRXPending
    /\ lock = NONE
    /\ lock' = Monitoring
    /\ at' = "locked"
    /\ UNCHANGED <<link, sendq, fRXPending, fGotPollAck, todo, sending, part, moduleVars, history>>

\* Mutant of Defer: this early return keeps the mutex.
DeferLocked ==
    /\ at = "locked"
    /\ toHost # <<>>
    /\ at' = "check"
    /\ UNCHANGED <<link, sendq, fRXPending, fGotPollAck, lock, todo, sending, part, moduleVars, history>>

\* The module has become ready meanwhile: reading goes first.
Defer ==
    /\ at = "locked"
    /\ toHost # <<>>
    /\ at' = "check" /\ lock' = NONE
    /\ UNCHANGED <<link, sendq, fRXPending, fGotPollAck, todo, sending, part, moduleVars, history>>

WriteOut ==
    /\ at = "locked"
    /\ toHost = <<>> /\ sendq # <<>>
    /\ Len(toModule) < MODULE_BUFFER
    /\ toModule' = Append(toModule, Head(sendq))
    /\ sendq' = Tail(sendq)
    /\ fGotPollAck' = FALSE
    /\ at' = "check" /\ lock' = NONE
    /\ UNCHANGED <<link, fRXPending, todo, sending, part, toHost, created, begun, pending, history>>

\* CI_ReallyWriteData gave up: STATUS_ResetCAM.
WriteFails ==
    /\ at = "locked"
    /\ toHost = <<>> /\ sendq # <<>>
    /\ restarts < MAX_RESTARTS /\ restarts' = restarts + 1
    /\ link' = "left"
    /\ at' = "check" /\ lock' = NONE
    /\ UNCHANGED <<sendq, fRXPending, fGotPollAck, todo, sending, part, moduleVars, broken, crashed>>

NothingToWrite ==
    /\ at = "locked"
    /\ toHost = <<>> /\ sendq = <<>>
    /\ at' = "poll" /\ lock' = NONE
    /\ UNCHANGED <<link, sendq, fRXPending, fGotPollAck, todo, sending, part, moduleVars, history>>

\* Without the mutex: a sender may have queued something meanwhile.
Poll ==
    /\ at = "poll"
    /\ at' = "check"
    /\ IF sendq = <<>> /\ fGotPollAck
       THEN /\ todo' = [todo EXCEPT ![Monitoring] = <<"poll">>]
            /\ fGotPollAck' = FALSE
       ELSE UNCHANGED <<todo, fGotPollAck>>
    /\ UNCHANGED <<link, sendq, fRXPending, lock, sending, part, moduleVars, history>>

-----------------------------------------------------------------------------
(* The module is lost and started again, in the monitoring thread.         *)

\* CI_ModuleRemoved or CI_ModuleInserted: the memset takes no mutex.
Clear ==
    /\ at = "check" /\ Free
    /\ \/ link = "left" /\ UNCHANGED restarts
       \/ link = "up" /\ restarts < MAX_RESTARTS /\ restarts' = restarts + 1
    /\ link' = "down"
    /\ sendq' = <<>>
    /\ fRXPending' = FALSE
    /\ fGotPollAck' = FALSE
    /\ UNCHANGED <<lock, at, todo, sending, part, moduleVars, broken, crashed>>

\* CI_CheckConfig with a module that has just been reset.
Configure ==
    /\ link = "down"
    /\ link' = "sized"
    /\ todo' = [todo EXCEPT ![Monitoring] = <<"create">>]
    /\ toModule' = <<>> /\ toHost' = <<>> /\ begun' = <<>>
    /\ created' = FALSE /\ pending' = FALSE
    /\ broken' = \E t \in Threads : part[t] > 1
    /\ UNCHANGED <<sendq, fRXPending, fGotPollAck, lock, at, sending, part, crashed, restarts>>

Started ==
    /\ link = "sized" /\ Free
    /\ link' = "up"
    /\ UNCHANGED <<sendq, fRXPending, fGotPollAck, lock, at, todo, sending, part, moduleVars, history>>

-----------------------------------------------------------------------------
(* The module.                                                             *)

\* A first packet ends whatever was begun.
ModuleTakesPart ==
    /\ toModule # <<>> /\ ~Head(toModule).last
    /\ begun' = IF Head(toModule).part = 1 THEN <<Head(toModule)>>
                ELSE Append(begun, Head(toModule))
    /\ toModule' = Tail(toModule)
    /\ UNCHANGED <<hostVars, toHost, created, pending, history>>

Sb(more) == IF more THEN "more" ELSE "empty"

\* T_RCV is answered with the data, everything else with the T_SB alone; before
\* T_CREATE there is no one to answer.
Answer(kind) ==
    IF kind # "create" /\ ~created THEN <<>>
    ELSE IF kind = "rcv" /\ pending
    THEN [i \in 1 .. FRAGMENTS |->
            [last |-> i = FRAGMENTS, data |-> TRUE,
             sb |-> IF i = FRAGMENTS THEN "empty" ELSE "none"]]
    ELSE <<[last |-> TRUE, data |-> FALSE, sb |-> Sb(pending)]>>

\* One answer is in the module's buffer at a time.
ModuleTakes ==
    /\ toModule # <<>> /\ Head(toModule).last
    /\ toHost = <<>>
    /\ LET kind == Head(toModule).kind IN
        /\ toHost' = Answer(kind)
        /\ created' = (created \/ kind = "create")
        /\ pending' = (pending /\ ~(created /\ kind = "rcv"))
    /\ begun' = <<>>
    /\ toModule' = Tail(toModule)
    /\ UNCHANGED <<hostVars, history>>

ModuleHasData ==
    /\ created /\ ~pending
    /\ pending' = TRUE
    /\ UNCHANGED <<hostVars, toModule, toHost, created, begun, history>>

-----------------------------------------------------------------------------
Init ==
    /\ link = "down"
    /\ sendq = <<>>
    /\ fRXPending = FALSE /\ fGotPollAck = FALSE
    /\ lock = NONE
    /\ at = "check"
    /\ todo = [t \in Threads |-> <<>>]
    /\ sending = [t \in Threads |-> "idle"]
    /\ part = [t \in Threads |-> 1]
    /\ toModule = <<>> /\ toHost = <<>> /\ begun = <<>>
    /\ created = FALSE /\ pending = FALSE
    /\ broken = FALSE /\ crashed = FALSE
    /\ restarts = 0

\* Nothing runs after the crash.
Step(A) == ~crashed /\ A

Transport(t) == Step(Gate(t)) \/ Step(Acquire(t)) \/ Step(Write(t)) \/ Step(Crash(t))

CheckSlot ==
    \/ Step(ReadMore) \/ Step(Read) \/ Step(TakeLock) \/ Step(Defer)
    \/ Step(WriteOut) \/ Step(WriteFails) \/ Step(NothingToWrite) \/ Step(Poll)

Restart == Step(Clear) \/ Step(Configure) \/ Step(Started)

Module == Step(ModuleTakesPart) \/ Step(ModuleTakes) \/ Step(ModuleHasData)

Next ==
    \/ \E t \in Threads : Transport(t) \/ Step(NewMessage(t))
    \/ CheckSlot
    \/ Restart
    \/ Module

Spec == Init /\ [][Next]_vars

\* Threads run, and one that waits for the mutex gets it in the end: the others
\* release it within a round, and the monitoring thread sleeps between rounds.
FairSpec ==
    /\ Spec
    /\ \A t \in Threads :
        /\ WF_vars(Step(Gate(t) \/ Write(t)))
        /\ SF_vars(Step(Acquire(t)))
    /\ WF_vars(Step(ReadMore \/ Read)) /\ SF_vars(Step(TakeLock))
    /\ WF_vars(Step(Defer \/ WriteOut \/ NothingToWrite \/ Poll))
    /\ WF_vars(Step(Configure \/ Started))
    /\ WF_vars(Step(ModuleTakesPart \/ ModuleTakes))

-----------------------------------------------------------------------------
TypeOK ==
    /\ link \in Links
    /\ sendq \in Seq(HostPackets) /\ Len(sendq) <= CI_T_SENDQSIZE
    /\ {fRXPending, fGotPollAck, created, pending, broken, crashed} \subseteq BOOLEAN
    /\ lock \in Threads \cup {NONE}
    /\ at \in {"check", "locked", "poll"}
    /\ todo \in [Threads -> Seq(Kinds)]
    /\ sending \in [Threads -> {"idle", "wait", "write"}]
    /\ part \in [Threads -> 1 .. FRAGMENTS]
    /\ toModule \in Seq(HostPackets) /\ Len(toModule) <= MODULE_BUFFER
    /\ toHost \in Seq(ModulePackets)
    /\ begun \in Seq(HostPackets)
    /\ restarts \in 0 .. MAX_RESTARTS

\* The packets written and not yet put together, the oldest first.
Stream == begun \o toModule \o sendq

\* After the end of a message comes the first packet of one, after any other
\* packet the next one of the same message.
WellFormed(stream) ==
    \A i \in 1 .. Len(stream) :
        IF i = 1 \/ stream[i - 1].last
        THEN stream[i].part = 1
        ELSE LET p == stream[i - 1] IN stream[i] = Packet(p.from, p.kind, p.part + 1)

\* What the module is sent is whole messages, one after the other, whichever
\* threads send at once (SendTransportPacket, ci.c:176-212, and CI_CheckSlot,
\* ci_l2.c:310-356).  Only a full queue that drops the end of a message, or the
\* memset between two packets, can break that (see broken).
WholeMessages ==
    ~broken => WellFormed(Stream)

\* The host and the module never both wait for the other: without a T_SB to
\* poll on, something is queued, written or under way (fGotPollAck is the
\* host's only right to poll, ci_l2.c:364).
SomeoneMoves ==
    link = "up" /\ ~broken =>
        \/ fGotPollAck
        \/ sendq # <<>> \/ toModule # <<>> \/ toHost # <<>>
        \/ todo[Monitoring] # <<>>

\* A module that has data is asked for it, if the link lasts and the queue has
\* room for the T_RCV.
ModuleIsHeard ==
    pending ~> \/ ~pending \/ link # "up"
               \/ broken \/ crashed \/ Len(sendq) = CI_T_SENDQSIZE

\* SendTransportPacket comes back to its caller: no early return of
\* CI_CheckSlot keeps the mutex.
SendReturns ==
    \A t \in Senders : todo[t] # <<>> ~> todo[t] = <<>> \/ crashed

=============================================================================
