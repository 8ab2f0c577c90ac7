---------------------------- MODULE CILink_proofs ----------------------------
(***************************************************************************)
(* Machine-checked facts about CILink, for every length of the queue, size *)
(* of a message, buffer of the module, set of senders and number of        *)
(* restarts.                                                               *)
(***************************************************************************)
EXTENDS CILink, SequenceTheorems, FiniteSetTheorems, TLAPS

-----------------------------------------------------------------------------
(* The strengthening.                                                      *)

(* g_ci_mutex is held by whoever touches the queue, and by nobody else: a  *)
(* thread inside the loop of SendTransportPacket, or CI_CheckSlot between  *)
(* its look at the status and its write.  The monitoring thread is never   *)
(* in both.                                                                *)
Mutex ==
    /\ \A t \in Threads :
        /\ sending[t] = "write" => lock = t
        /\ sending[t] # "idle" => todo[t] # <<>>
        /\ part[t] > 1 => sending[t] = "write"
        /\ part[t] <= Packets(t)
    /\ at = "locked" => lock = Monitoring
    /\ at # "check" => todo[Monitoring] = <<>> /\ link = "up"
    /\ link = "down" => todo[Monitoring] = <<>> /\ sendq = <<>>

(* What a thread in the middle of a message finds at the end of the queue: *)
(* the packet before, or a full queue that took nothing of the message.    *)
(* With nobody in the middle the queue ends with the end of a message.     *)
Middle ==
    Sized /\ ~broken =>
        /\ \A t \in Threads : part[t] > 1 =>
            /\ sendq # <<>>
            /\ \/ sendq[Len(sendq)] = Packet(t, Head(todo[t]), part[t] - 1)
               \/ Len(sendq) = CI_T_SENDQSIZE /\ sendq[Len(sendq)].last
        /\ (\A t \in Threads : part[t] = 1) /\ Stream # <<>> =>
                Stream[Len(Stream)].last

Inv == TypeOK /\ Mutex /\ Middle /\ WholeMessages

-----------------------------------------------------------------------------
(* Sequences of packets.                                                   *)

\* The head of one queue becomes the end of the one before it
\* (CI_ReallyWriteData): what is in both together stays the same.
LEMMA Moved ==
    ASSUME NEW S, NEW s \in Seq(S), NEW t \in Seq(S), t # <<>>
    PROVE  /\ Append(s, Head(t)) \in Seq(S) /\ Tail(t) \in Seq(S)
           /\ Append(s, Head(t)) \o Tail(t) = s \o t
<1>1. Head(t) \in S /\ Tail(t) \in Seq(S)
  BY HeadTailProperties
<1>2. Append(s, Head(t)) \in Seq(S)
  BY <1>1, AppendProperties
<1> DEFINE l == Append(s, Head(t)) \o Tail(t)
           r == s \o t
<1>3. l \in Seq(S) /\ r \in Seq(S)
  BY <1>1, <1>2, ConcatProperties
<1>4. Len(l) = Len(r)
  BY <1>1, <1>2, ConcatProperties, AppendProperties, HeadTailProperties, LenProperties
<1>5. ASSUME NEW i \in 1 .. Len(l) PROVE l[i] = r[i]
  BY <1>1, <1>2, ConcatProperties, AppendProperties, HeadTailProperties, LenProperties
<1> QED BY <1>1, <1>2, <1>3, <1>4, <1>5, SeqEqual

LEMMA Associative ==
    \A s, t, u \in Seq(HostPackets) : (s \o t) \o u = s \o (t \o u)
BY ConcatAssociative

\* Moved, with packets before them.
LEMMA MovedBehind ==
    ASSUME NEW b \in Seq(HostPackets), NEW s \in Seq(HostPackets),
           NEW t \in Seq(HostPackets), t # <<>>
    PROVE  (b \o Append(s, Head(t))) \o Tail(t) = (b \o s) \o t
<1> DEFINE s2 == Append(s, Head(t))
           t2 == Tail(t)
<1>1. s2 \in Seq(HostPackets) /\ t2 \in Seq(HostPackets) /\ s2 \o t2 = s \o t
  BY Moved
<1> HIDE DEF s2, t2
<1>2. (b \o s2) \o t2 = b \o (s2 \o t2)
  BY <1>1, Associative, Zenon
<1>3. (b \o s) \o t = b \o (s \o t)
  BY Associative, Zenon
<1>4. (b \o s2) \o t2 = (b \o s) \o t
  BY <1>1, <1>2, <1>3
<1> QED BY <1>4 DEF s2, t2

\* What was well formed stays so when its end is lost (the memset of the
\* queue).
LEMMA PrefixWellFormed ==
    ASSUME NEW s \in Seq(HostPackets), NEW t \in Seq(HostPackets), WellFormed(s \o t)
    PROVE  WellFormed(s)
BY ConcatProperties, LenProperties DEF WellFormed

\* What was well formed stays so when whole messages, or what comes before the
\* first packet of one, are taken away.
LEMMA SuffixWellFormed ==
    ASSUME NEW s \in Seq(HostPackets), NEW t \in Seq(HostPackets), WellFormed(s \o t),
           \/ s # <<>> /\ s[Len(s)].last
           \/ t # <<>> /\ t[1].part = 1
    PROVE  WellFormed(t)
<1> SUFFICES ASSUME NEW i \in 1 .. Len(t)
             PROVE  IF i = 1 \/ t[i - 1].last
                    THEN t[i].part = 1
                    ELSE t[i] = Packet(t[i - 1].from, t[i - 1].kind, t[i - 1].part + 1)
  BY DEF WellFormed
<1> DEFINE j == Len(s) + i
<1>1. /\ Len(s) \in Nat /\ Len(t) \in Nat
      /\ j \in 1 .. Len(s \o t) /\ (s \o t)[j] = t[i]
      /\ i > 1 => (s \o t)[j - 1] = t[i - 1]
      /\ i = 1 /\ s # <<>> => j > 1 /\ (s \o t)[j - 1] = s[Len(s)]
  <2>1. /\ Len(s) \in Nat /\ Len(t) \in Nat /\ (s # <<>> => Len(s) > 0)
    BY LenProperties, EmptySeq
  <2>2. /\ Len(s \o t) = Len(s) + Len(t)
        /\ \A k \in 1 .. Len(s) + Len(t) :
              (s \o t)[k] = IF k <= Len(s) THEN s[k] ELSE t[k - Len(s)]
    BY ConcatProperties
  <2> QED BY <2>1, <2>2
<1>2. IF j = 1 \/ (s \o t)[j - 1].last
      THEN (s \o t)[j].part = 1
      ELSE (s \o t)[j] = Packet((s \o t)[j - 1].from, (s \o t)[j - 1].kind,
                                (s \o t)[j - 1].part + 1)
  BY <1>1 DEF WellFormed
<1>3. CASE i > 1
  BY <1>1, <1>2, <1>3
<1>4. CASE i = 1
  BY <1>1, <1>2, <1>4
<1> QED BY <1>3, <1>4

\* What is well formed stays so when the right packet is added (CI_WriteData).
LEMMA AppendWellFormed ==
    ASSUME NEW s \in Seq(HostPackets), NEW p \in HostPackets, WellFormed(s),
           IF s = <<>> \/ s[Len(s)].last
           THEN p.part = 1
           ELSE p = Packet(s[Len(s)].from, s[Len(s)].kind, s[Len(s)].part + 1)
    PROVE  WellFormed(Append(s, p))
BY AppendProperties, LenProperties, EmptySeq DEF WellFormed

-----------------------------------------------------------------------------
(* Types and the mutex.                                                    *)

\* The packet that SendTransportPacket builds next.
LEMMA PacketType ==
    ASSUME TypeOK, Mutex, NEW t \in Threads, sending[t] = "write"
    PROVE  /\ Head(todo[t]) \in Kinds /\ Tail(todo[t]) \in Seq(Kinds)
           /\ Packet(t, Head(todo[t]), part[t]) \in HostPackets
           /\ ~Packet(t, Head(todo[t]), part[t]).last => part[t] + 1 <= Packets(t)
           /\ Packets(t) \in 1 .. FRAGMENTS
<1>1. todo[t] \in Seq(Kinds) /\ todo[t] # <<>>
  BY DEF TypeOK, Mutex
<1>2. Head(todo[t]) \in Kinds /\ Tail(todo[t]) \in Seq(Kinds)
  BY <1>1, HeadTailProperties
<1>3. Packets(t) \in 1 .. FRAGMENTS
  BY LinkAssumption DEF Packets
<1>4. part[t] \in 1 .. FRAGMENTS /\ part[t] <= Packets(t)
  BY DEF TypeOK, Mutex
<1> DEFINE p == Packet(t, Head(todo[t]), part[t])
<1>5. /\ p.from = t /\ p.kind = Head(todo[t]) /\ p.part = part[t]
      /\ p.last = (part[t] = Packets(t))
      /\ p \in [from : Threads, kind : Kinds, part : 1 .. FRAGMENTS, last : BOOLEAN]
  BY <1>2, <1>4 DEF Packet
<1>6. p \in HostPackets
  BY <1>4, <1>5 DEF HostPackets
<1> HIDE DEF p
<1>7. part[t] \in Int /\ Packets(t) \in Int
  BY <1>3, <1>4
<1>8. ~p.last => part[t] + 1 <= Packets(t)
  BY <1>4, <1>5, <1>7
<1> QED BY <1>2, <1>3, <1>6, <1>8 DEF p

\* A packet before the last one of its message has the "more" bit.
LEMMA NotLast ==
    ASSUME NEW t, NEW kind, Packets(t) \in Int, NEW n \in Int, n < Packets(t)
    PROVE  Packet(t, kind, n).from = t /\ ~Packet(t, kind, n).last
<1>1. (n = Packets(t)) = FALSE
  OBVIOUS
<1> QED BY <1>1 DEF Packet

\* The empty queue.
LEMMA NoPackets ==
    /\ <<>> \in Seq(HostPackets) /\ <<>> \in Seq(ModulePackets)
    /\ Len(<<>>) = 0 /\ 0 <= CI_T_SENDQSIZE /\ 0 <= MODULE_BUFFER
BY LinkAssumption, EmptySeq

\* CI_WriteData stays inside the queue.
LEMMA PutType ==
    ASSUME TypeOK, NEW p \in HostPackets
    PROVE  Put(p) \in Seq(HostPackets) /\ Len(Put(p)) <= CI_T_SENDQSIZE
BY LinkAssumption, AppendProperties, LenProperties DEF TypeOK, Put

\* What the module answers is a sequence of its packets.
LEMMA AnswerType ==
    ASSUME TypeOK, NEW kind PROVE Answer(kind) \in Seq(ModulePackets)
<1> DEFINE data == [i \in 1 .. FRAGMENTS |->
                       [last |-> i = FRAGMENTS, data |-> TRUE,
                        sb |-> IF i = FRAGMENTS THEN "empty" ELSE "none"]]
           sb == [last |-> TRUE, data |-> FALSE, sb |-> Sb(pending)]
<1>1. data \in [1 .. FRAGMENTS -> ModulePackets]
  BY DEF ModulePackets
<1>2. data \in Seq(ModulePackets)
  BY <1>1, LinkAssumption, SeqDef
<1>3. sb \in ModulePackets
  BY DEF ModulePackets, Sb
<1>4. <<sb>> \in Seq(ModulePackets) /\ <<>> \in Seq(ModulePackets)
  BY <1>3
<1> HIDE DEF data, sb
<1> QED BY <1>2, <1>4 DEF Answer, data, sb

LEMMA TypeStep == TypeOK /\ Mutex /\ [Next]_vars => TypeOK'
<1> SUFFICES ASSUME TypeOK, Mutex, [Next]_vars PROVE TypeOK'
  OBVIOUS
<1> USE LinkAssumption DEF TypeOK
<1>1. ASSUME NEW t \in Threads, Gate(t) PROVE TypeOK'
  <2>1. todo[t] \in Seq(Kinds) /\ todo[t] # <<>>
    BY <1>1 DEF Gate
  <2>2. Tail(todo[t]) \in Seq(Kinds)
    BY <2>1, HeadTailProperties
  <2> QED BY <1>1, <2>2 DEF Gate, moduleVars, history
<1>2. ASSUME NEW t \in Threads, Acquire(t) PROVE TypeOK'
  BY <1>2 DEF Acquire, moduleVars, history
<1>3. ASSUME NEW t \in Threads, Write(t) PROVE TypeOK'
  <2> DEFINE p == Packet(t, Head(todo[t]), part[t])
  <2>1. sending[t] = "write"
    BY <1>3 DEF Write
  <2>2. /\ Tail(todo[t]) \in Seq(Kinds) /\ p \in HostPackets
        /\ ~p.last => part[t] + 1 <= Packets(t)
        /\ Packets(t) \in 1 .. FRAGMENTS
    BY <2>1, PacketType
  <2>3. Put(p) \in Seq(HostPackets) /\ Len(Put(p)) <= CI_T_SENDQSIZE
    BY <2>2, PutType
  <2>4. /\ sendq' = Put(p) /\ broken' = (broken \/ Cuts(p))
        /\ \/ /\ part' = [part EXCEPT ![t] = 1]
              /\ todo' = [todo EXCEPT ![t] = Tail(@)]
              /\ sending' = [sending EXCEPT ![t] = "idle"]
              /\ lock' = NONE
           \/ /\ ~p.last
              /\ part' = [part EXCEPT ![t] = @ + 1]
              /\ UNCHANGED <<todo, sending, lock>>
        /\ UNCHANGED <<link, fRXPending, fGotPollAck, at, moduleVars, crashed, restarts>>
    BY <1>3 DEF Write
  <2>5. part' \in [Threads -> 1 .. FRAGMENTS]
    <3> HIDE DEF p
    <3>1. FRAGMENTS \in Nat \ {0} /\ part[t] \in 1 .. FRAGMENTS
      OBVIOUS
    <3>2. ~p.last => part[t] + 1 \in 1 .. FRAGMENTS
      BY <2>2, <3>1
    <3>3. CASE part' = [part EXCEPT ![t] = 1]
      BY <3>1, <3>3
    <3>4. CASE ~p.last /\ part' = [part EXCEPT ![t] = @ + 1]
      BY <3>2, <3>4
    <3> QED BY <2>4, <3>3, <3>4
  <2>6. todo' \in [Threads -> Seq(Kinds)]
    <3> HIDE DEF p
    <3> QED BY <2>2, <2>4
  <2> HIDE DEF p
  <2>7. broken' \in BOOLEAN
    BY <2>4 DEF Cuts
  <2> QED BY <2>3, <2>4, <2>5, <2>6, <2>7 DEF moduleVars
<1>4. ASSUME NEW t \in Threads, Crash(t) PROVE TypeOK'
  BY <1>4 DEF Crash, hostVars, moduleVars
<1>5. ASSUME NEW t \in Threads, NewMessage(t) PROVE TypeOK'
  <2>1. <<"data">> \in Seq(Kinds)
    BY DEF Kinds
  <2> QED BY <1>5, <2>1 DEF NewMessage, moduleVars, history
<1>6. CASE ReadMore
  BY <1>6, HeadTailProperties DEF ReadMore, history
<1>7. CASE Read
  <2>1. PICK reply \in {<<>>, <<"data">>} :
           todo' = [todo EXCEPT ![Monitoring] =
                      reply \o (IF Head(toHost).sb = "more" THEN <<"rcv">> ELSE <<>>)]
    BY <1>7 DEF Read
  <2>2. /\ <<>> \in Seq(Kinds) /\ <<"data">> \in Seq(Kinds) /\ <<"rcv">> \in Seq(Kinds)
    BY DEF Kinds
  <2>3. reply \o (IF Head(toHost).sb = "more" THEN <<"rcv">> ELSE <<>>) \in Seq(Kinds)
    BY <2>2, ConcatProperties
  <2>4. todo' \in [Threads -> Seq(Kinds)]
    BY <2>1, <2>3
  <2>5. Tail(toHost) \in Seq(ModulePackets)
    BY <1>7, HeadTailProperties DEF Read
  <2> QED BY <1>7, <2>4, <2>5 DEF Read, history
<1>8. CASE TakeLock
  BY <1>8 DEF TakeLock, Threads, moduleVars, history
<1>9. CASE Defer
  BY <1>9 DEF Defer, moduleVars, history
<1>10. CASE WriteOut
  <2>1. /\ Tail(sendq) \in Seq(HostPackets) /\ Len(Tail(sendq)) = Len(sendq) - 1
        /\ Head(sendq) \in HostPackets
    BY <1>10, HeadTailProperties DEF WriteOut
  <2>2. /\ Append(toModule, Head(sendq)) \in Seq(HostPackets)
        /\ Len(Append(toModule, Head(sendq))) = Len(toModule) + 1
    BY <2>1, AppendProperties
  <2>3. Len(sendq) \in Nat /\ Len(toModule) \in Nat
    BY LenProperties
  <2>4. Len(sendq') <= CI_T_SENDQSIZE /\ Len(toModule') <= MODULE_BUFFER
    BY <1>10, <2>1, <2>2, <2>3 DEF WriteOut
  <2> QED BY <1>10, <2>1, <2>2, <2>4 DEF WriteOut, history
<1>11. CASE WriteFails
  BY <1>11 DEF WriteFails, moduleVars, Links
<1>12. CASE NothingToWrite
  BY <1>12 DEF NothingToWrite, moduleVars, history
<1>13. CASE Poll
  <2>1. <<"poll">> \in Seq(Kinds)
    BY DEF Kinds
  <2> QED BY <1>13, <2>1 DEF Poll, moduleVars, history
<1>14. CASE Clear
  <2>1. restarts' \in 0 .. MAX_RESTARTS
    BY <1>14 DEF Clear
  <2> QED BY <1>14, <2>1, NoPackets DEF Clear, moduleVars, Links
<1>15. CASE Configure
  <2>1. <<"create">> \in Seq(Kinds)
    BY DEF Kinds
  <2>2. broken' \in BOOLEAN
    BY <1>15 DEF Configure
  <2> QED BY <1>15, <2>1, <2>2, NoPackets DEF Configure, Links
<1>16. CASE Started
  BY <1>16 DEF Started, moduleVars, history, Links
<1>17. CASE ModuleTakesPart
  <2>1. /\ Head(toModule) \in HostPackets /\ Tail(toModule) \in Seq(HostPackets)
        /\ Len(Tail(toModule)) = Len(toModule) - 1
    BY <1>17, HeadTailProperties DEF ModuleTakesPart
  <2>2. Append(begun, Head(toModule)) \in Seq(HostPackets)
    BY <2>1, AppendProperties
  <2>3. <<Head(toModule)>> \in Seq(HostPackets) /\ Len(toModule) \in Nat
    BY <2>1, LenProperties
  <2> QED BY <1>17, <2>1, <2>2, <2>3 DEF ModuleTakesPart, hostVars, history
<1>18. CASE ModuleTakes
  <2>1. /\ Tail(toModule) \in Seq(HostPackets)
        /\ Len(Tail(toModule)) = Len(toModule) - 1
        /\ Len(toModule) \in Nat
    BY <1>18, HeadTailProperties, LenProperties DEF ModuleTakes
  <2>2. toHost' \in Seq(ModulePackets)
    BY <1>18, AnswerType DEF ModuleTakes
  <2>3. created' \in BOOLEAN /\ pending' \in BOOLEAN
    BY <1>18 DEF ModuleTakes
  <2> QED BY <1>18, <2>1, <2>2, <2>3, NoPackets DEF ModuleTakes, hostVars, history
<1>19. CASE ModuleHasData
  BY <1>19 DEF ModuleHasData, hostVars, history
<1>20. CASE UNCHANGED vars
  BY <1>20 DEF vars, hostVars, moduleVars, history
<1> QED BY <1>1, <1>2, <1>3, <1>4, <1>5, <1>6, <1>7, <1>8, <1>9, <1>10, <1>11, <1>12,
           <1>13, <1>14, <1>15, <1>16, <1>17, <1>18, <1>19, <1>20
        DEF Next, Transport, CheckSlot, Restart, Module, Step

LEMMA MutexStep == TypeOK /\ Mutex /\ [Next]_vars => Mutex'
<1> SUFFICES ASSUME TypeOK, Mutex, [Next]_vars PROVE Mutex'
  OBVIOUS
<1>0. /\ Monitoring \in Threads /\ Monitoring \notin Senders
      /\ NONE \notin Threads
      /\ \A t \in Threads : Packets(t) \in 1 .. FRAGMENTS
      /\ Packets(Monitoring) = 1
      /\ part[Monitoring] = 1
  BY LinkAssumption DEF Threads, Packets, TypeOK, Mutex
<1> USE <1>0 DEF TypeOK, Mutex
<1>1. ASSUME NEW t \in Threads, Gate(t) PROVE Mutex'
  BY <1>1 DEF Gate, Sized
<1>2. ASSUME NEW t \in Threads, Acquire(t) PROVE Mutex'
  BY <1>2 DEF Acquire
<1>3. ASSUME NEW t \in Threads, Write(t) PROVE Mutex'
  <2> DEFINE p == Packet(t, Head(todo[t]), part[t])
  <2>1. /\ sending[t] = "write" /\ lock = t /\ link # "down" /\ at # "locked"
    BY <1>3 DEF Write, Sized
  <2>2. ~p.last => part[t] + 1 <= Packets(t)
    BY <2>1, PacketType
  <2>3. /\ \/ /\ part' = [part EXCEPT ![t] = 1]
              /\ todo' = [todo EXCEPT ![t] = Tail(@)]
              /\ sending' = [sending EXCEPT ![t] = "idle"]
              /\ lock' = NONE
           \/ /\ ~p.last
              /\ part' = [part EXCEPT ![t] = @ + 1]
              /\ UNCHANGED <<todo, sending, lock>>
        /\ UNCHANGED <<link, at>>
    BY <1>3 DEF Write
  <2>4. at # "check" => t # Monitoring
    BY <2>1
  <2> HIDE DEF p
  <2>5. CASE /\ part' = [part EXCEPT ![t] = 1]
             /\ todo' = [todo EXCEPT ![t] = Tail(@)]
             /\ sending' = [sending EXCEPT ![t] = "idle"]
             /\ lock' = NONE
    BY <2>1, <2>3, <2>4, <2>5
  <2>6. CASE ~p.last /\ part' = [part EXCEPT ![t] = @ + 1] /\ UNCHANGED <<todo, sending, lock>>
    BY <2>1, <2>2, <2>3, <2>4, <2>6
  <2> QED BY <2>3, <2>5, <2>6
<1>4. ASSUME NEW t \in Threads, Crash(t) PROVE Mutex'
  BY <1>4 DEF Crash, hostVars
<1>5. ASSUME NEW t \in Threads, NewMessage(t) PROVE Mutex'
  <2>1. <<"data">> # <<>>
    OBVIOUS
  <2> QED BY <1>5, <2>1 DEF NewMessage
<1>6. CASE ReadMore
  BY <1>6 DEF ReadMore
<1>7. CASE Read
  <2>1. /\ at = "check" /\ link = "up" /\ todo[Monitoring] = <<>>
        /\ UNCHANGED <<link, at, lock, sending, part>>
        /\ \A t \in Threads : t # Monitoring => todo'[t] = todo[t]
    BY <1>7 DEF Read, Round, Free
  <2>2. sending[Monitoring] = "idle"
    BY <2>1
  <2> QED BY <2>1, <2>2
<1>8. CASE TakeLock
  BY <1>8 DEF TakeLock, Round, Free
<1>9. CASE Defer
  BY <1>9 DEF Defer
<1>10. CASE WriteOut
  BY <1>10 DEF WriteOut
<1>11. CASE WriteFails
  BY <1>11 DEF WriteFails
<1>12. CASE NothingToWrite
  BY <1>12 DEF NothingToWrite
<1>13. CASE Poll
  <2>1. /\ at' = "check" /\ link = "up" /\ todo[Monitoring] = <<>>
        /\ UNCHANGED <<link, lock, sending, part>>
        /\ \A t \in Threads : t # Monitoring => todo'[t] = todo[t]
    BY <1>13 DEF Poll
  <2>2. sending[Monitoring] = "idle"
    BY <2>1
  <2> QED BY <2>1, <2>2
<1>14. CASE Clear
  BY <1>14 DEF Clear, Free
<1>15. CASE Configure
  <2>1. /\ at = "check" /\ link' = "sized" /\ todo[Monitoring] = <<>>
        /\ UNCHANGED <<at, lock, sending, part>>
        /\ \A t \in Threads : t # Monitoring => todo'[t] = todo[t]
    BY <1>15 DEF Configure
  <2>2. sending[Monitoring] = "idle"
    BY <2>1
  <2> QED BY <2>1, <2>2
<1>16. CASE Started
  BY <1>16 DEF Started
<1>17. CASE ModuleTakesPart
  BY <1>17 DEF ModuleTakesPart, hostVars
<1>18. CASE ModuleTakes
  BY <1>18 DEF ModuleTakes, hostVars
<1>19. CASE ModuleHasData
  BY <1>19 DEF ModuleHasData, hostVars
<1>20. CASE UNCHANGED vars
  BY <1>20 DEF vars, hostVars
<1> QED BY <1>1, <1>2, <1>3, <1>4, <1>5, <1>6, <1>7, <1>8, <1>9, <1>10, <1>11, <1>12,
           <1>13, <1>14, <1>15, <1>16, <1>17, <1>18, <1>19, <1>20
        DEF Next, Transport, CheckSlot, Restart, Module, Step

-----------------------------------------------------------------------------
(* What the module is sent.                                                *)

\* The stream ends where the queue ends.
LEMMA StreamType ==
    ASSUME TypeOK
    PROVE  /\ Stream \in Seq(HostPackets)
           /\ sendq # <<>> => /\ Stream # <<>>
                              /\ Stream[Len(Stream)] = sendq[Len(sendq)]
<1>1. begun \o toModule \in Seq(HostPackets)
  BY ConcatProperties DEF TypeOK
<1>2. Stream \in Seq(HostPackets)
  BY <1>1, ConcatProperties DEF TypeOK, Stream
<1>3. ASSUME sendq # <<>>
      PROVE  Stream # <<>> /\ Stream[Len(Stream)] = sendq[Len(sendq)]
  <2> DEFINE s == begun \o toModule
  <2>1. Len(sendq) \in Nat \ {0} /\ Len(s) \in Nat
    BY <1>1, <1>3, EmptySeq, LenProperties DEF TypeOK
  <2>2. /\ Len(Stream) = Len(s) + Len(sendq)
        /\ \A i \in 1 .. Len(s) + Len(sendq) :
              Stream[i] = IF i <= Len(s) THEN s[i] ELSE sendq[i - Len(s)]
    BY <1>1, ConcatProperties DEF TypeOK, Stream
  <2> HIDE DEF s
  <2>3. Stream[Len(Stream)] = sendq[Len(sendq)] /\ Len(Stream) # 0
    BY <2>1, <2>2
  <2> QED BY <2>3, EmptySeq
<1> QED BY <1>2, <1>3

\* SendTransportPacket adds the right packet, or none.
LEMMA WriteKeeps ==
    ASSUME Inv, NEW t \in Threads, Write(t), ~broken'
    PROVE  Middle' /\ WellFormed(Stream')
<1> DEFINE p == Packet(t, Head(todo[t]), part[t])
<1>1. /\ sending[t] = "write" /\ lock = t /\ Sized /\ Sized'
      /\ sendq' = Put(p) /\ ~broken /\ ~Cuts(p)
      /\ UNCHANGED <<begun, toModule>>
  BY DEF Write, Sized, Inv, Mutex, moduleVars
<1>2. \A u \in Threads \ {t} : part[u] = 1 /\ part'[u] = 1
  <2>1. \A u \in Threads \ {t} : part[u] = 1
    BY <1>1, LinkAssumption DEF Inv, Mutex, TypeOK
  <2>2. \A u \in Threads \ {t} : part'[u] = part[u]
    BY DEF Write, Inv, TypeOK
  <2> QED BY <2>1, <2>2
<1>3. IF p.last THEN part'[t] = 1
      ELSE part'[t] = part[t] + 1 /\ part'[t] > 1 /\ todo' = todo
  BY LinkAssumption DEF Write, Inv, TypeOK
<1>4. /\ p \in HostPackets
      /\ p.from = t /\ p.kind = Head(todo[t]) /\ p.part = part[t]
      /\ part[t] \in 1 .. FRAGMENTS /\ part[t] <= Packets(t) /\ Packets(t) \in Nat
      /\ FRAGMENTS \in Nat
  <2>1. p \in HostPackets /\ Packets(t) \in 1 .. FRAGMENTS
    BY <1>1, PacketType DEF Inv
  <2> QED BY <2>1, LinkAssumption DEF Packet, Inv, TypeOK, Mutex
<1>5. /\ Stream \in Seq(HostPackets) /\ WellFormed(Stream)
      /\ sendq \in Seq(HostPackets) /\ Len(sendq) \in Nat
      /\ Len(sendq) <= CI_T_SENDQSIZE /\ CI_T_SENDQSIZE \in Nat \ {0}
      /\ (sendq # <<>> => Stream[Len(Stream)] = sendq[Len(sendq)])
  BY <1>1, StreamType, LenProperties, LinkAssumption DEF Inv, TypeOK, WholeMessages
\* In the middle of a message the queue ends with the packet before, or is full.
<1>6. ASSUME part[t] > 1
      PROVE  /\ sendq # <<>>
             /\ \/ sendq[Len(sendq)] = Packet(t, Head(todo[t]), part[t] - 1)
                \/ Len(sendq) = CI_T_SENDQSIZE /\ sendq[Len(sendq)].last
  BY <1>1, <1>6 DEF Inv, Middle
<1>7. ASSUME part[t] = 1, Stream # <<>> PROVE Stream[Len(Stream)].last
  BY <1>1, <1>2, <1>7 DEF Inv, Middle
<1> HIDE DEF p
<1>8. ASSUME part[t] > 1, sendq[Len(sendq)] = Packet(t, Head(todo[t]), part[t] - 1)
      PROVE  sendq[Len(sendq)].from = t /\ ~sendq[Len(sendq)].last
  <2> DEFINE k == part[t] - 1
  <2>1. k \in Int /\ k < Packets(t)
    BY <1>4
  <2>2. Packet(t, Head(todo[t]), k).from = t /\ ~Packet(t, Head(todo[t]), k).last
    BY <1>4, <2>1, NotLast
  <2> QED BY <1>8, <2>2
<1>9. CASE Len(sendq) >= CI_T_SENDQSIZE
  <2>1. sendq' = sendq /\ Put(p) = sendq /\ sendq # <<>> /\ Len(sendq) = CI_T_SENDQSIZE
    BY <1>1, <1>5, <1>9, NoPackets DEF Put
  <2>2. Stream' = Stream
    BY <1>1, <2>1 DEF Stream
  <2>3. sendq[Len(sendq)].last
    <3>1. CASE part[t] = 1
      BY <1>5, <1>7, <2>1, <3>1, StreamType DEF Inv
    <3>2. CASE part[t] > 1
      <4>1. ~(sendq[Len(sendq)].from = t /\ ~sendq[Len(sendq)].last)
        BY <1>1, <1>4, <2>1, <3>2 DEF Cuts, Last
      <4> QED BY <1>6, <1>8, <3>2, <4>1
    <3> QED BY <1>4, <3>1, <3>2
  <2>4. Stream[Len(Stream)].last
    BY <1>5, <2>1, <2>3
  <2>5. Middle'
    BY <1>2, <1>3, <2>1, <2>2, <2>3, <2>4 DEF Middle
  <2> QED BY <1>5, <2>2, <2>5
<1>10. CASE Len(sendq) < CI_T_SENDQSIZE
  <2>1. /\ sendq' = Append(sendq, p) /\ sendq' # <<>>
        /\ sendq'[Len(sendq')] = p
    BY <1>1, <1>4, <1>5, <1>10, AppendProperties DEF Put
  <2>2. Stream' = Append(Stream, p)
    <3> DEFINE s == begun \o toModule
    <3>1. s \in Seq(HostPackets) /\ <<p>> \in Seq(HostPackets)
      BY <1>4, ConcatProperties DEF Inv, TypeOK
    <3>2. Append(sendq, p) = sendq \o <<p>>
      BY <1>4, <1>5, AppendIsConcat
    <3>3. (s \o sendq) \o <<p>> = s \o (sendq \o <<p>>)
      BY <1>5, <3>1, Associative, Zenon
    <3>4. Append(Stream, p) = Stream \o <<p>>
      BY <1>4, <1>5, AppendIsConcat
    <3> QED BY <1>1, <2>1, <3>2, <3>3, <3>4 DEF Stream
  <2>3. IF Stream = <<>> \/ Stream[Len(Stream)].last
        THEN p.part = 1
        ELSE p = Packet(Stream[Len(Stream)].from, Stream[Len(Stream)].kind,
                        Stream[Len(Stream)].part + 1)
    <3>1. CASE part[t] = 1
      BY <1>4, <1>7, <3>1
    <3>2. CASE part[t] > 1
      <4>1. /\ Stream # <<>>
            /\ Stream[Len(Stream)] = Packet(t, Head(todo[t]), part[t] - 1)
            /\ ~Stream[Len(Stream)].last
        BY <1>5, <1>6, <1>8, <1>10, <3>2, StreamType DEF Inv
      <4>2. /\ Stream[Len(Stream)].from = t /\ Stream[Len(Stream)].kind = Head(todo[t])
            /\ Stream[Len(Stream)].part + 1 = part[t]
        BY <1>4, <4>1 DEF Packet
      <4> QED BY <4>1, <4>2 DEF p
    <3> QED BY <1>4, <3>1, <3>2
  <2>4. WellFormed(Stream')
    BY <1>4, <1>5, <2>2, <2>3, AppendWellFormed
  <2>5. Stream'[Len(Stream')] = p
    BY <1>4, <1>5, <2>2, AppendProperties
  <2>6. Middle'
    <3>1. CASE p.last
      BY <1>2, <1>3, <2>5, <3>1 DEF Middle
    <3>2. CASE ~p.last
      <4>1. p = Packet(t, Head(todo'[t]), part'[t] - 1)
        BY <1>3, <1>4, <3>2 DEF p
      <4> QED BY <1>2, <1>3, <2>1, <3>2, <4>1 DEF Middle
    <3> QED BY <3>1, <3>2
  <2> QED BY <2>4, <2>6
<1> QED BY <1>5, <1>9, <1>10

\* CI_ReallyWriteData hands the packets on in their order.
LEMMA WriteOutKeeps ==
    ASSUME Inv, WriteOut
    PROVE  /\ Stream' = Stream /\ link' = link /\ broken' = broken
           /\ \A t \in Threads : part'[t] = 1
<1>1. /\ sendq # <<>> /\ sendq' = Tail(sendq)
      /\ toModule' = Append(toModule, Head(sendq))
      /\ UNCHANGED <<link, begun, broken, part>>
  BY DEF WriteOut, history
<1>2. /\ begun \in Seq(HostPackets) /\ toModule \in Seq(HostPackets)
      /\ sendq \in Seq(HostPackets)
  BY DEF Inv, TypeOK
<1>3. (begun \o Append(toModule, Head(sendq))) \o Tail(sendq) = (begun \o toModule) \o sendq
  BY <1>1, <1>2, MovedBehind, Zenon
<1>4. Stream' = Stream
  BY <1>1, <1>3 DEF Stream
<1>5. ASSUME NEW t \in Threads PROVE part[t] = 1
  <2>1. lock = Monitoring /\ todo[Monitoring] = <<>>
    BY DEF WriteOut, Inv, Mutex
  <2>2. ~(part[t] > 1)
    BY <2>1 DEF Inv, Mutex
  <2>3. part[t] \in 1 .. FRAGMENTS /\ FRAGMENTS \in Nat
    BY LinkAssumption DEF Inv, TypeOK
  <2> QED BY <2>2, <2>3
<1> QED BY <1>1, <1>4, <1>5

\* The module throws away what belongs to no message, or keeps the beginning of
\* one: nothing changes after it.
LEMMA TakesPartKeeps ==
    ASSUME Inv, ModuleTakesPart, ~broken
    PROVE  /\ WellFormed(Stream')
           /\ Stream' # <<>> /\ Stream # <<>>
           /\ Stream'[Len(Stream')] = Stream[Len(Stream)]
<1> DEFINE h == Head(toModule)
           rest == toModule \o sendq
<1>1. /\ toModule # <<>> /\ toModule' = Tail(toModule) /\ sendq' = sendq
      /\ begun' = IF h.part = 1 THEN <<h>> ELSE Append(begun, h)
  BY DEF ModuleTakesPart, hostVars
<1>2. /\ begun \in Seq(HostPackets) /\ toModule \in Seq(HostPackets)
      /\ sendq \in Seq(HostPackets) /\ rest \in Seq(HostPackets)
      /\ h \in HostPackets /\ Tail(toModule) \in Seq(HostPackets)
      /\ <<>> \in Seq(HostPackets)
  BY <1>1, ConcatProperties, HeadTailProperties DEF Inv, TypeOK
<1>3. Stream = begun \o rest /\ WellFormed(Stream) /\ Stream \in Seq(HostPackets)
  <2>1. Stream = begun \o rest
    <3>1. /\ begun \in Seq(HostPackets) /\ toModule \in Seq(HostPackets)
          /\ sendq \in Seq(HostPackets)
      BY <1>2
    <3>2. (begun \o toModule) \o sendq = begun \o (toModule \o sendq)
      BY <3>1, Associative, Zenon
    <3> QED BY <3>2 DEF Stream
  <2> QED BY <2>1, StreamType DEF Inv, WholeMessages
<1>4. rest # <<>> /\ rest[1] = h
  <2>1. Len(toModule) \in Nat \ {0} /\ Len(sendq) \in Nat
    BY <1>1, <1>2, EmptySeq, LenProperties
  <2>2. /\ Len(rest) = Len(toModule) + Len(sendq)
        /\ rest[1] = toModule[1]
    BY <1>2, <2>1, ConcatProperties
  <2>3. h = toModule[1]
    BY <1>1, <1>2
  <2> QED BY <2>1, <2>2, <2>3, EmptySeq
<1>5. rest[Len(rest)] = Stream[Len(Stream)] /\ Stream # <<>>
  <2>1. Len(begun) \in Nat /\ Len(rest) \in Nat \ {0}
    BY <1>2, <1>4, EmptySeq, LenProperties
  <2>2. /\ Len(Stream) = Len(begun) + Len(rest)
        /\ \A i \in 1 .. Len(begun) + Len(rest) :
              Stream[i] = IF i <= Len(begun) THEN begun[i] ELSE rest[i - Len(begun)]
    BY <1>2, <1>3, ConcatProperties
  <2> HIDE DEF rest
  <2>3. Len(Stream) # 0 /\ Stream[Len(Stream)] = rest[Len(rest)]
    BY <2>1, <2>2
  <2> QED BY <2>3, EmptySeq
<1>6. CASE h.part = 1
  <2>1. Append(<<>>, h) \o Tail(toModule) = <<>> \o toModule
    BY <1>1, <1>2, Moved
  <2>2. Append(<<>>, h) = <<h>> /\ <<>> \o toModule = toModule
    BY <1>2, ConcatEmptySeq
  <2>3. Stream' = rest
    BY <1>1, <1>6, <2>1, <2>2 DEF Stream
  <2>4. WellFormed(rest)
    BY <1>2, <1>3, <1>4, <1>6, SuffixWellFormed
  <2> QED BY <1>4, <1>5, <2>3, <2>4
<1>7. CASE h.part # 1
  <2>1. Append(begun, h) \o Tail(toModule) = begun \o toModule
    BY <1>1, <1>2, Moved
  <2>2. Stream' = Stream
    BY <1>1, <1>7, <2>1 DEF Stream
  <2> QED BY <1>3, <1>5, <2>2
<1> QED BY <1>6, <1>7

\* The module takes a whole message off the front.
LEMMA TakesKeeps ==
    ASSUME Inv, ModuleTakes, ~broken
    PROVE  /\ WellFormed(Stream')
           /\ Stream' # <<>> => /\ Stream # <<>>
                                /\ Stream'[Len(Stream')] = Stream[Len(Stream)]
<1> DEFINE h == Head(toModule)
           front == Append(begun, h)
           rest == Tail(toModule) \o sendq
<1>1. /\ toModule # <<>> /\ toModule' = Tail(toModule) /\ sendq' = sendq
      /\ begun' = <<>> /\ h.last
  BY DEF ModuleTakes, hostVars
<1>2. /\ begun \in Seq(HostPackets) /\ toModule \in Seq(HostPackets)
      /\ sendq \in Seq(HostPackets) /\ rest \in Seq(HostPackets)
      /\ h \in HostPackets /\ Tail(toModule) \in Seq(HostPackets)
      /\ front \in Seq(HostPackets) /\ front # <<>> /\ front[Len(front)] = h
  <2>1. /\ begun \in Seq(HostPackets) /\ toModule \in Seq(HostPackets)
        /\ sendq \in Seq(HostPackets)
        /\ h \in HostPackets /\ Tail(toModule) \in Seq(HostPackets)
    BY <1>1, HeadTailProperties DEF Inv, TypeOK
  <2>2. front \in Seq(HostPackets) /\ front # <<>> /\ front[Len(front)] = h
    BY <2>1, AppendProperties
  <2> QED BY <2>1, <2>2, ConcatProperties
<1>3. Stream = front \o rest
  <2>1. begun \o toModule = front \o Tail(toModule)
    BY <1>1, <1>2, Moved
  <2> DEFINE tl == Tail(toModule)
  <2>2. Stream = (front \o tl) \o sendq
    BY <2>1 DEF Stream
  <2>3. front \in Seq(HostPackets) /\ tl \in Seq(HostPackets) /\ sendq \in Seq(HostPackets)
    BY <1>2
  <2> HIDE DEF front, tl
  <2>4. (front \o tl) \o sendq = front \o (tl \o sendq)
    BY <2>3, Associative, Zenon
  <2> QED BY <2>2, <2>4 DEF tl
<1>4. Stream' = rest
  <2>1. <<>> \o Tail(toModule) = Tail(toModule)
    BY <1>2, ConcatEmptySeq
  <2> QED BY <1>1, <2>1 DEF Stream
<1>5. WellFormed(Stream)
  BY DEF Inv, WholeMessages
<1> HIDE DEF front, rest
<1>6. WellFormed(rest)
  BY <1>1, <1>2, <1>3, <1>5, SuffixWellFormed
<1>7. ASSUME rest # <<>>
      PROVE  Stream # <<>> /\ rest[Len(rest)] = Stream[Len(Stream)]
  <2>1. Len(front) \in Nat /\ Len(rest) \in Nat \ {0}
    BY <1>2, <1>7, EmptySeq, LenProperties
  <2>2. /\ Len(Stream) = Len(front) + Len(rest)
        /\ \A i \in 1 .. Len(front) + Len(rest) :
              Stream[i] = IF i <= Len(front) THEN front[i] ELSE rest[i - Len(front)]
    BY <1>2, <1>3, ConcatProperties
  <2>3. Len(Stream) # 0 /\ Stream[Len(Stream)] = rest[Len(rest)]
    BY <2>1, <2>2
  <2> QED BY <2>3, EmptySeq
<1> QED BY <1>4, <1>6, <1>7

\* The steps that touch neither the packets under way nor the place of a thread
\* inside its message.
LEMMA QuietKeeps ==
    ASSUME Inv, UNCHANGED <<sendq, toModule, begun, part, broken>>, Sized' => Sized,
           \A t \in Threads : part[t] > 1 => Head(todo'[t]) = Head(todo[t])
    PROVE  Middle' /\ WholeMessages'
<1>1. Stream' = Stream
  BY DEF Stream
<1> QED BY <1>1 DEF Inv, Middle, WholeMessages

\* Everything else is quiet.
LEMMA QuietSteps ==
    ASSUME Inv, [Next]_vars,
           ~\E t \in Threads : Write(t),
           ~WriteOut, ~Clear, ~Configure, ~ModuleTakesPart, ~ModuleTakes
    PROVE  Middle' /\ WholeMessages'
<1> DEFINE Quiet == /\ UNCHANGED <<sendq, toModule, begun, part, broken>>
                    /\ Sized' => Sized
                    /\ \A t \in Threads : part[t] > 1 => Head(todo'[t]) = Head(todo[t])
<1>0. /\ todo \in [Threads -> Seq(Kinds)] /\ Monitoring \in Threads
      /\ \A t \in Threads : part[t] > 1 =>
            t # Monitoring /\ sending[t] = "write" /\ todo[t] # <<>>
  BY LinkAssumption DEF Inv, TypeOK, Mutex, Packets, Threads
<1>1. ASSUME NEW t \in Threads, Gate(t) PROVE Quiet
  BY <1>0, <1>1 DEF Gate, Sized, moduleVars, history
<1>2. ASSUME NEW t \in Threads, Acquire(t) PROVE Quiet
  BY <1>2 DEF Acquire, Sized, moduleVars, history
<1>3. ASSUME NEW t \in Threads, Crash(t) PROVE Quiet
  BY <1>3 DEF Crash, Sized, hostVars, moduleVars
<1>4. ASSUME NEW t \in Threads, NewMessage(t) PROVE Quiet
  BY <1>0, <1>4 DEF NewMessage, Sized, moduleVars, history
<1>5. ASSUME ReadMore PROVE Quiet
  BY <1>5 DEF ReadMore, Sized, history
<1>6. ASSUME Read PROVE Quiet
  BY <1>0, <1>6 DEF Read, Sized, history
<1>7. ASSUME TakeLock \/ Defer \/ NothingToWrite PROVE Quiet
  BY <1>7 DEF TakeLock, Defer, NothingToWrite, Sized, moduleVars, history
<1>8. ASSUME WriteFails PROVE Quiet
  BY <1>8 DEF WriteFails, Sized, Round, moduleVars, Inv, Mutex
<1>9. ASSUME Poll PROVE Quiet
  BY <1>0, <1>9 DEF Poll, Sized, moduleVars, history
<1>10. ASSUME Started PROVE Quiet
  BY <1>10 DEF Started, Sized, moduleVars, history
<1>11. ASSUME ModuleHasData PROVE Quiet
  BY <1>11 DEF ModuleHasData, Sized, hostVars, history
<1>12. ASSUME UNCHANGED vars PROVE Quiet
  BY <1>12 DEF vars, hostVars, moduleVars, history, Sized
<1>13. Quiet
  BY <1>1, <1>2, <1>3, <1>4, <1>5, <1>6, <1>7, <1>8, <1>9, <1>10, <1>11, <1>12
     DEF Next, Transport, CheckSlot, Restart, Module, Step
<1> QED BY <1>13, QuietKeeps

LEMMA StreamStep == Inv /\ [Next]_vars => Middle' /\ WholeMessages'
<1> SUFFICES ASSUME Inv, [Next]_vars PROVE Middle' /\ WholeMessages'
  OBVIOUS
<1>1. ASSUME NEW t \in Threads, Write(t) PROVE Middle' /\ WholeMessages'
  <2>1. CASE broken'
    BY <2>1 DEF Middle, WholeMessages
  <2>2. CASE ~broken'
    BY <1>1, <2>2, WriteKeeps DEF WholeMessages
  <2> QED BY <2>1, <2>2
<1>2. CASE WriteOut
  <2>1. /\ Stream' = Stream /\ link' = link /\ broken' = broken
        /\ \A t \in Threads : part'[t] = 1 /\ part[t] = 1
    BY <1>2, WriteOutKeeps DEF WriteOut
  <2> QED BY <2>1 DEF Inv, Middle, WholeMessages, Sized
<1>3. CASE Clear
  <2>1. /\ link' = "down" /\ broken' = broken
        /\ begun' = begun /\ toModule' = toModule /\ sendq' = <<>>
    BY <1>3 DEF Clear, moduleVars
  <2>2. begun \o toModule \in Seq(HostPackets) /\ sendq \in Seq(HostPackets)
    BY ConcatProperties DEF Inv, TypeOK
  <2>3. Stream' = begun \o toModule
    BY <2>1, <2>2, ConcatEmptySeq DEF Stream
  <2>4. ASSUME ~broken PROVE WellFormed(begun \o toModule)
    BY <2>2, <2>4, PrefixWellFormed DEF Inv, WholeMessages, Stream
  <2> QED BY <2>1, <2>3, <2>4 DEF Middle, WholeMessages, Sized
<1>4. CASE Configure
  <2>1. /\ begun' = <<>> /\ toModule' = <<>> /\ sendq' = <<>>
        /\ broken' = \E t \in Threads : part[t] > 1
        /\ part' = part
    BY <1>4 DEF Configure, Inv, Mutex
  <2>2. Stream' = <<>> /\ WellFormed(<<>>)
    <3>1. <<>> \o <<>> \o <<>> = <<>>
      BY NoPackets, ConcatEmptySeq
    <3>2. WellFormed(<<>>)
      BY NoPackets DEF WellFormed
    <3> QED BY <2>1, <3>1, <3>2 DEF Stream
  <2> QED BY <2>1, <2>2 DEF Middle, WholeMessages
<1>5. CASE ModuleTakesPart
  <2>1. UNCHANGED <<link, sendq, todo, part, broken>>
    BY <1>5 DEF ModuleTakesPart, hostVars, history
  <2>2. CASE broken
    BY <2>1, <2>2 DEF Middle, WholeMessages
  <2>3. CASE ~broken
    BY <1>5, <2>1, <2>3, TakesPartKeeps DEF Inv, Middle, WholeMessages, Sized
  <2> QED BY <2>2, <2>3
<1>6. CASE ModuleTakes
  <2>1. UNCHANGED <<link, sendq, todo, part, broken>>
    BY <1>6 DEF ModuleTakes, hostVars, history
  <2>2. CASE broken
    BY <2>1, <2>2 DEF Middle, WholeMessages
  <2>3. CASE ~broken
    BY <1>6, <2>1, <2>3, TakesKeeps DEF Inv, Middle, WholeMessages, Sized
  <2> QED BY <2>2, <2>3
<1> QED BY <1>1, <1>2, <1>3, <1>4, <1>5, <1>6, QuietSteps

-----------------------------------------------------------------------------
(* Theorems.                                                               *)

\* WVCI_Setup: an empty queue, nobody sending.
LEMMA InitInv == Init => Inv
<1> SUFFICES ASSUME Init PROVE Inv
  OBVIOUS
<1>1. TypeOK
  <2>1. /\ <<>> \in Seq(Kinds) /\ 1 \in 1 .. FRAGMENTS /\ 0 \in 0 .. MAX_RESTARTS
    BY LinkAssumption, EmptySeq
  <2> QED BY <2>1, NoPackets DEF Init, TypeOK, Links
<1>2. Mutex
  BY NoPackets, LinkAssumption DEF Init, Mutex, Threads, Packets
<1>3. Stream = <<>>
  BY NoPackets, ConcatEmptySeq DEF Init, Stream
<1>4. WholeMessages
  BY <1>3, NoPackets DEF WholeMessages, WellFormed
<1>5. Middle
  BY <1>3 DEF Init, Middle, Sized
<1> QED BY <1>1, <1>2, <1>4, <1>5 DEF Inv

LEMMA InvStep == Inv /\ [Next]_vars => Inv'
BY TypeStep, MutexStep, StreamStep DEF Inv

\* Inv holds of every behaviour.
THEOREM Invariant == Spec => []Inv
<1>1. Init => Inv
  BY InitInv
<1>2. Inv /\ [Next]_vars => Inv'
  BY InvStep
<1> QED BY <1>1, <1>2, PTL DEF Spec

\* The variables keep their types; the queue stays inside CI_T_SENDQ and the
\* retries inside their bound, however many threads send.
THEOREM TypeCorrect == Spec => []TypeOK
<1>1. Inv => TypeOK
  BY DEF Inv
<1> QED BY <1>1, Invariant, PTL

\* At most one thread is inside the queue: no two senders in the loop of
\* SendTransportPacket at once (ci.c:176-212), and none while CI_CheckSlot
\* looks at the queue and writes (ci_l2.c:310-356).
MutualExclusion ==
    /\ \A t, u \in Threads : sending[t] = "write" /\ sending[u] = "write" => t = u
    /\ at = "locked" => \A t \in Threads : sending[t] # "write"

THEOREM MutualExclusionHolds == Spec => []MutualExclusion
<1>1. Inv => MutualExclusion
  BY DEF Inv, Mutex, MutualExclusion
<1> QED BY <1>1, Invariant, PTL

\* As long as the queue neither lost the end of a message nor was cleared under
\* a sender, what the module is sent is whole messages, one after the other:
\* for any length of messages and of the queue, any number of senders and of
\* restarts.
THEOREM WholeMessagesHold == Spec => []WholeMessages
<1>1. Inv => WholeMessages
  BY DEF Inv
<1> QED BY <1>1, Invariant, PTL

-----------------------------------------------------------------------------
(* Somebody always has something to do.                                    *)

\* Every sender's message and more fit the queue at once (two threads send, and
\* CI_T_SENDQSIZE is 120, ci.h:157).
QueueRoom == IsFiniteSet(Senders) /\ Cardinality(Senders) * FRAGMENTS < CI_T_SENDQSIZE

\* What each thread may have to send: the monitoring thread T_CREATE, a poll, or
\* what a T_SB and the data before it call for; the others a CA_PMT.
MonitoringJobs ==
    {<<>>, <<"create">>, <<"poll">>, <<"data">>, <<"rcv">>, <<"data", "rcv">>}
JobsKnown ==
    /\ todo[Monitoring] \in MonitoringJobs
    /\ \A t \in Senders : todo[t] \in {<<>>, <<"data">>}

\* Whatever the module has begun to say, it says to the end.
AnswerEnds == toHost # <<>> => toHost[Len(toHost)].last

\* Before T_CREATE the queue holds at most what the senders had begun when the
\* module was lost, and each packet of it once.
CreateFirst ==
    todo[Monitoring] = <<"create">> =>
        /\ link = "sized"
        /\ \A i \in 1 .. Len(sendq) :
            /\ sendq[i].from \in Senders
            /\ todo[sendq[i].from] = <<>> \/ sendq[i].part < part[sendq[i].from]
            /\ \A j \in 1 .. Len(sendq) :
                sendq[j].from = sendq[i].from /\ sendq[j].part = sendq[i].part => j = i

\* T_CREATE is on its way to a module that has not seen it.
IsCreate(p)  == p.kind = "create" /\ p.last
HasCreate(q) == \E i \in 1 .. Len(q) : IsCreate(q[i])
CreateComes ==
    link \in {"sized", "up"} /\ ~created =>
        todo[Monitoring] = <<"create">> \/ HasCreate(toModule) \/ HasCreate(sendq)

\* SomeoneMoves, before the slot is in use as well.
Alive ==
    link \in {"sized", "up"} /\ ~broken =>
        \/ fGotPollAck
        \/ sendq # <<>> \/ toModule # <<>> \/ toHost # <<>>
        \/ todo[Monitoring] # <<>>

LiveInv == Inv /\ JobsKnown /\ AnswerEnds /\ CreateFirst /\ CreateComes /\ Alive

LEMMA MonitoringFacts ==
    /\ Monitoring \in Threads /\ Monitoring \notin Senders
    /\ Threads = Senders \cup {Monitoring}
    /\ Packets(Monitoring) = 1
    /\ \A t \in Senders : Packets(t) = FRAGMENTS
    /\ \A q \in MonitoringJobs : q # <<>> => Tail(q) \in MonitoringJobs /\ Tail(q) # <<"create">>
    /\ Tail(<<"data">>) = <<>> /\ <<"data">> # <<>> /\ Tail(<<"create">>) = <<>>
BY LinkAssumption DEF Threads, Packets, MonitoringJobs

\* How the messages still to send change: each thread goes through its own, and
\* the monitoring thread gets new ones when it has none.
LEMMA TodoStep ==
    ASSUME Inv, JobsKnown, [Next]_vars
    PROVE  /\ JobsKnown'
           /\ todo'[Monitoring] = <<"create">> /\ ~Configure => todo[Monitoring] = <<"create">>
           /\ todo[Monitoring] # <<>> =>
                \/ todo'[Monitoring] = todo[Monitoring] 
                \/ Write(Monitoring) \/ ~Sized
<1> DEFINE Same == todo' = todo
           Goal == /\ JobsKnown'
                   /\ todo'[Monitoring] = <<"create">> /\ ~Configure => todo[Monitoring] = <<"create">>
                   /\ todo[Monitoring] # <<>> =>
                        \/ todo'[Monitoring] = todo[Monitoring] 
                        \/ Write(Monitoring) \/ ~Sized
<1> USE MonitoringFacts DEF JobsKnown
<1>t. todo \in [Threads -> Seq(Kinds)]
  BY DEF Inv, TypeOK
<1>s. ASSUME Same PROVE Goal
  BY <1>s
<1>g. ASSUME NEW t \in Threads, todo[t] # <<>>, todo' = [todo EXCEPT ![t] = Tail(@)],
             t = Monitoring => Write(t) \/ ~Sized
      PROVE  Goal
  <2>1. \A u \in Threads \ {t} : todo'[u] = todo[u]
    BY <1>t, <1>g
  <2>2. todo'[t] = Tail(todo[t])
    BY <1>t, <1>g
  <2> QED BY <1>g, <2>1, <2>2
<1>m. ASSUME NEW q \in MonitoringJobs, todo[Monitoring] = <<>>,
             todo' = [todo EXCEPT ![Monitoring] = q],
             q = <<"create">> => Configure
      PROVE  Goal
  BY <1>t, <1>m
<1>1. ASSUME NEW t \in Threads, Gate(t) PROVE Goal
  BY <1>1, <1>s, <1>g DEF Gate
<1>2. ASSUME NEW t \in Threads, Write(t) PROVE Goal
  <2>1. todo[t] # <<>>
    BY <1>2 DEF Write, Inv, Mutex
  <2>2. Same \/ todo' = [todo EXCEPT ![t] = Tail(@)]
    BY <1>2 DEF Write
  <2> QED BY <1>2, <2>1, <2>2, <1>s, <1>g
<1>3. ASSUME NEW t \in Threads, NewMessage(t) PROVE Goal
  BY <1>3, <1>t DEF NewMessage
<1>4. CASE Read
  <2>1. PICK reply \in {<<>>, <<"data">>} :
           todo' = [todo EXCEPT ![Monitoring] =
                      reply \o (IF Head(toHost).sb = "more" THEN <<"rcv">> ELSE <<>>)]
    BY <1>4 DEF Read
  <2> DEFINE q == reply \o (IF Head(toHost).sb = "more" THEN <<"rcv">> ELSE <<>>)
  <2>2. /\ <<>> \o <<>> = <<>> /\ <<"data">> \o <<>> = <<"data">>
        /\ <<>> \o <<"rcv">> = <<"rcv">> /\ <<"data">> \o <<"rcv">> = <<"data", "rcv">>
    <3>1. /\ <<"data">> \in Seq(Kinds) /\ <<"rcv">> \in Seq(Kinds) /\ <<>> \in Seq(Kinds)
          /\ "rcv" \in Kinds
      BY DEF Kinds
    <3>2. Append(<<"data">>, "rcv") = <<"data">> \o <<"rcv">>
      BY <3>1, AppendIsConcat
    <3>3. Append(<<"data">>, "rcv") = <<"data", "rcv">>
      <4>1. <<"data", "rcv">> \in Seq(Kinds)
        BY DEF Kinds
      <4>2. /\ Append(<<"data">>, "rcv") \in Seq(Kinds)
            /\ Len(Append(<<"data">>, "rcv")) = 2
            /\ Append(<<"data">>, "rcv")[1] = "data" /\ Append(<<"data">>, "rcv")[2] = "rcv"
        BY <3>1, AppendProperties
      <4>3. Len(<<"data", "rcv">>) = 2 /\ <<"data", "rcv">>[1] = "data" /\ <<"data", "rcv">>[2] = "rcv"
        OBVIOUS
      <4> DEFINE two == Append(<<"data">>, "rcv")
                 r == <<"data", "rcv">>
      <4>4. \A i \in 1 .. 2 : two[i] = r[i]
        <5>1. \A i \in 1 .. 2 : i = 1 \/ i = 2
          OBVIOUS
        <5> QED BY <4>2, <4>3, <5>1, Zenon
      <4>5. two \in Seq(Kinds) /\ r \in Seq(Kinds) /\ Len(two) = 2 /\ Len(r) = 2
        BY <4>1, <4>2, <4>3
      <4> HIDE DEF two, r
      <4>6. two = r
        BY <4>4, <4>5, SeqEqual
      <4> QED BY <4>6 DEF two, r
    <3> QED BY <3>1, <3>2, <3>3, ConcatEmptySeq
  <2>3. q \in {<<>>, <<"data">>, <<"rcv">>, <<"data", "rcv">>}
    BY <2>2
  <2>4. <<>> # <<"create">> /\ <<"data">> # <<"create">> /\ <<"rcv">> # <<"create">>
        /\ <<"data", "rcv">> # <<"create">>
    <3>1. <<"data">>[1] = "data" /\ <<"rcv">>[1] = "rcv" /\ <<"create">>[1] = "create"
          /\ Len(<<"data", "rcv">>) = 2 /\ Len(<<"create">>) = 1 /\ Len(<<>>) = 0
      OBVIOUS
    <3> QED BY <3>1
  <2>5. q \in MonitoringJobs /\ q # <<"create">>
    <3> HIDE DEF q
    <3> QED BY <2>3, <2>4 DEF MonitoringJobs
  <2>6. todo[Monitoring] = <<>>
    BY <1>4 DEF Read, Round, Free
  <2> QED BY <2>1, <2>5, <2>6, <1>m
<1>5. CASE Poll
  <2>1. todo[Monitoring] = <<>>
    BY <1>5 DEF Poll, Inv, Mutex
  <2>2. <<"poll">> \in MonitoringJobs /\ <<"poll">> # <<"create">>
    BY DEF MonitoringJobs
  <2> QED BY <1>5, <2>1, <2>2, <1>s, <1>m DEF Poll
<1>6. CASE Configure
  <2>1. todo[Monitoring] = <<>>
    BY <1>6 DEF Configure, Inv, Mutex
  <2>2. <<"create">> \in MonitoringJobs
    BY DEF MonitoringJobs
  <2> QED BY <1>6, <2>1, <2>2, <1>m DEF Configure
<1>7. ASSUME NEW t \in Threads, Acquire(t) \/ Crash(t) PROVE Goal
  BY <1>7, <1>s DEF Acquire, Crash, hostVars
<1>8. CASE ReadMore \/ TakeLock \/ Defer \/ WriteOut \/ WriteFails \/ NothingToWrite \/ Clear \/ Started
  BY <1>8, <1>s DEF ReadMore, TakeLock, Defer, WriteOut, WriteFails, NothingToWrite, Clear, Started
<1>9. CASE ModuleTakesPart \/ ModuleTakes \/ ModuleHasData \/ UNCHANGED vars
  BY <1>9, <1>s DEF ModuleTakesPart, ModuleTakes, ModuleHasData, vars, hostVars
<1> QED BY <1>1, <1>2, <1>3, <1>4, <1>5, <1>6, <1>7, <1>8, <1>9
        DEF Next, Transport, CheckSlot, Restart, Module, Step

\* The answer of the module ends with a T_SB.
LEMMA AnswerWhole ==
    ASSUME TypeOK, NEW kind
    PROVE  Answer(kind) # <<>> => Answer(kind)[Len(Answer(kind))].last
<1> DEFINE data == [i \in 1 .. FRAGMENTS |->
                       [last |-> i = FRAGMENTS, data |-> TRUE,
                        sb |-> IF i = FRAGMENTS THEN "empty" ELSE "none"]]
           sb == [last |-> TRUE, data |-> FALSE, sb |-> Sb(pending)]
<1>1. Len(data) = FRAGMENTS /\ data[FRAGMENTS].last
  <2>1. /\ DOMAIN data = 1 .. FRAGMENTS /\ FRAGMENTS \in Nat \ {0}
        /\ data[FRAGMENTS].last
    <3>1. FRAGMENTS \in Nat \ {0} /\ FRAGMENTS \in 1 .. FRAGMENTS
      BY LinkAssumption
    <3>2. ASSUME NEW i \in 1 .. FRAGMENTS, i = FRAGMENTS PROVE data[i].last
      <4>1. (i = FRAGMENTS) = TRUE
        BY <3>2
      <4>2. data[i].last = (i = FRAGMENTS)
        OBVIOUS
      <4> QED BY <4>1, <4>2
    <3>4. data[FRAGMENTS].last
      BY <3>1, <3>2
    <3> QED BY <3>1, <3>4
  <2>2. data \in [1 .. FRAGMENTS -> ModulePackets]
    BY DEF ModulePackets
  <2>3. data \in Seq(ModulePackets)
    BY <2>1, <2>2, SeqDef
  <2> HIDE DEF data
  <2>4. Len(data) = FRAGMENTS
    BY <2>1, <2>3, LenProperties
  <2> QED BY <2>1, <2>4
<1>2. Len(<<sb>>) = 1 /\ <<sb>>[1].last
  OBVIOUS
<1> HIDE DEF data
<1> QED BY <1>1, <1>2 DEF Answer, data

LEMMA AnswerEndsStep == TypeOK /\ AnswerEnds /\ [Next]_vars => AnswerEnds'
<1> SUFFICES ASSUME TypeOK, AnswerEnds, [Next]_vars PROVE AnswerEnds'
  OBVIOUS
<1> USE DEF AnswerEnds
<1>1. CASE toHost' = toHost
  BY <1>1
<1>2. CASE toHost # <<>> /\ toHost' = Tail(toHost)
  <2>1. /\ Len(toHost') = Len(toHost) - 1 /\ toHost' \in Seq(ModulePackets)
        /\ \A i \in 1 .. Len(toHost') : toHost'[i] = toHost[i + 1]
    BY <1>2, HeadTailProperties DEF TypeOK
  <2>2. toHost' # <<>> => Len(toHost') \in Nat \ {0}
    BY <2>1, EmptySeq, LenProperties
  <2> QED BY <1>2, <2>1, <2>2
<1>3. CASE ModuleTakes
  BY <1>3, AnswerWhole DEF ModuleTakes
<1>4. CASE Configure
  BY <1>4 DEF Configure
<1>5. ASSUME NEW t \in Threads, Transport(t) \/ NewMessage(t) PROVE toHost' = toHost
  BY <1>5 DEF Transport, Step, Gate, Acquire, Write, Crash, NewMessage, moduleVars
<1>6. CASE ReadMore \/ Read
  BY <1>2, <1>6 DEF ReadMore, Read
<1>7. CASE TakeLock \/ Defer \/ WriteOut \/ WriteFails \/ NothingToWrite \/ Poll \/ Clear \/ Started
  BY <1>1, <1>7 DEF TakeLock, Defer, WriteOut, WriteFails, NothingToWrite, Poll, Clear, Started, moduleVars
<1>8. CASE ModuleTakesPart \/ ModuleHasData \/ UNCHANGED vars
  BY <1>1, <1>8 DEF ModuleTakesPart, ModuleHasData, vars, moduleVars
<1> QED BY <1>1, <1>3, <1>4, <1>5, <1>6, <1>7, <1>8
        DEF Next, CheckSlot, Restart, Module, Step

LEMMA AppendCreate ==
    ASSUME NEW q \in Seq(HostPackets), NEW p \in HostPackets, HasCreate(q) \/ IsCreate(p)
    PROVE  HasCreate(Append(q, p))
BY AppendProperties, LenProperties DEF HasCreate

LEMMA CreateSomewhere == \A q : HasCreate(q) => q # <<>>
<1>1. ~HasCreate(<<>>)
  <2>1. 1 .. Len(<<>>) = {}
    BY NoPackets
  <2> QED BY <2>1 DEF HasCreate
<1> QED BY <1>1

LEMMA TailCreate ==
    ASSUME NEW q \in Seq(HostPackets), q # <<>>, HasCreate(q)
    PROVE  HasCreate(Tail(q)) \/ IsCreate(Head(q))
<1>1. PICK i \in 1 .. Len(q) : IsCreate(q[i])
  BY DEF HasCreate
<1>2. /\ Len(q) \in Nat /\ Len(Tail(q)) = Len(q) - 1 /\ Head(q) = q[1]
      /\ \A j \in 1 .. Len(Tail(q)) : Tail(q)[j] = q[j + 1]
  BY HeadTailProperties, LenProperties
<1>3. CASE i = 1
  BY <1>1, <1>2, <1>3
<1>4. CASE i # 1
  <2>1. i - 1 \in 1 .. Len(Tail(q)) /\ Tail(q)[i - 1] = q[i]
    BY <1>1, <1>2, <1>4
  <2> QED BY <1>1, <2>1 DEF HasCreate
<1> QED BY <1>3, <1>4

\* Before T_CREATE is queued nothing happens in the slot but that the senders
\* write what they had begun.
LEMMA CreateWaits ==
    ASSUME Inv, JobsKnown, CreateFirst, [Next]_vars, todo[Monitoring] = <<"create">>,
           \A t \in Threads : ~Write(t)
    PROVE  UNCHANGED <<sendq, link, part, todo>>
<1>0. link = "sized" /\ at = "check" /\ todo[Monitoring] # <<>> /\ Sized
  BY DEF CreateFirst, Inv, Mutex, Sized
<1>1. ASSUME NEW t \in Threads, Gate(t) \/ Acquire(t) \/ Crash(t) \/ NewMessage(t)
      PROVE  UNCHANGED <<sendq, link, part, todo>>
  BY <1>0, <1>1 DEF Gate, Acquire, Crash, NewMessage, hostVars
<1>2. CASE CheckSlot
  BY <1>0, <1>2 DEF CheckSlot, Step, ReadMore, Read, TakeLock, Defer, WriteOut, WriteFails,
                    NothingToWrite, Poll, Round
<1>3. CASE Restart
  BY <1>0, <1>3 DEF Restart, Step, Clear, Configure, Started, Free
<1>4. CASE Module \/ UNCHANGED vars
  BY <1>4 DEF Module, Step, ModuleTakesPart, ModuleTakes, ModuleHasData, vars, hostVars
<1> QED BY <1>1, <1>2, <1>3, <1>4 DEF Next, Transport, Step

LEMMA CreateFirstStep == Inv /\ JobsKnown /\ CreateFirst /\ [Next]_vars => CreateFirst'
<1> SUFFICES ASSUME Inv, JobsKnown, CreateFirst, [Next]_vars, todo'[Monitoring] = <<"create">>
             PROVE  CreateFirst'
  BY DEF CreateFirst
<1>1. CASE Configure
  <2>1. sendq' = <<>> /\ link' = "sized"
    BY <1>1 DEF Configure, Inv, Mutex
  <2> QED BY <2>1, NoPackets DEF CreateFirst
<1>2. CASE ~Configure
  <2>0. todo[Monitoring] = <<"create">>
    BY <1>2, TodoStep
  <2>1. CASE \A t \in Threads : ~Write(t)
    BY <2>0, <2>1, CreateWaits DEF CreateFirst
  <2>2. ASSUME NEW t \in Threads, Write(t) PROVE CreateFirst'
    <3> DEFINE p == Packet(t, Head(todo[t]), part[t])
    <3>0. sending[t] = "write" /\ todo[t] # <<>> /\ todo \in [Threads -> Seq(Kinds)]
      BY <2>2 DEF Write, Inv, Mutex, TypeOK
    <3>1. t \in Senders
      <4>1. ASSUME t = Monitoring PROVE FALSE
        <5>1. part[t] = 1 /\ Packets(t) = 1
          BY <4>1, MonitoringFacts DEF Inv, TypeOK, Mutex
        <5>2. p.last
          BY <5>1 DEF Packet
        <5>3. todo' = [todo EXCEPT ![t] = Tail(@)]
          BY <2>2, <5>2 DEF Write
        <5> QED BY <2>0, <4>1, <5>3, <3>0, MonitoringFacts
      <4> QED BY <4>1, MonitoringFacts
    <3>2. todo[t] = <<"data">>
      BY <3>0, <3>1 DEF JobsKnown
    <3>3. p \in HostPackets /\ p.from = t /\ p.part = part[t]
      <4>1. p \in HostPackets
        BY <3>0, PacketType DEF Inv
      <4> QED BY <4>1 DEF Packet
    <3>4. /\ sendq' = Put(p) /\ link' = link
          /\ \A u \in Senders \ {t} : todo'[u] = todo[u] /\ part'[u] = part[u]
          /\ todo'[t] = <<>> \/ part[t] < part'[t]
      <4>1. part \in [Threads -> 1 .. FRAGMENTS] /\ FRAGMENTS \in Nat
        BY LinkAssumption DEF Inv, TypeOK
      <4>2. CASE p.last
        BY <2>2, <3>0, <3>1, <3>2, <4>1, <4>2, MonitoringFacts DEF Write
      <4>3. CASE ~p.last
        <5>1. part' = [part EXCEPT ![t] = @ + 1] /\ todo' = todo /\ sendq' = Put(p) /\ link' = link
          BY <2>2, <4>3 DEF Write
        <5> QED BY <3>1, <4>1, <5>1, MonitoringFacts
      <4> QED BY <4>2, <4>3
    <3> HIDE DEF p
    <3>5. /\ sendq \in Seq(HostPackets) /\ Len(sendq) \in Nat
          /\ link = "sized"
          /\ \A i \in 1 .. Len(sendq) :
                /\ sendq[i].from \in Senders
                /\ todo[sendq[i].from] = <<>> \/ sendq[i].part < part[sendq[i].from]
                /\ \A j \in 1 .. Len(sendq) :
                    sendq[j].from = sendq[i].from /\ sendq[j].part = sendq[i].part => j = i
      BY <2>0, LenProperties DEF Inv, TypeOK, CreateFirst
    <3>6. \A i \in 1 .. Len(sendq) : sendq[i].from = t => sendq[i].part < part[t]
      BY <3>2, <3>5, MonitoringFacts
    <3>t. \A i \in 1 .. Len(sendq) : sendq[i].part \in Int
      <4>1. \A i \in 1 .. Len(sendq) : sendq[i] \in HostPackets
        BY <3>5
      <4> QED BY <4>1, LinkAssumption DEF HostPackets
    <3>p. part[t] \in Int /\ (todo'[t] # <<>> => part'[t] \in Int)
      <4>1. part' \in [Threads -> 1 .. FRAGMENTS] /\ part \in [Threads -> 1 .. FRAGMENTS]
        BY InvStep DEF Inv, TypeOK
      <4> QED BY <4>1, LinkAssumption
    <3>7. CASE sendq' = sendq
      <4>1. \A i \in 1 .. Len(sendq) : todo'[sendq[i].from] = <<>> \/ sendq[i].part < part'[sendq[i].from]
        BY <3>4, <3>5, <3>6, <3>t, <3>p
      <4> QED BY <3>4, <3>5, <3>7, <4>1 DEF CreateFirst
    <3>8. CASE sendq' = Append(sendq, p)
      <4>1. /\ Len(sendq') = Len(sendq) + 1
            /\ \A i \in 1 .. Len(sendq) : sendq'[i] = sendq[i]
            /\ sendq'[Len(sendq) + 1] = p
        BY <3>3, <3>5, <3>8, AppendProperties
      <4>2. \A i \in 1 .. Len(sendq') :
                /\ sendq'[i].from \in Senders
                /\ todo'[sendq'[i].from] = <<>> \/ sendq'[i].part < part'[sendq'[i].from]
        BY <3>1, <3>3, <3>4, <3>5, <3>6, <3>t, <3>p, <4>1
      <4>3. \A i, j \in 1 .. Len(sendq') :
                sendq'[j].from = sendq'[i].from /\ sendq'[j].part = sendq'[i].part => j = i
        <5>1. ASSUME NEW i \in 1 .. Len(sendq'), NEW j \in 1 .. Len(sendq'),
                     sendq'[j].from = sendq'[i].from, sendq'[j].part = sendq'[i].part
              PROVE  j = i
          <6>1. CASE i \in 1 .. Len(sendq) /\ j \in 1 .. Len(sendq)
            BY <3>5, <4>1, <5>1, <6>1
          <6>2. CASE i = Len(sendq) + 1 /\ j \in 1 .. Len(sendq)
            BY <3>3, <3>6, <3>t, <3>p, <4>1, <5>1, <6>2
          <6>3. CASE i \in 1 .. Len(sendq) /\ j = Len(sendq) + 1
            BY <3>3, <3>6, <3>t, <3>p, <4>1, <5>1, <6>3
          <6>4. CASE i = Len(sendq) + 1 /\ j = Len(sendq) + 1
            BY <6>4
          <6> QED BY <3>5, <4>1, <6>1, <6>2, <6>3, <6>4
        <5> QED BY <5>1
      <4> QED BY <3>4, <3>5, <4>2, <4>3 DEF CreateFirst
    <3> QED BY <3>4, <3>7, <3>8 DEF Put
  <2> QED BY <2>1, <2>2
<1> QED BY <1>1, <1>2

\* As many numbers from 1 to n as n.
LEMMA CountUp == \A n \in Nat : IsFiniteSet(1 .. n) /\ Cardinality(1 .. n) = n
<1> SUFFICES ASSUME NEW n \in Nat PROVE IsFiniteSet(1 .. n) /\ Cardinality(1 .. n) = n
  OBVIOUS
<1>1. /\ IsFiniteSet(1 .. n)
      /\ Cardinality(1 .. n) = IF 1 > n THEN 0 ELSE n - 1 + 1
  BY FS_Interval
<1>2. (IF 1 > n THEN 0 ELSE n - 1 + 1) = n
  OBVIOUS
<1> QED BY <1>1, <1>2

\* So T_CREATE finds a free entry.
LEMMA RoomForCreate ==
    ASSUME Inv, CreateFirst, QueueRoom, todo[Monitoring] = <<"create">>
    PROVE  Len(sendq) < CI_T_SENDQSIZE
<1> DEFINE I == 1 .. Len(sendq)
           T == Senders \X (1 .. FRAGMENTS)
           f == [i \in I |-> <<sendq[i].from, sendq[i].part>>]
<1>1. /\ sendq \in Seq(HostPackets) /\ Len(sendq) \in Nat
      /\ FRAGMENTS \in Nat \ {0} /\ CI_T_SENDQSIZE \in Nat
  BY LinkAssumption, LenProperties DEF Inv, TypeOK
<1>2. \A i \in I : sendq[i].from \in Senders /\ sendq[i].part \in 1 .. FRAGMENTS
  <2>1. \A i \in I : sendq[i] \in HostPackets
    BY <1>1
  <2> QED BY <2>1 DEF HostPackets, CreateFirst
<1>3. f \in [I -> T]
  BY <1>2
<1>4. \A i, j \in I : f[i] = f[j] => i = j
  BY DEF CreateFirst
<1>5. f \in Injection(I, T)
  BY <1>3, <1>4 DEF Injection, IsInjective
<1>6. IsFiniteSet(Senders) /\ IsFiniteSet(1 .. FRAGMENTS) /\ Cardinality(1 .. FRAGMENTS) = FRAGMENTS
  BY <1>1, CountUp DEF QueueRoom
<1>7. IsFiniteSet(T) /\ Cardinality(T) = Cardinality(Senders) * FRAGMENTS
  BY <1>6, FS_Product
<1>8. Cardinality(I) = Len(sendq)
  BY <1>1, CountUp
<1> HIDE DEF I, T, f
<1>9. Cardinality(I) <= Cardinality(T)
  BY <1>5, <1>7, FS_Injection
<1>10. Cardinality(T) \in Nat
  BY <1>7, FS_CardinalityType
<1> QED BY <1>1, <1>7, <1>8, <1>9, <1>10 DEF QueueRoom

\* The steps that touch neither queue, and by which no slot starts.
LEMMA QueuesStill ==
    ASSUME Inv, [Next]_vars, \A t \in Threads : ~Write(t),
           ~WriteOut, ~Clear, ~Configure, ~ModuleTakesPart, ~ModuleTakes
    PROVE  /\ UNCHANGED <<sendq, toModule, created, broken>>
           /\ link' \in {"sized", "up"} => link \in {"sized", "up"}
<1>1. ASSUME NEW t \in Threads, Gate(t) \/ Acquire(t) \/ Crash(t) \/ NewMessage(t)
      PROVE  UNCHANGED <<sendq, toModule, created, broken, link>>
  BY <1>1 DEF Gate, Acquire, Crash, NewMessage, hostVars, moduleVars, history
<1>2. CASE ReadMore \/ Read \/ TakeLock \/ Defer \/ NothingToWrite \/ Poll
  BY <1>2 DEF ReadMore, Read, TakeLock, Defer, NothingToWrite, Poll, moduleVars, history
<1>3. CASE WriteFails
  BY <1>3 DEF WriteFails, moduleVars
<1>4. CASE Started
  BY <1>4 DEF Started, moduleVars, history
<1>5. CASE ModuleHasData \/ UNCHANGED vars
  BY <1>5 DEF ModuleHasData, vars, hostVars, moduleVars, history
<1> QED BY <1>1, <1>2, <1>3, <1>4, <1>5 DEF Next, Transport, CheckSlot, Restart, Module, Step

\* What SendTransportPacket writes: the queue is not empty after it, and has
\* T_CREATE if it had it or if it is written.
LEMMA WriteCreate ==
    ASSUME Inv, JobsKnown, CreateFirst, QueueRoom, NEW t \in Threads, Write(t)
    PROVE  /\ sendq' # <<>>
           /\ HasCreate(sendq) => HasCreate(sendq')
           /\ todo[Monitoring] = <<"create">> =>
                todo'[Monitoring] = <<"create">> \/ HasCreate(sendq')
           /\ UNCHANGED <<link, toModule, created>> /\ (broken => broken')
<1> DEFINE p == Packet(t, Head(todo[t]), part[t])
<1>1. /\ sending[t] = "write" /\ todo \in [Threads -> Seq(Kinds)]
      /\ sendq' = Put(p) /\ broken' = (broken \/ Cuts(p))
      /\ UNCHANGED <<link, toModule, created>>
      /\ todo' = todo \/ todo' = [todo EXCEPT ![t] = Tail(@)]
  BY DEF Write, Inv, TypeOK, moduleVars
<1>2. p \in HostPackets
  BY <1>1, PacketType DEF Inv
<1>3. t = Monitoring /\ todo[t] = <<"create">> => IsCreate(p)
  <2>1. ASSUME t = Monitoring, todo[t] = <<"create">> PROVE IsCreate(p)
    <3>1. part[t] = 1 /\ Packets(t) = 1
      BY <2>1, MonitoringFacts DEF Inv, TypeOK, Mutex
    <3>2. Head(todo[t]) = "create"
      BY <2>1
    <3> QED BY <3>1, <3>2 DEF IsCreate, Packet
  <2> QED BY <2>1
<1> HIDE DEF p
<1>4. sendq \in Seq(HostPackets) /\ Len(sendq) \in Nat /\ CI_T_SENDQSIZE \in Nat \ {0}
  BY LinkAssumption, LenProperties DEF Inv, TypeOK
<1>5. CASE Len(sendq) < CI_T_SENDQSIZE
  <2>1. sendq' = Append(sendq, p)
    BY <1>1, <1>5 DEF Put
  <2>2. sendq' # <<>>
    BY <1>2, <1>4, <2>1, AppendProperties
  <2>3. HasCreate(sendq) \/ IsCreate(p) => HasCreate(sendq')
    BY <1>2, <1>4, <2>1, AppendCreate
  <2>4. t # Monitoring => todo'[Monitoring] = todo[Monitoring]
    BY <1>1, MonitoringFacts
  <2> QED BY <1>1, <1>3, <2>2, <2>3, <2>4
<1>6. CASE ~(Len(sendq) < CI_T_SENDQSIZE)
  <2>1. sendq' = sendq /\ sendq # <<>>
    BY <1>1, <1>4, <1>6, NoPackets DEF Put
  <2>2. todo[Monitoring] # <<"create">>
    BY <1>6, RoomForCreate
  <2> QED BY <1>1, <2>1, <2>2
<1> QED BY <1>5, <1>6

LEMMA CreateComesStep ==
    QueueRoom /\ Inv /\ JobsKnown /\ CreateFirst /\ CreateComes /\ [Next]_vars => CreateComes'
<1> SUFFICES ASSUME QueueRoom, Inv, JobsKnown, CreateFirst, CreateComes, [Next]_vars,
                    link' \in {"sized", "up"}, ~created'
             PROVE  todo'[Monitoring] = <<"create">> \/ HasCreate(toModule') \/ HasCreate(sendq')
  BY DEF CreateComes, HasCreate, IsCreate
<1> DEFINE Goal == todo'[Monitoring] = <<"create">> \/ HasCreate(toModule') \/ HasCreate(sendq')
<1>t. toModule \in Seq(HostPackets) /\ sendq \in Seq(HostPackets) /\ todo \in [Threads -> Seq(Kinds)]
  BY DEF Inv, TypeOK
<1>c. link \in {"sized", "up"} /\ ~created =>
        todo[Monitoring] = <<"create">> \/ HasCreate(toModule) \/ HasCreate(sendq)
  BY DEF CreateComes
<1>k. ASSUME link \in {"sized", "up"}, todo[Monitoring] = <<"create">>, \A t \in Threads : ~Write(t)
      PROVE  todo'[Monitoring] = <<"create">>
  BY <1>k, CreateWaits
<1>1. ASSUME NEW t \in Threads, Write(t) PROVE Goal
  BY <1>1, <1>c, WriteCreate
<1>2. CASE WriteOut
  <2>1. /\ sendq # <<>> /\ sendq' = Tail(sendq) /\ toModule' = Append(toModule, Head(sendq))
        /\ UNCHANGED <<link, created, todo>>
    BY <1>2 DEF WriteOut, history
  <2>2. Head(sendq) \in HostPackets
    BY <1>t, <2>1, HeadTailProperties
  <2>3. HasCreate(toModule) \/ IsCreate(Head(sendq)) => HasCreate(toModule')
    BY <1>t, <2>1, <2>2, AppendCreate
  <2>4. HasCreate(sendq) => HasCreate(sendq') \/ IsCreate(Head(sendq))
    BY <1>t, <2>1, TailCreate
  <2> QED BY <1>c, <2>1, <2>3, <2>4
<1>3. CASE Clear
  BY <1>3 DEF Clear
<1>4. CASE Configure
  BY <1>4, <1>t, MonitoringFacts DEF Configure
<1>5. CASE ModuleTakesPart \/ ModuleTakes
  <2>0. /\ toModule # <<>> /\ toModule' = Tail(toModule)
        /\ UNCHANGED <<link, sendq, todo>>
    BY <1>5 DEF ModuleTakesPart, ModuleTakes, hostVars
  <2>1. ~IsCreate(Head(toModule)) /\ ~created
    <3>1. ModuleTakesPart => ~IsCreate(Head(toModule)) /\ created' = created
      BY DEF ModuleTakesPart, IsCreate
    <3>2. ModuleTakes => created' = (created \/ Head(toModule).kind = "create")
      BY DEF ModuleTakes
    <3>3. created' = (created \/ Head(toModule).kind = "create")
            => ~created /\ Head(toModule).kind # "create"
      OBVIOUS
    <3> QED BY <1>5, <3>1, <3>2, <3>3 DEF IsCreate
  <2>2. HasCreate(toModule) => HasCreate(toModule')
    BY <1>t, <2>0, <2>1, TailCreate
  <2> QED BY <1>c, <2>0, <2>1, <2>2
<1>6. CASE /\ \A t \in Threads : ~Write(t)
           /\ ~WriteOut /\ ~Clear /\ ~Configure /\ ~ModuleTakesPart /\ ~ModuleTakes
  <2>1. /\ UNCHANGED <<sendq, toModule, created>>
        /\ link \in {"sized", "up"}
    BY <1>6, QueuesStill
  <2> QED BY <1>c, <1>k, <1>6, <2>1
<1> QED BY <1>1, <1>2, <1>3, <1>4, <1>5, <1>6

LEMMA AliveStep == QueueRoom /\ LiveInv /\ [Next]_vars => Alive'
<1> SUFFICES ASSUME QueueRoom, LiveInv, [Next]_vars, link' \in {"sized", "up"}, ~broken'
             PROVE  \/ fGotPollAck'
                    \/ sendq' # <<>> \/ toModule' # <<>> \/ toHost' # <<>>
                    \/ todo'[Monitoring] # <<>>
  BY DEF Alive
<1> DEFINE Goal == \/ fGotPollAck'
                   \/ sendq' # <<>> \/ toModule' # <<>> \/ toHost' # <<>>
                   \/ todo'[Monitoring] # <<>>
<1>i. Inv /\ JobsKnown /\ AnswerEnds /\ CreateFirst /\ CreateComes /\ Alive
  BY DEF LiveInv
<1>t. /\ toModule \in Seq(HostPackets) /\ sendq \in Seq(HostPackets) /\ toHost \in Seq(ModulePackets)
      /\ begun \in Seq(HostPackets) /\ todo \in [Threads -> Seq(Kinds)]
      /\ Monitoring \in Threads /\ <<"create">> # <<>> /\ <<"poll">> # <<>>
  BY <1>i, MonitoringFacts DEF Inv, TypeOK
<1>1. ASSUME NEW t \in Threads, Write(t) PROVE Goal
  BY <1>1, <1>i, WriteCreate
<1>2. CASE WriteOut
  <2>1. toModule' = Append(toModule, Head(sendq)) /\ Head(sendq) \in HostPackets
    BY <1>2, <1>t, HeadTailProperties DEF WriteOut
  <2> QED BY <1>t, <2>1, AppendProperties
<1>3. CASE Clear
  BY <1>3 DEF Clear
<1>4. CASE Configure
  BY <1>4, <1>t DEF Configure
<1>5. CASE ModuleTakesPart
  <2>1. /\ toModule # <<>> /\ ~Head(toModule).last /\ toModule' = Tail(toModule)
        /\ UNCHANGED <<link, sendq, broken, part>>
    BY <1>5 DEF ModuleTakesPart, hostVars, history
  <2>2. ASSUME sendq = <<>>, Tail(toModule) = <<>> PROVE FALSE
    <3>1. \A t \in Threads : part[t] = 1
      <4>1. \A t \in Threads : ~(part[t] > 1)
        BY <1>i, <2>1, <2>2 DEF Inv, Middle, Sized
      <4>2. \A t \in Threads : part[t] \in 1 .. FRAGMENTS
        BY <1>i DEF Inv, TypeOK
      <4> QED BY <4>1, <4>2, LinkAssumption
    <3>2. Stream = begun \o toModule
      BY <1>t, <2>2, ConcatProperties, ConcatEmptySeq DEF Stream
    <3>3. Len(toModule) = 1 /\ Len(begun) \in Nat
      <4>1. Len(Tail(toModule)) = Len(toModule) - 1 /\ Len(toModule) \in Nat
        BY <1>t, <2>1, HeadTailProperties, LenProperties
      <4>2. Len(Tail(toModule)) = 0
        BY <2>2, NoPackets
      <4> QED BY <1>t, <4>1, <4>2, LenProperties
    <3>4. /\ Len(Stream) = Len(begun) + 1
          /\ Stream[Len(begun) + 1] = toModule[1] /\ Stream \in Seq(HostPackets)
      <4>1. /\ begun \o toModule \in Seq(HostPackets)
            /\ Len(begun \o toModule) = Len(begun) + Len(toModule)
            /\ \A i \in 1 .. Len(begun) + Len(toModule) : (begun \o toModule)[i] =
                   IF i <= Len(begun) THEN begun[i] ELSE toModule[i - Len(begun)]
        BY <1>t, ConcatProperties
      <4>2. /\ Len(begun) + 1 \in 1 .. Len(begun) + Len(toModule)
            /\ ~(Len(begun) + 1 <= Len(begun))
            /\ (Len(begun) + 1) - Len(begun) = 1
        BY <3>3
      <4>3. (begun \o toModule)[Len(begun) + 1] = toModule[1]
        <5>1. (begun \o toModule)[Len(begun) + 1] =
                 IF Len(begun) + 1 <= Len(begun) THEN begun[Len(begun) + 1]
                 ELSE toModule[(Len(begun) + 1) - Len(begun)]
          BY <4>1, <4>2
        <5> QED BY <4>2, <5>1
      <4> QED BY <3>2, <3>3, <4>1, <4>3
    <3>5. Stream # <<>> /\ Head(toModule) = toModule[1]
      BY <1>t, <2>1, <3>3, <3>4, NoPackets
    <3>6. Stream[Len(Stream)].last
      BY <1>i, <2>1, <3>1, <3>5 DEF Inv, Middle, Sized
    <3> QED BY <2>1, <3>4, <3>5, <3>6
  <2> QED BY <2>1, <2>2
<1>6. CASE ModuleTakes
  <2>1. /\ toModule # <<>> /\ toModule' = Tail(toModule)
        /\ toHost' = Answer(Head(toModule).kind)
        /\ UNCHANGED <<link, sendq, broken, todo>>
    BY <1>6 DEF ModuleTakes, hostVars, history
  <2>2. CASE created \/ Head(toModule).kind = "create"
    <3>1. toHost' # <<>>
      <4> DEFINE data == [i \in 1 .. FRAGMENTS |->
                             [last |-> i = FRAGMENTS, data |-> TRUE,
                              sb |-> IF i = FRAGMENTS THEN "empty" ELSE "none"]]
      <4>1. data # <<>>
        <5>1. DOMAIN data = 1 .. FRAGMENTS /\ 1 \in DOMAIN data
          BY LinkAssumption
        <5>2. DOMAIN <<>> = {}
          OBVIOUS
        <5> HIDE DEF data
        <5> QED BY <5>1, <5>2
      <4>2. <<[last |-> TRUE, data |-> FALSE, sb |-> Sb(pending)]>> # <<>>
        OBVIOUS
      <4> HIDE DEF data
      <4> QED BY <2>1, <2>2, <4>1, <4>2 DEF Answer, data
    <3> QED BY <3>1
  <2>3. CASE ~created /\ Head(toModule).kind # "create"
    <3>1. todo[Monitoring] = <<"create">> \/ HasCreate(toModule) \/ HasCreate(sendq)
      BY <1>i, <2>1, <2>3 DEF CreateComes
    <3>2. HasCreate(toModule) => HasCreate(Tail(toModule))
      BY <1>t, <2>1, <2>3, TailCreate DEF IsCreate
    <3>3. HasCreate(Tail(toModule)) => Tail(toModule) # <<>>
      BY CreateSomewhere
    <3>4. HasCreate(sendq) => sendq # <<>>
      BY CreateSomewhere
    <3> QED BY <1>t, <2>1, <3>1, <3>2, <3>3, <3>4
  <2> QED BY <2>2, <2>3
<1>7. CASE ReadMore
  <2>1. toHost # <<>> /\ ~Head(toHost).last /\ toHost' = Tail(toHost)
    BY <1>7 DEF ReadMore
  <2>2. /\ Len(Tail(toHost)) = Len(toHost) - 1 /\ Len(toHost) \in Nat \ {0}
        /\ Head(toHost) = toHost[1]
    BY <1>t, <2>1, HeadTailProperties, EmptySeq
  <2>3. Len(toHost) # 1
    BY <1>i, <2>1, <2>2 DEF AnswerEnds
  <2>4. Len(Tail(toHost)) # 0
    BY <2>2, <2>3
  <2> QED BY <2>1, <2>4, NoPackets
<1>8. CASE Read
  BY <1>8 DEF Read
<1>9. CASE Poll /\ ~(sendq = <<>> /\ fGotPollAck)
  <2>1. UNCHANGED <<fGotPollAck, sendq, toModule, toHost, todo, link, broken>>
    BY <1>9 DEF Poll, moduleVars, history
  <2> QED BY <1>i, <2>1 DEF Alive
<1>10. CASE Poll /\ sendq = <<>> /\ fGotPollAck
  BY <1>10, <1>t DEF Poll
<1>11. CASE /\ \A t \in Threads : ~Write(t)
            /\ ~WriteOut /\ ~Clear /\ ~Configure /\ ~ModuleTakesPart /\ ~ModuleTakes
            /\ ~ReadMore /\ ~Read /\ ~Poll
  <2>1. UNCHANGED <<sendq, toModule, broken>> /\ link \in {"sized", "up"}
    BY <1>11, <1>i, QueuesStill
  <2>2. UNCHANGED <<fGotPollAck, toHost>>
    <3>1. ASSUME NEW t \in Threads, Gate(t) \/ Acquire(t) \/ Crash(t) \/ NewMessage(t)
          PROVE  UNCHANGED <<fGotPollAck, toHost>>
      BY <3>1 DEF Gate, Acquire, Crash, NewMessage, hostVars, moduleVars
    <3>2. CASE TakeLock \/ Defer \/ NothingToWrite \/ WriteFails \/ Started
      BY <3>2 DEF TakeLock, Defer, NothingToWrite, WriteFails, Started, moduleVars
    <3>3. CASE ModuleHasData \/ UNCHANGED vars
      BY <3>3 DEF ModuleHasData, vars, hostVars, moduleVars
    <3> QED BY <1>11, <3>1, <3>2, <3>3 DEF Next, Transport, CheckSlot, Restart, Module, Step
  <2>3. todo[Monitoring] # <<>> => todo'[Monitoring] = todo[Monitoring]
    BY <1>11, <1>i, <1>t, <2>1, TodoStep DEF Sized
  <2> QED BY <1>i, <2>1, <2>2, <2>3 DEF Alive
<1> QED BY <1>1, <1>2, <1>3, <1>4, <1>5, <1>6, <1>7, <1>8, <1>9, <1>10, <1>11

LEMMA LiveInit == Init => LiveInv
<1> SUFFICES ASSUME Init PROVE LiveInv
  OBVIOUS
<1>1. \A t \in Threads : todo[t] = <<>>
  BY DEF Init
<1>2. JobsKnown
  BY <1>1, MonitoringFacts DEF JobsKnown, MonitoringJobs
<1>3. AnswerEnds /\ CreateComes /\ Alive
  BY DEF Init, AnswerEnds, CreateComes, Alive
<1>4. todo[Monitoring] # <<"create">>
  <2>1. <<>> # <<"create">>
    OBVIOUS
  <2> QED BY <1>1, <2>1, MonitoringFacts
<1> QED BY <1>2, <1>3, <1>4, InitInv DEF LiveInv, CreateFirst

LEMMA LiveStep == QueueRoom /\ LiveInv /\ [Next]_vars => LiveInv'
BY InvStep, TodoStep, AnswerEndsStep, CreateFirstStep, CreateComesStep, AliveStep DEF LiveInv, Inv

\* Host and module never both wait for the other, for any number of threads
\* whose messages fit the queue together, any length of messages and of the
\* queue, and any number of restarts.
THEOREM SomeoneMovesHolds == QueueRoom => (Spec => []SomeoneMoves)
<1> SUFFICES ASSUME QueueRoom PROVE Spec => []SomeoneMoves
  OBVIOUS
<1>1. LiveInv => SomeoneMoves
  BY DEF LiveInv, Alive, SomeoneMoves
<1>2. LiveInv /\ [Next]_vars => LiveInv'
  BY LiveStep
<1> QED BY <1>1, <1>2, LiveInit, PTL DEF Spec

=============================================================================
