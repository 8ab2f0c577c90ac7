--------------------------- MODULE Routing_proofs ---------------------------
(***************************************************************************)
(* Machine-checked facts about Routing, for every number of slots below    *)
(* MAX_DEST, all channels, streams and programs, and every bound.          *)
(***************************************************************************)
EXTENDS Routing, TLAPS, FiniteSetTheorems

\* The tables as a roll back of the request under way would leave them.
Back == [tab EXCEPT !.dest[Now.item] = job.keep.dest,
                    !.bypass = IF Now.item \in Streams
                               THEN [@ EXCEPT ![Now.item] = job.keep.bypass] ELSE @]

(* While messages are under way the table holds the new destinations, and  *)
(* what a roll back would bring back is as sound as what it replaces: no   *)
(* other request or scan gets in between.                                  *)
JobOK ==
    /\ job.at # "idle" => job.who \in {"web", "scan"}
    /\ job.at = "send" =>
        /\ tab.dest[Now.item] = Now.dest
        /\ \A s \in Slots : /\ job.del[s] \subseteq job.keep.dest[s] \ Now.dest[s]
                            /\ job.add[s] \subseteq Now.dest[s] \ job.keep.dest[s]
        /\ ~Clash(Back) /\ ListedOK(Back)
        /\ boot = "up" => SlotsUsed(Back) \subseteq job.keep.record
        /\ job.keep.dest = stored.dest[Now.item] \/ job.keep.dest = NoDest

(* A scan has one stream and all its programs that are still in the tables *)
(* to take out, and the stream's own destinations go first.                *)
ScanOf(t) ==
    /\ \A k \in DOMAIN job.todo : job.todo[k].item \in {t} \cup ProgsOf(t)
    /\ \A p \in ProgsOf(t) \cap tab.listed : \E k \in DOMAIN job.todo : job.todo[k].item = p
    /\ tab.dest[t] = NoDest \/ job.todo[1].item = t
    /\ \A k \in 2..Len(job.todo) : job.todo[k].item \in Programs
ScanOK ==
    job.who = "scan" =>
        /\ \A k \in DOMAIN job.todo : job.todo[k].dest = NoDest
        /\ \E t \in Streams : ScanOf(t)

\* A board whose clearing waits for the mutex puts nothing out, but for what was sent to it since.
PendOK == \A e \in Entries \ suspect : e[2] \in pend => e[3] \notin board[e[2]][e[1]]

(* What was last given to the file has every destination in force, but for *)
(* what a scan took off and could not finish with.                         *)
InFile ==
    \A i \in Items :
        \/ tab.dest[i] = stored.dest[i] \/ tab.dest[i] = NoDest
        \/ job.at = "send" /\ i = Now.item

Inv == TypeOK /\ NoConflict /\ NothingUnlisted /\ RecordCovers /\ InStep /\ InFile
              /\ JobOK /\ ScanOK /\ PendOK

-----------------------------------------------------------------------------
(* Facts about the data.                                                   *)

Keeps == [dest : Dests, bypass : Dests, record : SUBSET Slots]
Jobs == [who : {"nobody", "web", "scan"}, at : {"idle", "check", "send"}, todo : Seq(Requests),
         del : Dests, add : Dests, keep : Keeps]

LEMMA NoDestType == NoDest \in Dests
BY DEF NoDest, Dests

LEMMA NoJobType == NoJob \in Jobs /\ NoJob.at = "idle" /\ NoJob.who = "nobody" /\ NoJob.todo = << >>
BY NoDestType DEF NoJob, Jobs, Keeps

LEMMA JobType ==
    ASSUME NEW w \in {"web", "scan"}, NEW l \in Seq(Requests), l # << >>
    PROVE  /\ Job(w, l) \in Jobs
           /\ Job(w, l).who = w /\ Job(w, l).at = "check" /\ Job(w, l).todo = l
BY NoJobType DEF Job, NoJob, Jobs

LEMMA NoTableType == NoTable \in Tables
BY NoDestType DEF NoTable, Tables

LEMMA ToNowhereType == \A i \in Items : /\ ToNowhere(i) \in Requests
                                        /\ ToNowhere(i).item = i /\ ToNowhere(i).dest = NoDest
BY NoDestType DEF ToNowhere, Requests

LEMMA TailFacts ==
    ASSUME NEW S, NEW l \in Seq(S), l # << >>
    PROVE  /\ Tail(l) \in Seq(S)
           /\ Len(l) \in Nat \ {0} /\ Len(Tail(l)) = Len(l) - 1
           /\ DOMAIN l = 1..Len(l) /\ DOMAIN Tail(l) = 1..(Len(l) - 1)
           /\ \A k \in DOMAIN Tail(l) : Tail(l)[k] = l[k + 1]
           /\ l[1] \in S
           /\ Len(l) # 1 => Tail(l) # << >>
<1>1. /\ Tail(l) \in Seq(S) /\ Len(l) \in Nat \ {0} /\ Len(Tail(l)) = Len(l) - 1
      /\ DOMAIN l = 1..Len(l) /\ DOMAIN Tail(l) = 1..(Len(l) - 1)
      /\ \A k \in DOMAIN Tail(l) : Tail(l)[k] = l[k + 1]
      /\ l[1] \in S
  OBVIOUS
<1>2. ASSUME Tail(l) = << >> PROVE Len(l) = 1
  <2>1. Len(Tail(l)) = Len(<< >>)
    BY <1>2, Zenon
  <2>2. Len(<< >>) = 0
    OBVIOUS
  <2>3. Len(l) - 1 = 0
    BY <1>1, <2>1, <2>2, Zenon
  <2>4. Len(l) \in Nat
    OBVIOUS
  <2> QED BY <2>3, <2>4
<1> QED BY <1>1, <1>2

LEMMA AFunctionIsASequence ==
    ASSUME NEW S, NEW n \in Nat, NEW f \in [1..n -> S]
    PROVE  f \in Seq(S)
OBVIOUS

LEMMA PushFacts ==
    ASSUME NEW S, NEW x \in S, NEW l \in Seq(S)
    PROVE  /\ <<x>> \o l \in Seq(S) /\ <<x>> \o l # << >>
           /\ Len(<<x>> \o l) = Len(l) + 1 /\ DOMAIN (<<x>> \o l) = 1..(Len(l) + 1)
           /\ (<<x>> \o l)[1] = x
           /\ \A k \in 1..Len(l) : (<<x>> \o l)[k + 1] = l[k]
<1>1. <<x>> \in Seq(S) /\ Len(<<x>>) = 1 /\ <<x>>[1] = x
  OBVIOUS
<1>2. Len(l) \in Nat
  OBVIOUS
<1>3. <<x>> \o l \in Seq(S) /\ Len(<<x>> \o l) = 1 + Len(l)
  BY <1>1
<1>4. \A k \in 1..(1 + Len(l)) : (<<x>> \o l)[k] = IF k <= 1 THEN <<x>>[k] ELSE l[k - 1]
  BY <1>1, <1>2
<1>5. \A k \in 1..Len(l) : (<<x>> \o l)[k + 1] = l[k]
  <2> TAKE k \in 1..Len(l)
  <2>1. k + 1 \in 1..(1 + Len(l)) /\ ~(k + 1 <= 1) /\ (k + 1) - 1 = k
    BY <1>2
  <2> QED BY <1>4, <2>1, Zenon
<1>6. (<<x>> \o l)[1] = x
  BY <1>1, <1>2, <1>4
<1>7. <<x>> \o l # << >>
  <2>1. SUFFICES ASSUME <<x>> \o l = << >> PROVE FALSE
    OBVIOUS
  <2>2. Len(<<x>> \o l) = Len(<< >>)
    BY <2>1, Zenon
  <2>3. Len(<< >>) = 0
    OBVIOUS
  <2>4. 1 + Len(l) = 0
    BY <1>3, <2>2, <2>3, Zenon
  <2> QED BY <1>2, <2>4
<1> QED BY <1>2, <1>3, <1>5, <1>6, <1>7

\* What TypeOK says of the request being worked off.
LEMMA NowType ==
    ASSUME TypeOK, job.at # "idle"
    PROVE  /\ job.todo \in Seq(Requests) /\ job.todo # << >>
           /\ Now \in Requests /\ Now.item \in Items /\ Now.dest \in Dests /\ Now.bypass \in Dests
<1>1. job.todo \in Seq(Requests) /\ job.todo # << >>
  BY DEF TypeOK
<1>2. Now \in Requests
  BY <1>1, TailFacts DEF Now
<1> QED BY <1>1, <1>2 DEF Requests

\* The rest of a job: the next request, or nobody.
LEMMA RestType ==
    ASSUME TypeOK, job.at # "idle", job.who # "nobody"
    PROVE  /\ Rest \in Jobs /\ Rest.at \in {"idle", "check"}
           /\ (Rest.at = "idle") <=> (Rest.todo = << >>)
           /\ IF Len(job.todo) = 1 THEN Rest = NoJob
              ELSE Rest.who = job.who /\ Rest.todo = Tail(job.todo) /\ Rest.todo # << >>
<1>1. job.todo \in Seq(Requests) /\ job.todo # << >>
  BY NowType
<1>2. job.who \in {"web", "scan"}
  BY DEF TypeOK
<1>3. CASE Len(job.todo) = 1
  BY <1>3, NoJobType DEF Rest
<1>4. CASE Len(job.todo) # 1
  <2>1. Tail(job.todo) \in Seq(Requests) /\ Tail(job.todo) # << >>
    BY <1>1, <1>4, TailFacts
  <2>2. Rest = Job(job.who, Tail(job.todo))
    BY <1>4 DEF Rest
  <2> DEFINE l == Tail(job.todo)
  <2>3. l \in Seq(Requests) /\ l # << >> /\ Rest = Job(job.who, l)
    BY <2>1, <2>2
  <2> HIDE DEF l
  <2>4. Job(job.who, l) \in Jobs
    BY <1>2, <2>3, JobType
  <2>5. Job(job.who, l).who = job.who /\ Job(job.who, l).at = "check" /\ Job(job.who, l).todo = l
    BY <1>2, <2>3, JobType
  <2>6. Rest \in Jobs /\ Rest.who = job.who /\ Rest.at = "check" /\ Rest.todo = l /\ l # << >>
    BY <2>3, <2>4, <2>5, Zenon
  <2>7. Rest.todo = Tail(job.todo)
    BY <2>6 DEF l
  <2>8. Rest.todo # << >>
    BY <2>6, Zenon
  <2> QED BY <1>4, <2>6, <2>7, <2>8
<1> QED BY <1>3, <1>4

\* Of a table, setting the destinations of one item leaves a table.
LEMMA SetDestType ==
    ASSUME NEW t \in Tables, NEW i \in Items, NEW d \in Dests, NEW b \in Dests
    PROVE  /\ [t EXCEPT !.dest[i] = d] \in Tables
           /\ [t EXCEPT !.dest[i] = d,
                        !.bypass = IF i \in Streams THEN [@ EXCEPT ![i] = b] ELSE @] \in Tables
BY DEF Tables

LEMMA BypassType ==
    ASSUME NEW old \in Dests, NEW ob \in Dests, NEW r \in Requests
    PROVE  /\ BypassAfter(old, ob, r) \in Dests
           /\ \A s \in Slots : BypassAfter(old, ob, r)[s] \subseteq r.dest[s]
BY DEF BypassAfter, Dests, Requests

\* What the tables are after a request is entered, field by field.
LEMMA EnterFacts ==
    ASSUME TypeOK, NEW i \in Items, NEW r \in Requests, Enter(i, tab.dest[i], r)
    PROVE  /\ tab' \in Tables /\ tab'.listed = tab.listed
           /\ tab'.dest = [tab.dest EXCEPT ![i] = r.dest]
           /\ \A t \in Streams : tab'.bypass[t] = IF t = i THEN BypassAfter(tab.dest[i], tab.bypass[i], r)
                                                 ELSE tab.bypass[t]
           /\ record' \subseteq Slots
           /\ record' = record \cup {s \in Slots : r.dest[s] # tab.dest[i][s]}
<1>1. record' = record \cup {s \in Slots : r.dest[s] # tab.dest[i][s]}
  BY DEF Enter
<1>2. record' \subseteq Slots
  BY <1>1 DEF TypeOK
<1>3. tab' = [tab EXCEPT !.dest[i] = r.dest,
                         !.bypass = IF i \in Streams
                                    THEN [@ EXCEPT ![i] = BypassAfter(tab.dest[i], tab.bypass[i], r)] ELSE @]
  BY DEF Enter
<1>4. tab \in Tables /\ r.dest \in Dests /\ tab.dest[i] \in Dests
  BY DEF TypeOK, Tables, Requests
<1>5. CASE i \in Streams
  <2>1. BypassAfter(tab.dest[i], tab.bypass[i], r) \in Dests
    BY <1>4, <1>5, BypassType DEF TypeOK, Tables
  <2>2. tab' \in Tables
    BY <1>3, <1>4, <2>1, SetDestType
  <2> QED BY <1>1, <1>2, <1>3, <1>4, <1>5, <2>2 DEF Tables
<1>6. CASE i \notin Streams
  BY <1>1, <1>2, <1>3, <1>4, <1>6 DEF Tables
<1> QED BY <1>5, <1>6

-----------------------------------------------------------------------------
(* The types.                                                              *)

LEMMA TypeInit == Init => TypeOK
<1> SUFFICES ASSUME Init PROVE TypeOK
  OBVIOUS
<1>1. tab \in Tables /\ stored \in Tables
  BY NoDestType DEF Init, NoTable, Tables
<1>2. job \in Jobs /\ ((job.at = "idle") <=> (job.todo = << >>))
  BY NoJobType DEF Init
<1> QED BY <1>1, <1>2, RoutingAssumption DEF Init, TypeOK, Jobs, Keeps

\* What a message, however it ends, leaves of the types.
LEMMA TypeTold ==
    ASSUME TypeOK, job.at = "send", NEW i \in Items, NEW s \in Slots,
           NEW change \in SUBSET Chans, NEW after \in SUBSET Chans,
           NEW left \in Jobs, left.at = "send", left.todo = job.todo,
           Told(i, s, change, after, left)
    PROVE  TypeOK'
<1>1. PICK r \in SendResults :
        /\ r = Fine \/ troubles < MaxTroubles
        /\ troubles' = IF r = Fine THEN troubles ELSE troubles + 1
        /\ board' = IF r.done THEN [board EXCEPT ![s][i] = after] ELSE board
        /\ IF r.ok
           THEN /\ job' = left
                /\ suspect' = IF r.done /\ s \notin pend THEN suspect \ ({i} \X {s} \X change)
                              ELSE suspect \cup ({i} \X {s} \X change)
                /\ UNCHANGED <<tab, record>>
           ELSE /\ Rollback(i)
                /\ job' = NoJob
                /\ suspect' = suspect \cup {e \in Entries : e[1] = i /\ (e[3] \in tab.dest[i][e[2]])
                                                                       # (e[3] \in job.keep.dest[e[2]])}
        /\ UNCHANGED <<stored, storing, boot, pend, requests>>
  BY DEF Told
<1>2. troubles' \in 0..MaxTroubles
  BY <1>1, RoutingAssumption DEF TypeOK
<1>3. board' \in [Slots -> [Items -> SUBSET Chans]]
  BY <1>1 DEF TypeOK
<1>4. {i} \X {s} \X change \subseteq Entries
  BY DEF Entries
<1>5. suspect' \subseteq Entries
  BY <1>1, <1>4 DEF TypeOK
<1>6. tab' \in Tables /\ record' \subseteq Slots
  <2>1. job.keep.dest \in Dests /\ job.keep.bypass \in Dests /\ job.keep.record \subseteq Slots
    BY DEF TypeOK
  <2>2. tab \in Tables /\ record \subseteq Slots
    BY DEF TypeOK
  <2>3. CASE r.ok
    BY <1>1, <2>2, <2>3
  <2>4. CASE ~r.ok
    <3>1. Rollback(i)
      BY <1>1, <2>4
    <3>2. record' \subseteq Slots
      BY <2>1, <3>1 DEF Rollback
    <3>3. tab' = [tab EXCEPT !.dest[i] = job.keep.dest,
                             !.bypass = IF i \in Streams THEN [@ EXCEPT ![i] = job.keep.bypass] ELSE @]
      BY <3>1 DEF Rollback
    <3> QED BY <2>1, <2>2, <3>2, <3>3, SetDestType
  <2> QED BY <2>3, <2>4
<1>7. job' \in Jobs /\ (job'.at = "idle" <=> job'.todo = << >>)
  BY <1>1, NoJobType, NowType
<1> QED BY <1>1, <1>2, <1>3, <1>5, <1>6, <1>7 DEF TypeOK, Jobs, Keeps

LEMMA TypeStep == TypeOK /\ [Next]_vars => TypeOK'
<1> SUFFICES ASSUME TypeOK, [Next]_vars PROVE TypeOK'
  OBVIOUS
<1>a. ASSUME NEW l \in Seq(Requests), NEW w \in {"web", "scan"}, l # << >>, Ask(Job(w, l)) PROVE TypeOK'
  <2>1. job' \in Jobs /\ (job'.at = "idle" <=> job'.todo = << >>)
    BY <1>a, JobType DEF Ask
  <2>2. requests' \in 0..MaxRequests
    BY <1>a, RoutingAssumption DEF Ask, TypeOK
  <2> QED BY <1>a, <2>1, <2>2 DEF Ask, TypeOK, Jobs, Keeps
<1>1. CASE web_processSetTsOutput
  <2>1. PICK r \in Requests : Ask(Job("web", <<r>>))
    BY <1>1 DEF web_processSetTsOutput
  <2>2. <<r>> \in Seq(Requests) /\ <<r>> # << >>
    OBVIOUS
  <2> QED BY <2>1, <2>2, <1>a
<1>2. CASE web_processSetProgramOutput
  <2>1. PICK n \in 1..MaxList :
          \E l \in [1..n -> {r \in Requests : r.item \in Programs /\ r.bypass = NoDest}] : Ask(Job("web", l))
    BY <1>2 DEF web_processSetProgramOutput
  <2>2. PICK l \in [1..n -> Requests] : Ask(Job("web", l))
    BY <2>1
  <2>3. l \in Seq(Requests) /\ l # << >>
    BY <2>2, RoutingAssumption
  <2> QED BY <2>2, <2>3, <1>a
<1>3. ASSUME NEW t \in Streams, TSP_DelInputTSByChannel(t) PROVE TypeOK'
  <2> DEFINE ps == ProgsOf(t) \cap tab.listed
  <2>1. Cardinality(ps) \in Nat
    BY RoutingAssumption, FS_Subset, FS_CardinalityType DEF ProgsOf
  <2>2. PICK l \in [1..Cardinality(ps) -> ps] :
          Ask(Job("scan", <<ToNowhere(t)>> \o [k \in DOMAIN l |-> ToNowhere(l[k])]))
    BY <1>3 DEF TSP_DelInputTSByChannel
  <2> DEFINE rest == [k \in DOMAIN l |-> ToNowhere(l[k])]
  <2>3. rest \in Seq(Requests)
    <3>1. DOMAIN l = 1..Cardinality(ps)
      BY <2>2
    <3>2. \A k \in DOMAIN l : l[k] \in Items
      BY <2>2 DEF ProgsOf, Items
    <3>3. \A k \in DOMAIN l : ToNowhere(l[k]) \in Requests
      BY <3>2, ToNowhereType
    <3>4. rest \in [1..Cardinality(ps) -> Requests]
      BY <3>1, <3>3
    <3> HIDE DEF rest
    <3> QED BY <2>1, <3>4, AFunctionIsASequence
  <2>4. <<ToNowhere(t)>> \in Seq(Requests)
    BY ToNowhereType DEF Items
  <2>5. <<ToNowhere(t)>> \o rest \in Seq(Requests) /\ <<ToNowhere(t)>> \o rest # << >>
    BY <2>3, <2>4
  <2> QED BY <2>2, <2>5, <1>a
<1>4. ASSUME NEW t \in Streams, ScanFinds(t) PROVE TypeOK'
  <2>1. PICK ps \in SUBSET ProgsOf(t) :
          tab' = [tab EXCEPT !.listed = @ \cup {t} \cup ps,
                             !.dest = [i \in Items |-> IF i \in ps \cup {t} THEN NoDest ELSE @[i]],
                             !.bypass = [@ EXCEPT ![t] = NoDest]]
    BY <1>4 DEF ScanFinds
  <2>2. ps \subseteq Items /\ t \in Items
    BY DEF ProgsOf, Items
  <2>3. tab' \in Tables
    BY <2>1, <2>2, NoDestType DEF Tables, TypeOK
  <2> QED BY <1>4, <2>3 DEF ScanFinds, TypeOK
<1>5. CASE Refuse
  BY <1>5, NoJobType DEF Refuse, TypeOK, Jobs, Keeps
<1>6. CASE TSP_ProcessDest
  <2>1. Now \in Requests /\ Now.item \in Items /\ Now.dest \in Dests /\ job.todo # << >>
    BY <1>6, NowType DEF TSP_ProcessDest
  <2>2. tab.dest[Now.item] \in Dests /\ (Now.item \in Streams => tab.bypass[Now.item] \in Dests)
    BY <2>1 DEF TypeOK, Tables
  <2>3. tab' \in Tables /\ record' \subseteq Slots
    BY <1>6, <2>1, EnterFacts DEF TSP_ProcessDest
  <2>4. /\ [s \in Slots |-> tab.dest[Now.item][s] \ Now.dest[s]] \in Dests
        /\ [s \in Slots |-> Now.dest[s] \ tab.dest[Now.item][s]] \in Dests
    BY <2>1, <2>2 DEF Dests
  <2>5. [dest |-> tab.dest[Now.item], record |-> record,
         bypass |-> IF Now.item \in Streams THEN tab.bypass[Now.item] ELSE NoDest] \in Keeps
    BY <2>2, NoDestType DEF TypeOK, Keeps
  <2>6. job' \in Jobs /\ job'.at = "send" /\ job'.todo = job.todo
    BY <1>6, <2>4, <2>5 DEF TSP_ProcessDest, TypeOK, Jobs, Keeps
  <2> QED BY <1>6, <2>1, <2>3, <2>6 DEF TSP_ProcessDest, TypeOK, Jobs, Keeps
<1>7. ASSUME NEW s \in Slots, SendDel(s) PROVE TypeOK'
  <2>1. /\ job.at = "send" /\ Now.item \in Items
        /\ job.del[s] \in SUBSET Chans /\ board[s][Now.item] \ job.del[s] \in SUBSET Chans
    BY <1>7, NowType DEF SendDel, TypeOK, Dests
  <2>2. [job EXCEPT !.del[s] = {}] \in Jobs
    BY DEF TypeOK, Jobs, Keeps, Dests
  <2> QED BY <1>7, <2>1, <2>2, TypeTold DEF SendDel, TypeOK
<1>8. ASSUME NEW s \in Slots, SendAdd(s) PROVE TypeOK'
  <2>1. /\ job.at = "send" /\ Now.item \in Items
        /\ job.add[s] \in SUBSET Chans /\ board[s][Now.item] \cup job.add[s] \in SUBSET Chans
    BY <1>8, NowType DEF SendAdd, TypeOK, Dests
  <2>2. [job EXCEPT !.add[s] = {}] \in Jobs
    BY DEF TypeOK, Jobs, Keeps, Dests
  <2> QED BY <1>8, <2>1, <2>2, TypeTold DEF SendAdd, TypeOK
<1>9. CASE WebDone
  BY <1>9, RestType DEF WebDone, AllSent, TypeOK, Jobs, Keeps
<1>10. CASE ScanDone
  <2>1. tab' \in Tables /\ stored' \in Tables
    BY <1>10 DEF ScanDone, TypeOK, Tables
  <2> QED BY <1>10, <2>1, RestType DEF ScanDone, AllSent, TypeOK, Jobs, Keeps
<1>11. CASE ScanStuck
  BY <1>11, NoJobType DEF ScanStuck, TypeOK, Jobs, Keeps
<1>12. ASSUME NEW s \in Slots, BoardClears(s) PROVE TypeOK'
  <2>1. troubles' \in 0..MaxTroubles
    BY <1>12, RoutingAssumption DEF BoardClears, TypeOK
  <2> QED BY <1>12, <2>1 DEF BoardClears, TypeOK
<1>13. ASSUME NEW s \in Slots, TSP_ProcessClearDestSlot(s) PROVE TypeOK'
  <2>1. tab' \in Tables
    BY <1>13 DEF TSP_ProcessClearDestSlot, TypeOK, Tables, Dests
  <2> QED BY <1>13, <2>1 DEF TSP_ProcessClearDestSlot, TypeOK
<1>14. CASE TSP_ClearTSConfiguration
  <2>1. requests' \in 0..MaxRequests
    BY <1>14, RoutingAssumption DEF TSP_ClearTSConfiguration, TypeOK
  <2> QED BY <1>14, <2>1, NoTableType DEF TSP_ClearTSConfiguration, TypeOK, Differ
<1>15. CASE TSP_RestoreTSMUXInfo
  BY <1>15 DEF TSP_RestoreTSMUXInfo, TypeOK, SlotsUsed
<1>16. CASE Reboot
  <2>1. PICK t \in OnFlash :
          /\ tab' = t /\ stored' = t
          /\ suspect' = suspect \cup InFlight \cup Differ(tab.dest, t.dest) \cup (Items \X pend \X Chans)
    BY <1>16 DEF Reboot
  <2>2. t \in Tables
    BY NoTableType DEF OnFlash, TypeOK
  <2>3. suspect' \subseteq Entries
    BY <2>1 DEF TypeOK, InFlight, Differ, Entries
  <2> QED BY <1>16, <2>1, <2>2, <2>3, NoJobType DEF Reboot, TypeOK, Jobs, Keeps
<1>17. CASE Written
  BY <1>17 DEF Written, TypeOK
<1>18. CASE UNCHANGED vars
  BY <1>18 DEF vars, TypeOK
<1> QED BY <1>1, <1>2, <1>3, <1>4, <1>5, <1>6, <1>7, <1>8, <1>9, <1>10, <1>11, <1>12, <1>13,
           <1>14, <1>15, <1>16, <1>17, <1>18 DEF Next

-----------------------------------------------------------------------------
(* Facts about tables and entries.                                         *)

LEMMA EntryType == \A e \in Entries : e[1] \in Items /\ e[2] \in Slots /\ e[3] \in Chans
                                     /\ e = <<e[1], e[2], e[3]>>
BY DEF Entries

\* A table whose destinations are among another's has no more conflicts and uses no more slots.
LEMMA Fewer ==
    ASSUME NEW t, NEW u, \A i \in Items, s \in Slots : u.dest[i][s] \subseteq t.dest[i][s]
    PROVE  /\ ~Clash(t) => ~Clash(u)
           /\ SlotsUsed(u) \subseteq SlotsUsed(t)
<1>1. \A p \in Programs : p \in Items /\ StreamOf[p] \in Items
  BY RoutingAssumption DEF Items
<1> QED BY <1>1 DEF Clash, SlotsUsed

LEMMA NoDestIsEmpty == \A s \in Slots : NoDest[s] = {}
BY DEF NoDest

\* The empty tables are sound.
LEMMA NoTableSound == ~Clash(NoTable) /\ ListedOK(NoTable) /\ SlotsUsed(NoTable) = {}
<1>1. \A p \in Programs : p \in Items /\ StreamOf[p] \in Items
  BY RoutingAssumption DEF Items
<1> QED BY <1>1 DEF NoTable, NoDest, Clash, ListedOK, SlotsUsed, Items

\* The tables of a roll back, field by field.
LEMMA BackFacts ==
    ASSUME TypeOK, job.at = "send"
    PROVE  /\ Back \in Tables /\ Back.listed = tab.listed
           /\ Back.dest = [tab.dest EXCEPT ![Now.item] = job.keep.dest]
           /\ \A t \in Streams : Back.bypass[t] = IF t = Now.item THEN job.keep.bypass ELSE tab.bypass[t]
<1>1. Now.item \in Items
  BY NowType
<1>2. tab \in Tables /\ job.keep.dest \in Dests /\ job.keep.bypass \in Dests
  BY DEF TypeOK
<1>3. Back \in Tables
  BY <1>1, <1>2, SetDestType DEF Back
<1>4. CASE Now.item \in Streams
  BY <1>1, <1>2, <1>3, <1>4 DEF Back, Tables
<1>5. CASE Now.item \notin Streams
  BY <1>1, <1>2, <1>3, <1>5 DEF Back, Tables
<1> QED BY <1>4, <1>5

\* Nothing moves but the owner of the mutex, who has no messages under way.
LEMMA OnlyJob ==
    ASSUME Inv, UNCHANGED <<tab, stored, record, boot, board, pend, suspect>>,
           InFlight = {}, job'.at = "idle" \/ (job'.at = "check" /\ job'.who \in {"web", "scan"})
    PROVE  NoConflict' /\ NothingUnlisted' /\ RecordCovers' /\ InStep' /\ JobOK' /\ PendOK'
<1>1. InFlight' = {}
  BY DEF InFlight
<1>2. InStep'
  BY <1>1 DEF Inv, InStep
<1> QED BY <1>2 DEF Inv, NoConflict, NothingUnlisted, RecordCovers, JobOK, PendOK

-----------------------------------------------------------------------------
(* Every action preserves Inv.                                             *)

\* What Inv says of the destinations when no messages are under way.
LEMMA NothingSent == job.at # "send" => InFlight = {}
BY DEF InFlight

LEMMA AskKeeps ==
    ASSUME Inv, TypeOK', NEW w \in {"web", "scan"}, NEW l \in Seq(Requests), l # << >>,
           Ask(Job(w, l)), ScanOK'
    PROVE  Inv'
<1>1. job.at # "send" /\ job'.at = "check" /\ job'.who = w
  BY NoJobType, JobType DEF Ask, Free
<1>2. UNCHANGED <<tab, stored, record, boot, board, pend, suspect>>
  BY DEF Ask
<1>3. InFile'
  BY <1>1, <1>2 DEF Inv, InFile
<1> QED BY <1>1, <1>2, <1>3, OnlyJob, NothingSent DEF Inv

LEMMA WebAskKeeps ==
    ASSUME Inv, TypeOK', web_processSetTsOutput \/ web_processSetProgramOutput
    PROVE  Inv'
<1>1. ASSUME NEW l \in Seq(Requests), l # << >>, Ask(Job("web", l)) PROVE Inv'
  <2>1. ScanOK'
    BY <1>1, JobType DEF Ask, ScanOK
  <2> QED BY <1>1, <2>1, AskKeeps
<1>2. CASE web_processSetTsOutput
  <2>1. PICK r \in Requests : Ask(Job("web", <<r>>))
    BY <1>2 DEF web_processSetTsOutput
  <2>2. <<r>> \in Seq(Requests) /\ <<r>> # << >>
    OBVIOUS
  <2> QED BY <2>1, <2>2, <1>1
<1>3. CASE web_processSetProgramOutput
  <2>1. PICK n \in 1..MaxList :
          \E l \in [1..n -> {r \in Requests : r.item \in Programs /\ r.bypass = NoDest}] : Ask(Job("web", l))
    BY <1>3 DEF web_processSetProgramOutput
  <2>2. PICK l \in [1..n -> Requests] : Ask(Job("web", l))
    BY <2>1
  <2>3. l \in Seq(Requests) /\ l # << >>
    BY <2>2, RoutingAssumption
  <2> QED BY <2>2, <2>3, <1>1
<1> QED BY <1>2, <1>3

\* A scan begins with its stream, and has every program of it on its list.
LEMMA ScanAskKeeps ==
    ASSUME Inv, TypeOK', NEW t \in Streams, TSP_DelInputTSByChannel(t)
    PROVE  Inv'
<1> DEFINE ps == ProgsOf(t) \cap tab.listed
<1>1. Cardinality(ps) \in Nat
  BY RoutingAssumption, FS_Subset, FS_CardinalityType DEF ProgsOf
<1>2. PICK l \in [1..Cardinality(ps) -> ps] :
        /\ \A p \in ps : \E k \in DOMAIN l : l[k] = p
        /\ Ask(Job("scan", <<ToNowhere(t)>> \o [k \in DOMAIN l |-> ToNowhere(l[k])]))
  BY DEF TSP_DelInputTSByChannel
<1> DEFINE n == Cardinality(ps)
           rest == [k \in 1..n |-> ToNowhere(l[k])]
           todo == <<ToNowhere(t)>> \o rest
<1>3. n \in Nat /\ l \in [1..n -> ps] /\ DOMAIN l = 1..n /\ ps \subseteq Items /\ ps \subseteq ProgsOf(t)
  BY <1>1, <1>2 DEF ProgsOf, Items
<1>4. \A p \in ps : \E k \in 1..n : l[k] = p
  BY <1>2, <1>3
<1>5. Ask(Job("scan", todo))
  BY <1>2, <1>3
<1> HIDE DEF n
<1>6. rest \in Seq(Requests) /\ Len(rest) = n /\ \A k \in 1..n : rest[k] = ToNowhere(l[k])
  <2>1. rest \in [1..n -> Requests] /\ \A k \in 1..n : rest[k] = ToNowhere(l[k])
    BY <1>3, ToNowhereType
  <2> HIDE DEF rest
  <2>2. rest \in Seq(Requests) /\ Len(rest) = n
    BY <1>3, <2>1
  <2> QED BY <2>1, <2>2
<1>7. ToNowhere(t) \in Requests
  BY ToNowhereType DEF Items
<1> HIDE DEF rest
<1>8. /\ todo \in Seq(Requests) /\ todo # << >> /\ DOMAIN todo = 1..(n + 1) /\ Len(todo) = n + 1
      /\ todo[1] = ToNowhere(t) /\ \A k \in 1..n : todo[k + 1] = ToNowhere(l[k])
  <2> DEFINE m == Len(rest)
  <2>1. /\ todo \in Seq(Requests) /\ todo # << >> /\ Len(todo) = m + 1 /\ DOMAIN todo = 1..(m + 1)
        /\ todo[1] = ToNowhere(t)
    BY <1>6, <1>7, PushFacts
  <2>2. \A k \in 1..m : todo[k + 1] = rest[k]
    <3>1. ASSUME NEW k \in 1..m PROVE todo[k + 1] = rest[k]
      BY <1>6, <1>7, PushFacts
    <3> QED BY <3>1
  <2>3. m = n
    BY <1>6
  <2> HIDE DEF m, todo
  <2> QED BY <1>6, <2>1, <2>2, <2>3
<1> HIDE DEF todo
<1>9. \A k \in 2..(n + 1) : /\ todo[k].dest = NoDest
                            /\ todo[k].item \in ProgsOf(t)
  <2> TAKE k \in 2..(n + 1)
  <2> DEFINE m == k - 1
  <2>1. m \in 1..n /\ m + 1 = k
    BY <1>3
  <2>2. todo[k] = ToNowhere(l[k - 1])
    BY <2>1, <1>8, Zenon
  <2>3. l[k - 1] \in ps
    BY <2>1, <1>3
  <2> QED BY <1>3, <2>2, <2>3, ToNowhereType
<1>10. todo[1].item = t /\ todo[1].dest = NoDest
  BY <1>8, ToNowhereType DEF Items
<1>11. \A k \in 1..(n + 1) : todo[k].dest = NoDest /\ todo[k].item \in {t} \cup ProgsOf(t)
  BY <1>3, <1>9, <1>10
<1>12. \A p \in ps : \E k \in 1..(n + 1) : todo[k].item = p
  <2> TAKE p \in ps
  <2>1. PICK k \in 1..n : l[k] = p
    BY <1>4
  <2>2. k + 1 \in 1..(n + 1)
    BY <1>3
  <2>3. todo[k + 1] = ToNowhere(p)
    BY <2>1, <1>8, Zenon
  <2>4. todo[k + 1].item = p
    BY <2>3, <1>3, ToNowhereType
  <2> QED BY <2>2, <2>4
<1>13. job'.todo = todo /\ tab' = tab /\ job'.who = "scan"
  BY <1>5, <1>8, JobType DEF Ask
<1>14. ScanOf(t)'
  BY <1>3, <1>8, <1>9, <1>10, <1>11, <1>12, <1>13 DEF ScanOf, ProgsOf
<1>15. ScanOK'
  BY <1>3, <1>8, <1>11, <1>13, <1>14 DEF ScanOK
<1> QED BY <1>5, <1>8, <1>15, AskKeeps

\* A message, however it ends: the entries it is about become suspect unless the board has done what
\* the tables say and said so, and a roll back finds all of its own entries suspect.
LEMMA ToldKeeps ==
    ASSUME Inv, TypeOK', job.at = "send", NEW s \in Slots,
           NEW change \in SUBSET Chans, NEW after \in SUBSET Chans, NEW left \in Jobs,
           left.who = job.who, left.at = "send", left.todo = job.todo, left.keep = job.keep,
           \A q \in Slots : left.del[q] \subseteq job.del[q] /\ left.add[q] \subseteq job.add[q],
           \A q \in Slots : \A c \in job.del[q] \cup job.add[q] :
               c \in left.del[q] \cup left.add[q] \/ (q = s /\ c \in change),
           \A c \in change : /\ c \in after <=> c \in tab.dest[Now.item][s]
                             /\ ~(c \in tab.dest[Now.item][s] <=> c \in job.keep.dest[s]),
           \A c \in Chans \ change : c \in after <=> c \in board[s][Now.item],
           Told(Now.item, s, change, after, left)
    PROVE  Inv'
<1> DEFINE i == Now.item
           changed == {e \in Entries : e[1] = i /\ (e[3] \in tab.dest[i][e[2]]) # (e[3] \in job.keep.dest[e[2]])}
<1>1. PICK r \in SendResults :
        /\ board' = IF r.done THEN [board EXCEPT ![s][i] = after] ELSE board
        /\ IF r.ok
           THEN /\ job' = left
                /\ suspect' = IF r.done /\ s \notin pend THEN suspect \ ({i} \X {s} \X change)
                              ELSE suspect \cup ({i} \X {s} \X change)
                /\ UNCHANGED <<tab, record>>
           ELSE /\ Rollback(i)
                /\ job' = NoJob
                /\ suspect' = suspect \cup changed
        /\ UNCHANGED <<stored, storing, boot, pend, requests>>
  BY DEF Told
<1>2. i \in Items /\ job.todo # << >>
  BY NowType DEF Inv
<1>3. UNCHANGED <<stored, boot, pend>>
  BY <1>1
\* What the board puts out, entry by entry.
<1>4. \A e \in Entries : ~(r.done /\ e[1] = i /\ e[2] = s /\ e[3] \in change) =>
          (e[3] \in board'[e[2]][e[1]] <=> e[3] \in board[e[2]][e[1]])
  <2>1. CASE ~r.done
    BY <1>1, <2>1
  <2>2. CASE r.done
    <3>1. board' = [board EXCEPT ![s][i] = after]
      BY <1>1, <2>2
    <3> QED BY <1>2, <2>2, <3>1, EntryType DEF Inv, TypeOK
  <2> QED BY <2>1, <2>2
<1>5. \A e \in Entries : r.done /\ e[1] = i /\ e[2] = s /\ e[3] \in change =>
          (e[3] \in board'[e[2]][e[1]] <=> e[3] \in tab.dest[i][s])
  BY <1>1, <1>2 DEF Inv, TypeOK
<1>6. \A e \in Entries : e \in {i} \X {s} \X change <=> e[1] = i /\ e[2] = s /\ e[3] \in change
  BY EntryType
<1>7. CASE r.ok
  <2>1. /\ job' = left /\ UNCHANGED <<tab, record>>
        /\ suspect' = IF r.done /\ s \notin pend THEN suspect \ ({i} \X {s} \X change)
                      ELSE suspect \cup ({i} \X {s} \X change)
    BY <1>1, <1>7
  <2>2. Now' = Now /\ Back' = Back
    BY <2>1 DEF Now, Back
  <2>3. NoConflict' /\ NothingUnlisted' /\ RecordCovers' /\ InFile'
    BY <1>3, <2>1, <2>2 DEF Inv, NoConflict, NothingUnlisted, RecordCovers, InFile
  <2>4. JobOK'
    BY <1>3, <2>1, <2>2 DEF Inv, JobOK
  <2>5. ScanOK'
    BY <2>1 DEF Inv, ScanOK, ScanOf
  <2>6. PendOK'
    BY <1>3, <1>4, <1>6, <2>1 DEF Inv, PendOK
  <2>7. InStep'
    <3> SUFFICES ASSUME NEW e \in Entries, e \notin suspect', e \notin InFlight', e[2] \notin pend'
                 PROVE  (e[3] \in tab'.dest[e[1]][e[2]]) <=> (e[3] \in board'[e[2]][e[1]])
      BY DEF InStep
    <3>1. CASE e[1] = i /\ e[2] = s /\ e[3] \in change
      BY <1>3, <1>5, <1>6, <2>1, <3>1
    <3>2. CASE ~(e[1] = i /\ e[2] = s /\ e[3] \in change)
      <4>1. e \notin InFlight
        BY <2>1, <2>2, <3>2, EntryType DEF InFlight
      <4>2. e \notin suspect
        BY <1>6, <2>1, <3>2
      <4> QED BY <1>3, <1>4, <2>1, <3>2, <4>1, <4>2 DEF Inv, InStep
    <3> QED BY <3>1, <3>2
  <2> QED BY <2>3, <2>4, <2>5, <2>6, <2>7 DEF Inv
<1>8. CASE ~r.ok
  <2>1. /\ Rollback(i) /\ job' = NoJob /\ suspect' = suspect \cup changed
    BY <1>1, <1>8
  <2>2. tab' = Back /\ record' = job.keep.record
    BY <2>1 DEF Rollback, Back
  <2>3. job'.at = "idle" /\ job'.who = "nobody"
    BY <2>1, NoJobType
  <2>4. ~Clash(Back) /\ ListedOK(Back) /\ (boot = "up" => SlotsUsed(Back) \subseteq job.keep.record)
        /\ (job.keep.dest = stored.dest[i] \/ job.keep.dest = NoDest)
        /\ tab.dest[i] = Now.dest
    BY DEF Inv, JobOK
  <2>5. NoConflict' /\ NothingUnlisted' /\ RecordCovers'
    BY <1>3, <2>2, <2>4 DEF Inv, NoConflict, NothingUnlisted, RecordCovers
  <2>6. tab'.dest = [tab.dest EXCEPT ![i] = job.keep.dest]
    BY <2>2, BackFacts DEF Inv
  <2>7. InFile'
    BY <1>2, <1>3, <2>3, <2>4, <2>6 DEF Inv, InFile, TypeOK, Tables
  <2>8. JobOK' /\ ScanOK'
    BY <2>3 DEF JobOK, ScanOK
  <2>9. \A e \in Entries : e[1] = i /\ e[2] = s /\ e[3] \in change => e \in suspect'
    BY <2>1
  <2>10. PendOK'
    BY <1>3, <1>4, <2>1, <2>9 DEF Inv, PendOK
  <2>11. InStep'
    <3> SUFFICES ASSUME NEW e \in Entries, e \notin suspect', e[2] \notin pend'
                 PROVE  (e[3] \in tab'.dest[e[1]][e[2]]) <=> (e[3] \in board'[e[2]][e[1]])
      BY DEF InStep
    <3>1. e \notin InFlight
      <4>1. SUFFICES ASSUME e[1] = i, e[3] \in job.del[e[2]] \cup job.add[e[2]] PROVE FALSE
        BY DEF InFlight
      <4>2. ~(e[3] \in tab.dest[i][e[2]] <=> e[3] \in job.keep.dest[e[2]])
        BY <2>4, <4>1, EntryType DEF Inv, JobOK
      <4> QED BY <2>1, <4>1, <4>2
    <3>2. e[3] \in tab'.dest[e[1]][e[2]] <=> e[3] \in tab.dest[e[1]][e[2]]
      BY <1>2, <2>1, <2>6, EntryType DEF Inv, TypeOK, Tables
    <3> QED BY <1>3, <1>4, <2>1, <2>9, <3>1, <3>2 DEF Inv, InStep
  <2> QED BY <2>5, <2>7, <2>8, <2>10, <2>11 DEF Inv
<1> QED BY <1>7, <1>8

LEMMA SendKeeps ==
    ASSUME Inv, TypeOK', NEW s \in Slots, SendDel(s) \/ SendAdd(s)
    PROVE  Inv'
<1>1. job.at = "send"
  BY DEF SendDel, SendAdd
<1>2. /\ Now.item \in Items /\ job \in Jobs
      /\ job.del \in [Slots -> SUBSET Chans] /\ job.add \in [Slots -> SUBSET Chans]
      /\ board[s][Now.item] \in SUBSET Chans
  BY <1>1, NowType DEF Inv, TypeOK, Jobs, Keeps, Dests
<1>3. \A q \in Slots : /\ job.del[q] \subseteq job.keep.dest[q] \ tab.dest[Now.item][q]
                       /\ job.add[q] \subseteq tab.dest[Now.item][q] \ job.keep.dest[q]
  BY <1>1 DEF Inv, JobOK
<1>4. CASE SendDel(s)
  <2> DEFINE left == [job EXCEPT !.del[s] = {}]
  <2>1. Told(Now.item, s, job.del[s], board[s][Now.item] \ job.del[s], left)
    BY <1>4 DEF SendDel
  <2>2. left \in Jobs
    BY <1>2 DEF Jobs, Dests
  <2>3. /\ left.who = job.who /\ left.at = "send" /\ left.todo = job.todo /\ left.keep = job.keep
        /\ left.add = job.add /\ left.del = [job.del EXCEPT ![s] = {}]
    BY <1>1, <1>2 DEF Jobs
  <2> HIDE DEF left
  <2> QED BY <1>1, <1>2, <1>3, <2>1, <2>2, <2>3, ToldKeeps
<1>5. CASE SendAdd(s)
  <2> DEFINE left == [job EXCEPT !.add[s] = {}]
  <2>1. Told(Now.item, s, job.add[s], board[s][Now.item] \cup job.add[s], left)
    BY <1>5 DEF SendAdd
  <2>2. left \in Jobs
    BY <1>2 DEF Jobs, Dests
  <2>3. /\ left.who = job.who /\ left.at = "send" /\ left.todo = job.todo /\ left.keep = job.keep
        /\ left.del = job.del /\ left.add = [job.add EXCEPT ![s] = {}]
    BY <1>1, <1>2 DEF Jobs
  <2> HIDE DEF left
  <2> QED BY <1>1, <1>2, <1>3, <2>1, <2>2, <2>3, ToldKeeps
<1> QED BY <1>4, <1>5

\* Entering a request: the check of the other kind keeps stream and programs apart, and what is kept
\* for the roll back is what was there.
LEMMA ProcessDestKeeps ==
    ASSUME Inv, TypeOK', TSP_ProcessDest
    PROVE  Inv'
<1> DEFINE i == Now.item
           old == tab.dest[i]
<1>1. /\ job.at = "check" /\ Now \in Requests /\ i \in Items /\ Now.dest \in Dests
      /\ job.todo \in Seq(Requests) /\ job.todo # << >> /\ Now = job.todo[1]
  BY NowType DEF Inv, TSP_ProcessDest, Now
<1>2. /\ tab' \in Tables /\ tab'.listed = tab.listed
      /\ tab'.dest = [tab.dest EXCEPT ![i] = Now.dest]
      /\ \A t \in Streams : tab'.bypass[t] = IF t = i THEN BypassAfter(old, tab.bypass[i], Now) ELSE tab.bypass[t]
      /\ record' = record \cup {s \in Slots : Now.dest[s] # old[s]}
  BY <1>1, EnterFacts DEF Inv, TSP_ProcessDest
<1>3. /\ job'.at = "send" /\ job'.todo = job.todo /\ job'.who = job.who
      /\ job'.del = [s \in Slots |-> old[s] \ Now.dest[s]]
      /\ job'.add = [s \in Slots |-> Now.dest[s] \ old[s]]
      /\ job'.keep.dest = old /\ job'.keep.record = record
      /\ (i \in Streams => job'.keep.bypass = tab.bypass[i])
  BY <1>1 DEF TSP_ProcessDest, Inv, TypeOK
<1>4. UNCHANGED <<stored, boot, board, pend, suspect>>
  BY DEF TSP_ProcessDest
<1>5. /\ Now' = Now /\ old \in Dests /\ tab \in Tables
      /\ tab'.dest[i] = Now.dest /\ \A x \in Items \ {i} : tab'.dest[x] = tab.dest[x]
  BY <1>1, <1>2, <1>3 DEF Now, Inv, TypeOK, Tables
<1>6. job.who = "web" \/ (job.who = "scan" /\ Now.dest = NoDest)
  <2>1. job.who # "nobody"
    BY <1>1 DEF Inv, JobOK
  <2>2. 1 \in DOMAIN job.todo
    BY <1>1, TailFacts
  <2> QED BY <1>1, <2>1, <2>2 DEF Inv, TypeOK, ScanOK
<1>7. \A p \in Programs : p \in Items /\ StreamOf[p] \in Streams /\ StreamOf[p] \in Items
                          /\ p \notin Streams /\ p # StreamOf[p]
  BY RoutingAssumption DEF Items
<1>8. ~Clash(tab')
  <2> SUFFICES ASSUME NEW p \in Programs, NEW s \in Slots
               PROVE  tab'.dest[p][s] \cap tab'.dest[StreamOf[p]][s] = {}
    BY DEF Clash
  <2>1. tab.dest[p][s] \cap tab.dest[StreamOf[p]][s] = {}
    BY DEF Inv, NoConflict, Clash
  <2>2. CASE Now.dest = NoDest
    BY <1>5, <1>7, <2>1, <2>2, NoDestIsEmpty
  <2>3. CASE job.who = "web"
    <3>1. CheckDestParam(Now)
      BY <2>3 DEF TSP_ProcessDest
    <3>2. CASE i = p
      BY <1>5, <1>7, <3>1, <3>2 DEF CheckDestParam
    <3>3. CASE i = StreamOf[p]
      <4>1. CASE p \in tab.listed
        BY <1>5, <1>7, <3>1, <3>3, <4>1 DEF CheckDestParam, ProgsOf
      <4>2. CASE p \notin tab.listed
        BY <1>5, <1>7, <3>3, <4>2, NoDestIsEmpty DEF Inv, NothingUnlisted, ListedOK
      <4> QED BY <4>1, <4>2
    <3>4. CASE i # p /\ i # StreamOf[p]
      BY <1>5, <1>7, <2>1, <3>4
    <3> QED BY <3>2, <3>3, <3>4
  <2> QED BY <1>6, <2>2, <2>3
<1>9. ListedOK(tab')
  <2>1. job.who = "web" => i \in tab.listed
    BY DEF TSP_ProcessDest
  <2>2. \A x \in Items \ tab'.listed : tab'.dest[x] = NoDest
    BY <1>2, <1>5, <1>6, <2>1 DEF Inv, NothingUnlisted, ListedOK
  <2>3. \A p \in Programs \cap tab'.listed : StreamOf[p] \in tab'.listed
    BY <1>2 DEF Inv, NothingUnlisted, ListedOK
  <2>4. \A t \in Streams, s \in Slots : tab'.bypass[t][s] \subseteq tab'.dest[t][s]
    <3> TAKE t \in Streams, s \in Slots
    <3>1. t \in Items
      BY DEF Items
    <3>2. CASE t = i
      <4>1. tab.bypass[i] \in Dests
        BY <3>2 DEF Inv, TypeOK, Tables
      <4>2. BypassAfter(old, tab.bypass[i], Now)[s] \subseteq Now.dest[s]
        BY <1>1, <1>5, <4>1, BypassType
      <4> QED BY <1>2, <1>5, <3>2, <4>2
    <3>3. CASE t # i
      BY <1>2, <1>5, <3>1, <3>3 DEF Inv, NothingUnlisted, ListedOK
    <3> QED BY <3>2, <3>3
  <2> QED BY <2>2, <2>3, <2>4 DEF ListedOK
<1>10. Back' \in Tables /\ Back'.dest = tab.dest /\ Back'.listed = tab.listed /\ Back'.bypass = tab.bypass
  <2>1. Back' = [tab' EXCEPT !.dest[i] = old,
                             !.bypass = IF i \in Streams
                                        THEN [@ EXCEPT ![i] = job'.keep.bypass] ELSE @]
    BY <1>3, <1>5 DEF Back
  <2>2. CASE i \in Streams
    <3>1. Back' = [tab' EXCEPT !.dest[i] = old, !.bypass = [@ EXCEPT ![i] = tab.bypass[i]]]
      BY <1>3, <2>1, <2>2
    <3>2. [tab'.dest EXCEPT ![i] = old] = tab.dest
      BY <1>1, <1>2, <1>5 DEF Tables
    <3>3. [tab'.bypass EXCEPT ![i] = tab.bypass[i]] = tab.bypass
      BY <1>2, <1>5 DEF Tables
    <3>4. Back'.dest = tab.dest /\ Back'.listed = tab.listed /\ Back'.bypass = tab.bypass
      BY <1>2, <3>1, <3>2, <3>3 DEF Tables
    <3>5. Back' \in Tables
      BY <1>2, <1>5, <3>1, <3>4 DEF Tables
    <3> QED BY <3>4, <3>5
  <2>3. CASE i \notin Streams
    <3>1. Back' = [tab' EXCEPT !.dest[i] = old]
      BY <1>2, <2>1, <2>3 DEF Tables
    <3>2. tab'.bypass = tab.bypass
      BY <1>2, <1>5, <2>3 DEF Tables
    <3> QED BY <1>1, <1>2, <1>5, <3>1, <3>2 DEF Tables
  <2> QED BY <2>2, <2>3
<1>11. /\ ~Clash(Back') /\ ListedOK(Back') /\ SlotsUsed(Back') = SlotsUsed(tab)
  BY <1>10 DEF Inv, NoConflict, NothingUnlisted, Clash, ListedOK, SlotsUsed
<1>12. NoConflict' /\ NothingUnlisted'
  BY <1>4, <1>8, <1>9 DEF Inv, NoConflict, NothingUnlisted
<1>13. RecordCovers'
  <2> SUFFICES ASSUME boot = "up", NEW s \in Slots, NEW x \in Items, tab'.dest[x][s] # {}
               PROVE  s \in record'
    BY <1>4 DEF RecordCovers, SlotsUsed
  <2>1. SlotsUsed(tab) \subseteq record
    BY DEF Inv, RecordCovers
  <2>2. CASE tab.dest[x][s] # {}
    BY <1>2, <2>1, <2>2 DEF SlotsUsed
  <2>3. CASE tab.dest[x][s] = {}
    BY <1>2, <1>5, <2>3
  <2> QED BY <2>2, <2>3
<1>14. InFile'
  BY <1>1, <1>3, <1>4, <1>5 DEF Inv, InFile
<1>15. JobOK'
  <2>1. old = stored.dest[i] \/ old = NoDest
    BY <1>1 DEF Inv, InFile
  <2>2. \A s \in Slots : /\ job'.del[s] \subseteq job'.keep.dest[s] \ Now.dest[s]
                         /\ job'.add[s] \subseteq Now.dest[s] \ job'.keep.dest[s]
    BY <1>3
  <2>3. boot = "up" => SlotsUsed(tab) \subseteq record
    BY DEF Inv, RecordCovers
  <2> QED BY <1>3, <1>4, <1>5, <1>6, <1>11, <2>1, <2>2, <2>3 DEF JobOK
<1>16. ScanOK'
  <2> SUFFICES ASSUME job.who = "scan" PROVE ScanOK'
    BY <1>3 DEF ScanOK
  <2>1. PICK t \in Streams : ScanOf(t)
    BY DEF Inv, ScanOK
  <2>2. t \in Items /\ Now.dest = NoDest
    BY <1>6 DEF Items
  <2>3. ScanOf(t)'
    BY <1>1, <1>2, <1>3, <1>5, <2>1, <2>2 DEF ScanOf
  <2>4. \A k \in DOMAIN job.todo : job.todo[k].dest = NoDest
    BY DEF Inv, ScanOK
  <2> QED BY <1>3, <2>3, <2>4 DEF ScanOK
<1>17. PendOK'
  BY <1>4 DEF Inv, PendOK
<1>18. InStep'
  <2> SUFFICES ASSUME NEW e \in Entries, e \notin suspect, e \notin InFlight', e[2] \notin pend
               PROVE  (e[3] \in tab'.dest[e[1]][e[2]]) <=> (e[3] \in board[e[2]][e[1]])
    BY <1>4 DEF InStep
  <2>1. (e[3] \in tab.dest[e[1]][e[2]]) <=> (e[3] \in board[e[2]][e[1]])
    BY <1>1, NothingSent DEF Inv, InStep
  <2>2. (e[3] \in tab'.dest[e[1]][e[2]]) <=> (e[3] \in tab.dest[e[1]][e[2]])
    <3>1. CASE e[1] = i
      <4>1. e[3] \notin job'.del[e[2]] \cup job'.add[e[2]]
        BY <1>3, <1>5, <3>1 DEF InFlight
      <4> QED BY <1>3, <1>5, <3>1, <4>1, EntryType
    <3>2. CASE e[1] # i
      BY <1>5, <3>2, EntryType
    <3> QED BY <3>1, <3>2
  <2> QED BY <2>1, <2>2
<1> QED BY <1>12, <1>13, <1>14, <1>15, <1>16, <1>17, <1>18 DEF Inv

LEMMA RefuseKeeps == ASSUME Inv, TypeOK', Refuse PROVE Inv'
<1>1. job.at = "check" /\ job'.at = "idle" /\ job'.who = "nobody"
  BY NoJobType DEF Refuse
<1>2. UNCHANGED <<tab, stored, record, boot, board, pend, suspect>>
  BY DEF Refuse
<1>3. InFile' /\ ScanOK'
  BY <1>1, <1>2 DEF Inv, InFile, ScanOK
<1> QED BY <1>1, <1>2, <1>3, OnlyJob, NothingSent DEF Inv

\* With the last message answered nothing is in flight, and the next request of the job is checked.
LEMMA DoneFacts ==
    ASSUME Inv, AllSent
    PROVE  /\ InFlight = {} /\ job.who \in {"web", "scan"}
           /\ (Rest.at = "idle" /\ Rest.who = "nobody") \/ (Rest.at = "check" /\ Rest.who = job.who)
           /\ IF Len(job.todo) = 1 THEN Rest = NoJob
              ELSE Rest.todo = Tail(job.todo) /\ Rest.todo # << >>
<1>1. InFlight = {}
  BY NoDestIsEmpty, EntryType DEF AllSent, InFlight
<1>2. job.who \in {"web", "scan"}
  BY DEF Inv, JobOK, AllSent
<1> QED BY <1>1, <1>2, RestType, NoJobType DEF Inv, AllSent

LEMMA WebDoneKeeps == ASSUME Inv, TypeOK', WebDone PROVE Inv'
<1>1. /\ job' = Rest /\ stored' = tab /\ UNCHANGED <<tab, record, boot, board, pend, suspect>>
      /\ job.who = "web" /\ AllSent
  BY DEF WebDone
<1>2. /\ InFlight = {}
      /\ job'.at = "idle" \/ (job'.at = "check" /\ job'.who = "web")
      /\ job'.who # "scan"
  BY <1>1, DoneFacts, NoJobType DEF Inv
<1>3. NoConflict' /\ NothingUnlisted' /\ InFile' /\ ScanOK'
  BY <1>1, <1>2 DEF Inv, NoConflict, NothingUnlisted, InFile, ScanOK
<1>4. InFlight' = {}
  BY <1>2 DEF InFlight
<1>5. RecordCovers' /\ InStep' /\ JobOK' /\ PendOK'
  BY <1>1, <1>2, <1>4 DEF Inv, RecordCovers, InStep, JobOK, PendOK
<1> QED BY <1>3, <1>5 DEF Inv

LEMMA ScanStuckKeeps == ASSUME Inv, TypeOK', ScanStuck PROVE Inv'
<1>1. /\ job'.at = "idle" /\ job'.who = "nobody" /\ UNCHANGED <<tab, stored, record, boot, board, pend, suspect>>
      /\ job.who = "scan" /\ AllSent
  BY NoJobType DEF ScanStuck
<1>2. tab.dest[Now.item] = NoDest
  <2>1. job.todo # << >> /\ job.todo \in Seq(Requests)
    BY <1>1, NowType DEF Inv, AllSent
  <2>2. Now.dest = NoDest
    BY <1>1, <2>1, TailFacts DEF Inv, ScanOK, Now
  <2> QED BY <1>1, <2>2 DEF Inv, JobOK, AllSent
<1>3. InFile' /\ ScanOK'
  BY <1>1, <1>2 DEF Inv, InFile, ScanOK
<1> QED BY <1>1, <1>3, OnlyJob, DoneFacts DEF Inv

\* The end of one item of a scan.  When it was the last, the list has had every program of the stream,
\* so the stream leaves no program behind; and what leaves the tables goes nowhere.
LEMMA ScanDoneKeeps == ASSUME Inv, TypeOK', ScanDone PROVE Inv'
<1> DEFINE i == Now.item
           gone == IF i \in Programs THEN {i} ELSE {}
           last == IF Len(job.todo) = 1 THEN {t \in Streams : t = i \/ (i \in Programs /\ t = StreamOf[i])} ELSE {}
<1>1. /\ job' = Rest /\ job.who = "scan" /\ AllSent
      /\ tab' = [tab EXCEPT !.listed = @ \ (gone \cup last)]
      /\ stored' = IF last # {} THEN tab' ELSE stored
      /\ UNCHANGED <<record, boot, board, pend, suspect>>
  BY DEF ScanDone
<1>2. /\ InFlight = {}
      /\ job'.at = "idle" \/ (job'.at = "check" /\ job'.who = "scan")
      /\ IF Len(job.todo) = 1 THEN job' = NoJob ELSE job'.todo = Tail(job.todo)
  BY <1>1, DoneFacts
<1>3. /\ tab'.dest = tab.dest /\ tab'.bypass = tab.bypass /\ tab'.listed = tab.listed \ (gone \cup last)
      /\ tab \in Tables /\ stored \in Tables
  BY <1>1 DEF Inv, TypeOK, Tables
<1>4. /\ job.todo \in Seq(Requests) /\ job.todo # << >> /\ i \in Items /\ i = job.todo[1].item
      /\ Len(job.todo) \in Nat \ {0} /\ DOMAIN job.todo = 1..Len(job.todo)
  BY <1>1, NowType, TailFacts DEF Inv, AllSent, Now
<1>5. \A k \in DOMAIN job.todo : job.todo[k].dest = NoDest
  BY <1>1 DEF Inv, ScanOK
<1>6. tab.dest[i] = NoDest
  BY <1>1, <1>4, <1>5 DEF Inv, JobOK, AllSent, Now
<1>7. PICK t \in Streams : ScanOf(t)
  BY <1>1 DEF Inv, ScanOK
<1>8. t \in Items /\ t \notin Programs /\ i \in {t} \cup ProgsOf(t) /\ tab.dest[t] = NoDest
  BY <1>4, <1>6, <1>7, RoutingAssumption DEF ScanOf, Items
<1>9. last = IF Len(job.todo) = 1 THEN {t} ELSE {}
  BY <1>8, RoutingAssumption DEF ProgsOf
<1>10. ListedOK(tab')
  <2>1. \A x \in Items \ tab'.listed : tab'.dest[x] = NoDest
    BY <1>3, <1>6, <1>8, <1>9 DEF Inv, NothingUnlisted, ListedOK
  <2>2. ASSUME NEW p \in Programs \cap tab'.listed PROVE StreamOf[p] \in tab'.listed
    <3>1. p \in Programs /\ p \in tab'.listed
      BY <2>2
    <3>2. p \in tab.listed /\ StreamOf[p] \in tab.listed /\ StreamOf[p] \notin Programs
      BY <1>3, <2>2, RoutingAssumption DEF Inv, NothingUnlisted, ListedOK
    <3>3. CASE last = {}
      BY <1>3, <3>2, <3>3
    <3>4. CASE last # {}
      <4>1. Len(job.todo) = 1 /\ last = {t}
        BY <1>9, <3>4
      <4>2. SUFFICES ASSUME StreamOf[p] = t PROVE FALSE
        BY <1>3, <3>2, <4>1
      <4>3. p = i
        <5>1. PICK k \in DOMAIN job.todo : job.todo[k].item = p
          BY <1>7, <3>2, <4>2 DEF ScanOf, ProgsOf
        <5> QED BY <1>4, <4>1, <5>1
      <4> QED BY <1>3, <2>2, <4>3
    <3> QED BY <3>3, <3>4
  <2> QED BY <1>3, <2>1, <2>2 DEF Inv, NothingUnlisted, ListedOK
<1>11. NoConflict' /\ NothingUnlisted'
  BY <1>1, <1>3, <1>10 DEF Inv, NoConflict, NothingUnlisted, Clash
<1>12. RecordCovers' /\ PendOK'
  BY <1>1, <1>3 DEF Inv, RecordCovers, PendOK, SlotsUsed
<1>13. InStep'
  <2>1. InFlight' = {}
    BY <1>2 DEF InFlight
  <2> QED BY <1>1, <1>2, <1>3, <2>1 DEF Inv, InStep
<1>14. InFile'
  BY <1>1, <1>3, <1>6 DEF Inv, InFile
<1>15. JobOK'
  BY <1>2 DEF JobOK
<1>16. ScanOK'
  <2>1. CASE Len(job.todo) = 1
    BY <1>2, <2>1, NoJobType DEF ScanOK
  <2>2. CASE Len(job.todo) # 1
    <3>1. job'.todo = Tail(job.todo)
      BY <1>2, <2>2
    <3> DEFINE n == Len(job.todo)
    <3>2. /\ n \in Nat /\ n > 1 /\ DOMAIN job.todo = 1..n
          /\ Len(job'.todo) = n - 1 /\ DOMAIN job'.todo = 1..(n - 1)
          /\ \A k \in 1..(n - 1) : job'.todo[k] = job.todo[k + 1]
      BY <1>4, <2>2, <3>1, TailFacts
    <3> HIDE DEF n
    <3>3. \A k \in 1..(n - 1) : /\ job'.todo[k].dest = NoDest
                               /\ job'.todo[k].item \in {t} \cup ProgsOf(t)
                               /\ job'.todo[k].item \in Programs
      <4> TAKE k \in 1..(n - 1)
      <4>1. k + 1 \in 2..n /\ k + 1 \in DOMAIN job.todo
        BY <3>2
      <4>2. \A m \in 2..n : job.todo[m].item \in Programs
        BY <1>7 DEF ScanOf, n
      <4> QED BY <1>5, <1>7, <3>2, <4>1, <4>2 DEF ScanOf
    <3>4. \A p \in ProgsOf(t) \cap tab'.listed : \E k \in 1..(n - 1) : job'.todo[k].item = p
      <4> TAKE p \in ProgsOf(t) \cap tab'.listed
      <4>1. p \in ProgsOf(t) \cap tab.listed /\ p # i
        BY <1>3, <1>8 DEF ProgsOf
      <4>2. PICK m \in 1..n : job.todo[m].item = p
        BY <1>7, <3>2, <4>1 DEF ScanOf
      <4>3. m # 1
        BY <1>4, <4>1, <4>2
      <4> DEFINE k == m - 1
      <4>4. k \in 1..(n - 1) /\ k + 1 = m
        BY <3>2, <4>3
      <4>5. job'.todo[k] = job.todo[m]
        BY <3>2, <4>4
      <4> QED BY <4>2, <4>4, <4>5
    <3>5. \A k \in 2..Len(job'.todo) : k \in 1..(n - 1)
      BY <3>2
    <3>6. ScanOf(t)'
      BY <1>3, <1>8, <3>2, <3>3, <3>4, <3>5 DEF ScanOf, ProgsOf
    <3> QED BY <3>2, <3>3, <3>6 DEF ScanOK
  <2> QED BY <2>1, <2>2
<1> QED BY <1>11, <1>12, <1>13, <1>14, <1>15, <1>16 DEF Inv

\* What a scan enters was nowhere before, being in no list.
LEMMA ScanFindsKeeps == ASSUME Inv, TypeOK', NEW t \in Streams, ScanFinds(t) PROVE Inv'
<1>1. PICK ps \in SUBSET ProgsOf(t) :
        tab' = [tab EXCEPT !.listed = @ \cup {t} \cup ps,
                           !.dest = [x \in Items |-> IF x \in ps \cup {t} THEN NoDest ELSE @[x]],
                           !.bypass = [@ EXCEPT ![t] = NoDest]]
  BY DEF ScanFinds
<1>2. /\ job = NoJob /\ t \notin tab.listed /\ stored' = tab'
      /\ UNCHANGED <<record, boot, job, board, pend, suspect>>
  BY DEF ScanFinds, Free
<1>3. job.at = "idle" /\ job.who = "nobody" /\ InFlight = {} /\ InFlight' = {}
  BY <1>2, NoJobType, NothingSent DEF InFlight
<1>4. /\ t \in Items /\ ps \subseteq Items /\ ps \subseteq Programs
      /\ \A p \in ps : StreamOf[p] = t /\ p \notin tab.listed
  BY <1>2 DEF ProgsOf, Items, Inv, NothingUnlisted, ListedOK
<1>5. tab.dest[t] = NoDest /\ \A p \in ps : tab.dest[p] = NoDest
  BY <1>2, <1>4 DEF Inv, NothingUnlisted, ListedOK
<1>6. /\ tab'.listed = tab.listed \cup {t} \cup ps /\ tab'.dest = tab.dest
      /\ \A x \in Streams : tab'.bypass[x] = IF x = t THEN NoDest ELSE tab.bypass[x]
  <2>1. [x \in Items |-> IF x \in ps \cup {t} THEN NoDest ELSE tab.dest[x]] = tab.dest
    BY <1>5 DEF Inv, TypeOK, Tables
  <2>2. tab' = [listed |-> tab.listed \cup {t} \cup ps,
                dest |-> [x \in Items |-> IF x \in ps \cup {t} THEN NoDest ELSE tab.dest[x]],
                bypass |-> [tab.bypass EXCEPT ![t] = NoDest]]
    BY <1>1 DEF Inv, TypeOK, Tables
  <2> QED BY <2>1, <2>2 DEF Inv, TypeOK, Tables
<1>7. ListedOK(tab')
  <2>1. \A x \in Items \ tab'.listed : tab'.dest[x] = NoDest
    BY <1>6 DEF Inv, NothingUnlisted, ListedOK
  <2>2. \A p \in Programs \cap tab'.listed : StreamOf[p] \in tab'.listed
    BY <1>4, <1>6, RoutingAssumption DEF Inv, NothingUnlisted, ListedOK
  <2>3. \A x \in Streams, s \in Slots : tab'.bypass[x][s] \subseteq tab'.dest[x][s]
    BY <1>6, NoDestIsEmpty DEF Inv, NothingUnlisted, ListedOK
  <2> QED BY <2>1, <2>2, <2>3 DEF ListedOK
<1>8. NoConflict' /\ NothingUnlisted'
  BY <1>2, <1>6, <1>7 DEF Inv, NoConflict, NothingUnlisted, Clash
<1>9. RecordCovers' /\ PendOK' /\ InFile'
  BY <1>2, <1>6 DEF Inv, RecordCovers, PendOK, SlotsUsed, InFile
<1>10. InStep'
  BY <1>2, <1>3, <1>6 DEF Inv, InStep
<1>11. JobOK' /\ ScanOK'
  BY <1>2, <1>3 DEF JobOK, ScanOK
<1> QED BY <1>8, <1>9, <1>10, <1>11 DEF Inv

LEMMA BoardClearsKeeps == ASSUME Inv, TypeOK', NEW s \in Slots, BoardClears(s) PROVE Inv'
<1>1. /\ board' = [board EXCEPT ![s] = [x \in Items |-> {}]] /\ pend' = pend \cup {s}
      /\ UNCHANGED <<tab, stored, record, boot, job, suspect>>
  BY DEF BoardClears
<1>2. NoConflict' /\ NothingUnlisted' /\ RecordCovers' /\ InFile'
  BY <1>1 DEF Inv, NoConflict, NothingUnlisted, RecordCovers, InFile, Now
<1>3. JobOK' /\ ScanOK'
  BY <1>1 DEF Inv, JobOK, ScanOK, ScanOf, Back, Now
<1>4. \A e \in Entries : IF e[2] = s THEN e[3] \notin board'[e[2]][e[1]]
                        ELSE board'[e[2]][e[1]] = board[e[2]][e[1]]
  BY <1>1, EntryType DEF Inv, TypeOK
<1>5. PendOK'
  BY <1>1, <1>4 DEF Inv, PendOK
<1>6. InFlight' = InFlight
  BY <1>1 DEF InFlight, Now
<1>7. InStep'
  BY <1>1, <1>4, <1>6 DEF Inv, InStep
<1> QED BY <1>2, <1>3, <1>5, <1>7 DEF Inv

LEMMA ClearDestSlotKeeps == ASSUME Inv, TypeOK', NEW s \in Slots, TSP_ProcessClearDestSlot(s) PROVE Inv'
<1>1. /\ tab' = [tab EXCEPT !.dest = [i \in Items |-> [@[i] EXCEPT ![s] = {}]],
                            !.bypass = [t \in Streams |-> [@[t] EXCEPT ![s] = {}]]]
      /\ stored' = tab' /\ record' = record \ {s} /\ pend' = pend \ {s}
      /\ UNCHANGED <<boot, job, board, suspect>>
      /\ s \in pend /\ job = NoJob
  BY DEF TSP_ProcessClearDestSlot, Free
<1>2. /\ tab'.listed = tab.listed
      /\ \A x \in Items, q \in Slots : tab'.dest[x][q] = IF q = s THEN {} ELSE tab.dest[x][q]
      /\ \A x \in Streams, q \in Slots : tab'.bypass[x][q] = IF q = s THEN {} ELSE tab.bypass[x][q]
  BY <1>1 DEF Inv, TypeOK, Tables, Dests
<1>3. job.at = "idle" /\ job.who = "nobody" /\ InFlight = {} /\ InFlight' = {}
  BY <1>1, NoJobType, NothingSent DEF InFlight
<1>4. ~Clash(tab')
  BY <1>2, Fewer DEF Inv, NoConflict
<1>5. ListedOK(tab')
  <2>1. \A x \in Items \ tab'.listed : tab'.dest[x] = NoDest
    <3> TAKE x \in Items \ tab'.listed
    <3>1. tab.dest[x] = NoDest
      BY <1>2 DEF Inv, NothingUnlisted, ListedOK
    <3>2. \A q \in Slots : tab'.dest[x][q] = NoDest[q]
      BY <1>2, <3>1, NoDestIsEmpty
    <3>3. tab'.dest[x] \in Dests
      BY DEF TypeOK, Tables
    <3> QED BY <3>2, <3>3, NoDestType DEF Dests
  <2>2. \A x \in Streams : x \in Items
    BY DEF Items
  <2> QED BY <1>2, <2>1, <2>2 DEF Inv, NothingUnlisted, ListedOK
<1>6. NoConflict' /\ NothingUnlisted'
  BY <1>1, <1>4, <1>5 DEF NoConflict, NothingUnlisted
<1>7. RecordCovers' /\ InFile'
  BY <1>1, <1>2 DEF Inv, RecordCovers, SlotsUsed, InFile
<1>8. PendOK' /\ JobOK' /\ ScanOK'
  BY <1>1, <1>3 DEF Inv, PendOK, JobOK, ScanOK
<1>9. InStep'
  BY <1>1, <1>2, <1>3, EntryType DEF Inv, InStep, PendOK
<1> QED BY <1>6, <1>7, <1>8, <1>9 DEF Inv

\* Entries on which two tables differ, and their suspects.
LEMMA DifferFacts ==
    ASSUME NEW d1, NEW d2, NEW e \in Entries, e \notin Differ(d1, d2)
    PROVE  e[3] \in d1[e[1]][e[2]] <=> e[3] \in d2[e[1]][e[2]]
BY DEF Differ

LEMMA ClearKeeps == ASSUME Inv, TypeOK', TSP_ClearTSConfiguration PROVE Inv'
<1>1. /\ tab' = NoTable /\ stored' = NoTable /\ record' = {}
      /\ suspect' = suspect \cup Differ(tab.dest, NoTable.dest)
      /\ UNCHANGED <<boot, job, board, pend>> /\ job = NoJob
  BY DEF TSP_ClearTSConfiguration, Free
<1>2. job.at = "idle" /\ job.who = "nobody" /\ InFlight = {} /\ InFlight' = {}
  BY <1>1, NoJobType, NothingSent DEF InFlight
<1>3. NoConflict' /\ NothingUnlisted' /\ RecordCovers' /\ InFile'
  BY <1>1, NoTableSound DEF NoConflict, NothingUnlisted, RecordCovers, InFile
<1>4. JobOK' /\ ScanOK' /\ PendOK'
  BY <1>1, <1>2 DEF Inv, JobOK, ScanOK, PendOK
<1>5. InStep'
  BY <1>1, <1>2, DifferFacts DEF Inv, InStep
<1> QED BY <1>3, <1>4, <1>5 DEF Inv

LEMMA RestoreKeeps == ASSUME Inv, TypeOK', TSP_RestoreTSMUXInfo PROVE Inv'
<1>1. /\ record' = record \cup SlotsUsed(tab) /\ boot' = IF job.at = "send" THEN "raced" ELSE "up"
      /\ UNCHANGED <<tab, stored, job, board, pend, suspect>>
  BY DEF TSP_RestoreTSMUXInfo
<1>2. NoConflict' /\ NothingUnlisted' /\ RecordCovers' /\ InFile' /\ PendOK'
  BY <1>1 DEF Inv, NoConflict, NothingUnlisted, RecordCovers, InFile, PendOK, Now
<1>3. InFlight' = InFlight
  BY <1>1 DEF InFlight, Now
<1>4. InStep'
  BY <1>1, <1>3 DEF Inv, InStep
<1>5. JobOK' /\ ScanOK'
  BY <1>1 DEF Inv, JobOK, ScanOK, ScanOf, Back, Now
<1> QED BY <1>2, <1>4, <1>5 DEF Inv

\* Being written ends: nothing but boot changes, and that to no state in which the record is asked.
LEMMA WrittenKeeps == ASSUME Inv, TypeOK', Written PROVE Inv'
<1>1. /\ UNCHANGED <<tab, stored, record, job, board, pend, suspect>>
      /\ boot' = "up" => boot = "up"
  BY DEF Written
<1>2. NoConflict' /\ NothingUnlisted' /\ RecordCovers' /\ InFile' /\ PendOK'
  BY <1>1 DEF Inv, NoConflict, NothingUnlisted, RecordCovers, InFile, PendOK, Now
<1>3. InFlight' = InFlight
  BY <1>1 DEF InFlight, Now
<1>4. InStep'
  BY <1>1, <1>3 DEF Inv, InStep
<1>5. JobOK' /\ ScanOK'
  BY <1>1 DEF Inv, JobOK, ScanOK, ScanOf, Back, Now
<1> QED BY <1>2, <1>4, <1>5 DEF Inv

\* What a restart finds is sound, the file being whole or not.
LEMMA RebootKeeps == ASSUME Inv, TypeOK', Reboot PROVE Inv'
<1>1. PICK t \in OnFlash :
        /\ tab' = t /\ stored' = t
        /\ suspect' = suspect \cup InFlight \cup Differ(tab.dest, t.dest) \cup (Items \X pend \X Chans)
  BY DEF Reboot
<1>2. boot' = "loading" /\ job' = NoJob /\ pend' = {} /\ board' = board
  BY DEF Reboot
<1>3. job'.at = "idle" /\ job'.who = "nobody" /\ InFlight' = {}
  BY <1>2, NoJobType DEF InFlight
<1>4. ~Clash(t) /\ ListedOK(t)
  BY NoTableSound DEF OnFlash, Inv, NoConflict, NothingUnlisted
<1>5. NoConflict' /\ NothingUnlisted' /\ RecordCovers' /\ InFile'
  BY <1>1, <1>2, <1>4 DEF NoConflict, NothingUnlisted, RecordCovers, InFile
<1>6. JobOK' /\ ScanOK' /\ PendOK'
  BY <1>2, <1>3 DEF JobOK, ScanOK, PendOK
<1>7. InStep'
  BY <1>1, <1>2, <1>3, DifferFacts, EntryType DEF Inv, InStep
<1> QED BY <1>5, <1>6, <1>7 DEF Inv

-----------------------------------------------------------------------------
LEMMA InitInv == Init => Inv
<1> SUFFICES ASSUME Init PROVE Inv
  OBVIOUS
<1>1. job = NoJob /\ job.at = "idle" /\ job.who = "nobody" /\ InFlight = {}
  BY NoJobType, NothingSent DEF Init
<1>2. /\ tab.dest = [i \in Items |-> NoDest] /\ tab.bypass = [t \in Streams |-> NoDest]
      /\ \A p \in Programs \cap tab.listed : StreamOf[p] \in tab.listed
      /\ stored = tab
  BY DEF Init, NoTable
<1>3. \A x \in Streams \cup Programs : x \in Items
  BY DEF Items
<1>4. ~Clash(tab) /\ ListedOK(tab)
  BY <1>2, <1>3, NoDestIsEmpty, RoutingAssumption DEF Clash, ListedOK
<1>5. NoConflict /\ NothingUnlisted /\ RecordCovers /\ InFile /\ JobOK /\ ScanOK /\ PendOK
  BY <1>1, <1>2, <1>4 DEF Init, NoConflict, NothingUnlisted, RecordCovers, InFile, JobOK, ScanOK, PendOK
<1>6. InStep
  BY <1>1, <1>2, NoDestIsEmpty, EntryType DEF Init, InStep
<1> QED BY <1>5, <1>6, TypeInit DEF Inv

LEMMA InvStep == Inv /\ [Next]_vars => Inv'
<1> SUFFICES ASSUME Inv, [Next]_vars PROVE Inv'
  OBVIOUS
<1>1. TypeOK'
  BY TypeStep DEF Inv
<1>2. CASE UNCHANGED vars
  BY <1>2 DEF vars, Inv, TypeOK, NoConflict, NothingUnlisted, RecordCovers, InStep, InFile,
              JobOK, ScanOK, ScanOf, PendOK, Back, Now, InFlight
<1> QED BY <1>1, <1>2, WebAskKeeps, ScanAskKeeps, ScanFindsKeeps, RefuseKeeps, ProcessDestKeeps,
           SendKeeps, BoardClearsKeeps, ClearDestSlotKeeps, WebDoneKeeps, ScanDoneKeeps,
           ScanStuckKeeps, ClearKeeps, RestoreKeeps, WrittenKeeps, RebootKeeps DEF Next

LEMMA Invariance == Spec => []Inv
BY InitInv, InvStep, PTL DEF Spec

-----------------------------------------------------------------------------
(* The results.                                                            *)

\* Every variable of TSConstruct.c that the routing uses keeps its type, the number of programs of a
\* request, of channels and of slots being anything.
THEOREM TypeCorrect == Spec => []TypeOK
BY Invariance, PTL DEF Inv

\* No program ever shares an output channel with the stream it is in, neither in s_stTSParam nor in
\* FILE_NAME_TS_CONFIG, whatever requests, scans, failed messages and restarts there are.
THEOREM StreamsAndProgramsApart == Spec => []NoConflict
BY Invariance, PTL DEF Inv

\* What is not in the tables is routed nowhere: TSP_DelInputTS takes a stream and all its programs off
\* their destinations before any of them leaves, and a roll back restores no entry of one that left.
THEOREM UnlistedGoNowhere == Spec => []NothingUnlisted
BY Invariance, PTL DEF Inv

\* s_aru8DestSlotRecord holds every slot that something is routed to, once TSP_RestoreTSMUXInfo has run
\* with no request under way.
THEOREM RecordIsComplete == Spec => []RecordCovers
BY Invariance, PTL DEF Inv

\* The output boards put out what the tables say, but for what is under way and for the entries of
\* messages, clearings and restarts that the history keeps apart.
THEOREM BoardsInStep == Spec => []InStep
BY Invariance, PTL DEF Inv

\* What a restart finds in a file that is whole are the destinations in force: those of the request
\* under way are the ones it began with, which a roll back would bring back, too.
LEMMA RebootRestores ==
    Inv => (Reboot => \/ \A i \in Items : InForce(i) \in {tab'.dest[i], NoDest}
                      \/ storing /\ tab' = NoTable)
<1> SUFFICES ASSUME Inv, Reboot, ~(storing /\ tab' = NoTable), NEW i \in Items
             PROVE  InForce(i) \in {tab'.dest[i], NoDest}
  OBVIOUS
<1>1. tab' = stored
  BY DEF Reboot, OnFlash
<1>2. CASE job.at = "send" /\ i = Now.item
  BY <1>1, <1>2 DEF InForce, Inv, JobOK
<1>3. CASE ~(job.at = "send" /\ i = Now.item)
  BY <1>1, <1>3 DEF InForce, Inv, InFile
<1> QED BY <1>2, <1>3

\* A restart brings back where every stream and program went, each request of a list wholly or not at
\* all, except what an unfinished scan took off; and it loses all tables, or none, only when it falls into
\* the time between fopen and fclose of PARAM_WriteFile.
THEOREM RoutesSurvive == Spec => RestartKeeps
BY Invariance, RebootRestores, PTL DEF RestartKeeps
=============================================================================
