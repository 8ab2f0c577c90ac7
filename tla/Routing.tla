------------------------------- MODULE Routing -------------------------------
(* Where the input streams and their programs go, TSProcess/TSConstruct.c:   *)
(* the destinations (slot and output channel) of every stream and program,   *)
(* the requests of the web threads that change them, the scan that takes a   *)
(* stream out of the tables, the messages to the output boards, the roll     *)
(* back when one fails, the clearing of a slot at the word of its board, the *)
(* file the tables are kept in, and restarts.                                *)
(*                                                                           *)
(* s_TSPMutex is held from the check of a request to the end of its last     *)
(* message: job is its owner and where it is.  A destination is a set of     *)
(* channels per slot: TSP_GetDestIndex writes the slot at the place of its   *)
(* own number, so a slot below MAX_DEST is always found.                     *)
EXTENDS BoardSend, Integers, FiniteSets

CONSTANTS
    Slots,          \* slots of the output boards
    Chans,          \* output channels of a board
    Streams,        \* input streams
    Programs,       \* their programs
    StreamOf,       \* u16TSIndex of each program
    ServerRuns,     \* whether IPComm_Server_Service is started: main() has it commented out, and then
                    \* no board's address is known and no board is heard
    Packets,        \* packets of the data of one message
    MaxList,        \* bound: programs of one web request
    MaxRequests,    \* bound: requests and scans
    MaxTroubles     \* bound: messages that go wrong, boards that clear themselves

MAX_DEST == 4

ASSUME RoutingAssumption ==
    /\ Slots \subseteq 0..(MAX_DEST - 1)
    /\ Streams \cap Programs = {}
    /\ StreamOf \in [Programs -> Streams]
    /\ IsFiniteSet(Programs)
    /\ ServerRuns \in BOOLEAN
    /\ MaxList \in Nat /\ MaxRequests \in Nat /\ MaxTroubles \in Nat

Items == Streams \cup Programs
Dests == [Slots -> SUBSET Chans]
NoDest == [s \in Slots |-> {}]
ProgsOf(t) == {p \in Programs : StreamOf[p] = t}
Entries == Items \X Slots \X Chans

Tables == [listed : SUBSET Items, dest : [Items -> Dests], bypass : [Streams -> Dests]]
NoTable == [listed |-> {}, dest |-> [i \in Items |-> NoDest], bypass |-> [t \in Streams |-> NoDest]]

Requests == [item : Items, dest : Dests, bypass : Dests]

VARIABLES
    tab,        \* s_stTSParam: the streams and programs in it, with their destinations
    stored,     \* what was last given to the file FILE_NAME_TS_CONFIG
    storing,    \* whether that is being written: PARAM_WriteFile is between fopen("wb") and fclose
    record,     \* s_aru8DestSlotRecord
    boot,       \* "loading" in TSP_Init, "booting" until TSP_RestoreTSMUXInfo; "raced" when that was
                \* during a request
    job,        \* the owner of s_TSPMutex
    board,      \* (external) what each output board puts out of each item
    pend,       \* slots whose IPCOMM_SEND_CLEAR_OUTPUT_TS is answered and waits for the mutex
    suspect,    \* history: entries whose board may not know of the last change
    requests, troubles

vars == <<tab, stored, storing, record, boot, job, board, pend, suspect, requests, troubles>>

NoJob == [who |-> "nobody", at |-> "idle", todo |-> << >>, del |-> NoDest, add |-> NoDest,
          keep |-> [dest |-> NoDest, bypass |-> NoDest, record |-> {}]]

Job(who, todo) == [NoJob EXCEPT !.who = who, !.at = "check", !.todo = todo]
Now == job.todo[1]

\* Entries that differ between two tables.
Differ(d1, d2) == {e \in Entries : (e[3] \in d1[e[1]][e[2]]) # (e[3] \in d2[e[1]][e[2]])}
\* s_TSPMutex is free: it is kept until the file is written.
Free == job = NoJob /\ ~storing

SlotsUsed(t) == {s \in Slots : \E i \in Items : t.dest[i][s] # {}}

Init ==
    /\ \E l \in SUBSET Items :
          /\ \A p \in Programs \cap l : StreamOf[p] \in l
          /\ tab = [NoTable EXCEPT !.listed = l]
    /\ stored = tab /\ storing = TRUE
    /\ record = {} /\ boot = "loading"
    /\ job = NoJob
    /\ board = [s \in Slots |-> [i \in Items |-> {}]]
    /\ pend = {} /\ suspect = {}
    /\ requests = 0 /\ troubles = 0

-----------------------------------------------------------------------------
(* Requests.                                                               *)

Ask(j) ==
    /\ Free /\ requests < MaxRequests
    /\ requests' = requests + 1
    /\ job' = j
    /\ UNCHANGED <<tab, stored, storing, record, boot, board, pend, suspect, troubles>>

web_processSetTsOutput ==
    \E r \in Requests :
        /\ r.item \in Streams
        /\ \A s \in Slots : r.bypass[s] \subseteq r.dest[s]
        /\ Ask(Job("web", <<r>>))

\* A list of programs, each with its destinations; the mutex is held for all of them.
web_processSetProgramOutput ==
    \E n \in 1..MaxList : \E l \in [1..n -> {r \in Requests : r.item \in Programs /\ r.bypass = NoDest}] :
        Ask(Job("web", l))

ToNowhere(i) == [item |-> i, dest |-> NoDest, bypass |-> NoDest]

\* TSP_DelInputTS takes the stream off its destinations, then each program in the order of its list.
TSP_DelInputTSByChannel(t) ==
    /\ t \in tab.listed
    /\ \E l \in [1..Cardinality(ProgsOf(t) \cap tab.listed) -> ProgsOf(t) \cap tab.listed] :
          /\ \A p \in ProgsOf(t) \cap tab.listed : \E k \in DOMAIN l : l[k] = p
          /\ Ask(Job("scan", <<ToNowhere(t)>> \o [k \in DOMAIN l |-> ToNowhere(l[k])]))

\* The scan then enters what it found on the channel, with no destinations (TSP_CopyInputTS).
ScanFinds(t) ==
    /\ Free /\ t \notin tab.listed
    /\ \E ps \in SUBSET ProgsOf(t) :
          tab' = [tab EXCEPT !.listed = @ \cup {t} \cup ps,
                             !.dest = [i \in Items |-> IF i \in ps \cup {t} THEN NoDest ELSE @[i]],
                             !.bypass = [@ EXCEPT ![t] = NoDest]]
    /\ stored' = tab' /\ storing' = TRUE
    /\ UNCHANGED <<record, boot, job, board, pend, suspect, requests, troubles>>

-----------------------------------------------------------------------------
(* Working a request off.                                                  *)

\* Mutant of CheckDestParam: the programs of a stream are not asked.
CheckProgDestParamOnly(r) ==
    r.item \in Programs => \A s \in Slots : r.dest[s] \cap tab.dest[StreamOf[r.item]][s] = {}

\* TSP_CheckTSDestParam and TSP_CheckProgDestParam: a program and its stream never share a channel.
CheckDestParam(r) ==
    LET rivals == IF r.item \in Streams THEN ProgsOf(r.item) \cap tab.listed ELSE {StreamOf[r.item]}
    IN  \A x \in rivals, s \in Slots : r.dest[s] \cap tab.dest[x][s] = {}

\* Mutant of BypassAfter: a channel that is deleted keeps its flag.
BypassStays(old, oldBypass, r) ==
    [s \in Slots |-> oldBypass[s] \cup (r.bypass[s] \cap (r.dest[s] \ old[s]))]

\* TSP_ProcessDest changes the channels that differ and no other: a channel that stays keeps its
\* bypass flag, whatever the request says of it.
BypassAfter(old, oldBypass, r) ==
    [s \in Slots |-> (oldBypass[s] \cap r.dest[s]) \cup (r.bypass[s] \cap (r.dest[s] \ old[s]))]

\* Mutant of Enter: the record loses a slot that this item leaves, whoever else goes there.
EnterForgets(i, old, r) ==
    /\ tab' = [tab EXCEPT !.dest[i] = r.dest,
                          !.bypass = IF i \in Streams
                                     THEN [@ EXCEPT ![i] = BypassAfter(old, tab.bypass[i], r)] ELSE @]
    /\ record' = (record \ {s \in Slots : r.dest[s] = {}}) \cup {s \in Slots : r.dest[s] # {}}

\* The tables take the new destinations before any board is told.  No slot ever leaves the record:
\* the test for that finds every slot in use, its getter having entered it.
Enter(i, old, r) ==
    /\ tab' = [tab EXCEPT !.dest[i] = r.dest,
                          !.bypass = IF i \in Streams
                                     THEN [@ EXCEPT ![i] = BypassAfter(old, tab.bypass[i], r)] ELSE @]
    /\ record' = record \cup {s \in Slots : r.dest[s] # old[s]}

\* Refused: not in the tables, a rival on the channel, or (a bypass) a board that reports it busy.
Refuse ==
    /\ job.who = "web" /\ job.at = "check" /\ ~storing
    /\ \/ Now.item \notin tab.listed
       \/ ~CheckDestParam(Now)
       \/ Now.bypass # NoDest
    /\ job' = NoJob
    /\ UNCHANGED <<tab, stored, storing, record, boot, board, pend, suspect, requests, troubles>>

TSP_ProcessDest ==
    /\ job.at = "check" /\ ~storing
    /\ job.who = "web" => Now.item \in tab.listed /\ CheckDestParam(Now)
    /\ LET i == Now.item
           old == tab.dest[i]
       IN  /\ Enter(i, old, Now)
           /\ job' = [job EXCEPT !.at = "send",
                                 !.del = [s \in Slots |-> old[s] \ Now.dest[s]],
                                 !.add = [s \in Slots |-> Now.dest[s] \ old[s]],
                                 !.keep = [dest |-> old, record |-> record,
                                           bypass |-> IF i \in Streams THEN tab.bypass[i] ELSE NoDest]]
    /\ UNCHANGED <<stored, storing, boot, board, pend, suspect, requests, troubles>>

\* TSP_ERROR: the entry and the record as they were; the boards already told are told nothing.
Rollback(i) ==
    /\ tab' = [tab EXCEPT !.dest[i] = job.keep.dest,
                          !.bypass = IF i \in Streams THEN [@ EXCEPT ![i] = job.keep.bypass] ELSE @]
    /\ record' = job.keep.record

SendResults == IF ServerRuns THEN SlotResults(Packets) ELSE {[ok |-> FALSE, done |-> FALSE]}
Fine == [ok |-> TRUE, done |-> TRUE]

\* The rest of a message to slot s that changes what it puts out of item i from the channels of the
\* board to after: change is what is in the message.
Told(i, s, change, after, left) ==
    \E r \in SendResults :
        /\ r = Fine \/ troubles < MaxTroubles
        /\ troubles' = IF r = Fine THEN troubles ELSE troubles + 1
        /\ board' = IF r.done THEN [board EXCEPT ![s][i] = after] ELSE board
        /\ IF r.ok
           THEN /\ job' = left
                /\ suspect' = IF r.done /\ s \notin pend THEN suspect \ ({i} \X {s} \X change)
                              ELSE suspect \cup ({i} \X {s} \X change)
                /\ UNCHANGED <<tab, record>>
           ELSE /\ Rollback(i)
                /\ job' = NoJob
                /\ suspect' = suspect \cup {e \in Entries : e[1] = i /\ (e[3] \in tab.dest[i][e[2]])
                                                                       # (e[3] \in job.keep.dest[e[2]])}
        /\ UNCHANGED <<stored, storing, boot, pend, requests>>

\* TSP_DelOutputBoardTS / TSP_DelOutputBoardProg, in the order of the slots.
SendDel(s) ==
    /\ job.at = "send" /\ job.del[s] # {}
    /\ \A q \in Slots : job.del[q] # {} => s <= q
    /\ Told(Now.item, s, job.del[s], board[s][Now.item] \ job.del[s], [job EXCEPT !.del[s] = {}])

\* TSP_AddTSToOutputBoard / TSP_AddProgToOutputBoard, in the order of the request.
SendAdd(s) ==
    /\ job.at = "send" /\ job.del = NoDest /\ job.add[s] # {}
    /\ Told(Now.item, s, job.add[s], board[s][Now.item] \cup job.add[s], [job EXCEPT !.add[s] = {}])

\* What the messages still to be sent are about.
InFlight == {e \in Entries : job.at = "send" /\ e[1] = Now.item /\ e[3] \in job.del[e[2]] \cup job.add[e[2]]}

AllSent == job.at = "send" /\ job.del = NoDest /\ job.add = NoDest

\* Mutant of Rest: the mutex is kept after the last request.
RestKept == Job(job.who, Tail(job.todo))

Rest == IF Len(job.todo) = 1 THEN NoJob ELSE Job(job.who, Tail(job.todo))

\* Mutant of WebDone: a list is stored when all of it is done.
WebDoneLast ==
    /\ job.who = "web" /\ AllSent
    /\ stored' = IF Len(job.todo) = 1 THEN tab ELSE stored
    /\ storing' = (Len(job.todo) = 1)
    /\ job' = Rest
    /\ UNCHANGED <<tab, record, boot, board, pend, suspect, requests, troubles>>

\* Every request of a list is stored on its own; the next one waits for the file.
WebDone ==
    /\ job.who = "web" /\ AllSent
    /\ stored' = tab /\ storing' = TRUE
    /\ job' = Rest
    /\ UNCHANGED <<tab, record, boot, board, pend, suspect, requests, troubles>>

\* Programs go out of the tables one by one; the stream goes last, and then the file is written.
ScanDone ==
    /\ job.who = "scan" /\ AllSent
    /\ job' = Rest
    /\ LET gone == IF Now.item \in Programs THEN {Now.item} ELSE {}
           last == IF Len(job.todo) = 1 THEN {t \in Streams : t = Now.item \/
                                                (Now.item \in Programs /\ t = StreamOf[Now.item])} ELSE {}
       IN  /\ tab' = [tab EXCEPT !.listed = @ \ (gone \cup last)]
           /\ stored' = IF last # {} THEN tab' ELSE stored
           /\ storing' = (last # {})
    /\ UNCHANGED <<record, boot, board, pend, suspect, requests, troubles>>

\* A program that has no PCR cannot be deleted (InputTables): the scan stops with what it has done.
ScanStuck ==
    /\ job.who = "scan" /\ AllSent /\ Now.item \in Programs
    /\ job' = NoJob
    /\ UNCHANGED <<tab, stored, storing, record, boot, board, pend, suspect, requests, troubles>>

-----------------------------------------------------------------------------
(* What the boards, the web and the power do.                              *)

\* A board has cleared its output and says so; it is answered before the tables are touched.
BoardClears(s) ==
    /\ ServerRuns /\ s \notin pend /\ troubles < MaxTroubles
    /\ troubles' = troubles + 1
    /\ board' = [board EXCEPT ![s] = [i \in Items |-> {}]]
    /\ pend' = pend \cup {s}
    /\ UNCHANGED <<tab, stored, storing, record, boot, job, suspect, requests>>

\* Mutant of TSP_ProcessClearDestSlot: the streams keep the slot.
ClearDestSlotOfProgs(s) ==
    /\ s \in pend /\ Free
    /\ tab' = [tab EXCEPT !.dest = [i \in Items |-> IF i \in Programs THEN [@[i] EXCEPT ![s] = {}] ELSE @[i]]]
    /\ stored' = tab' /\ storing' = TRUE
    /\ record' = record \ {s}
    /\ pend' = pend \ {s}
    /\ UNCHANGED <<boot, job, board, suspect, requests, troubles>>

TSP_ProcessClearDestSlot(s) ==
    /\ s \in pend /\ Free
    /\ tab' = [tab EXCEPT !.dest = [i \in Items |-> [@[i] EXCEPT ![s] = {}]],
                          !.bypass = [t \in Streams |-> [@[t] EXCEPT ![s] = {}]]]
    /\ stored' = tab' /\ storing' = TRUE
    /\ record' = record \ {s}
    /\ pend' = pend \ {s}
    /\ UNCHANGED <<boot, job, board, suspect, requests, troubles>>

\* The output boards are not told: the loop that did is commented out.
TSP_ClearTSConfiguration ==
    /\ Free /\ requests < MaxRequests
    /\ requests' = requests + 1
    /\ tab' = NoTable /\ stored' = NoTable /\ storing' = TRUE
    /\ record' = {}
    /\ suspect' = suspect \cup Differ(tab.dest, NoTable.dest)
    /\ UNCHANGED <<boot, job, board, pend, troubles>>

\* The web server runs before the record is restored, and restoring it takes no mutex.
TSP_RestoreTSMUXInfo ==
    /\ boot = "booting"
    /\ record' = record \cup SlotsUsed(tab)
    /\ boot' = IF job.at = "send" THEN "raced" ELSE "up"
    /\ UNCHANGED <<tab, stored, storing, job, board, pend, suspect, requests, troubles>>

\* PARAM_WriteFile has closed the file; at the start TSP_Init is through with it.
Written ==
    /\ storing /\ storing' = FALSE
    /\ boot' = IF boot = "loading" THEN "booting" ELSE boot
    /\ UNCHANGED <<tab, stored, record, job, board, pend, suspect, requests, troubles>>

\* What a restart finds.  fopen("wb") empties the file first: one that is not written to its end has
\* the wrong CRC, and TSP_InitTSInfo makes empty tables instead.
OnFlash == IF storing THEN {stored, NoTable} ELSE {stored}

\* At any time.  What was found is written again at once, by TSP_RestoreTSConfiguration.
Reboot ==
    /\ \E t \in OnFlash :
          /\ tab' = t /\ stored' = t
          /\ suspect' = suspect \cup InFlight \cup Differ(tab.dest, t.dest) \cup (Items \X pend \X Chans)
    /\ storing' = TRUE /\ boot' = "loading"
    /\ record' = {}
    /\ job' = NoJob
    /\ pend' = {}
    /\ UNCHANGED <<board, requests, troubles>>

Next ==
    \/ web_processSetTsOutput \/ web_processSetProgramOutput
    \/ \E t \in Streams : TSP_DelInputTSByChannel(t) \/ ScanFinds(t)
    \/ Refuse \/ TSP_ProcessDest
    \/ \E s \in Slots : SendDel(s) \/ SendAdd(s) \/ BoardClears(s) \/ TSP_ProcessClearDestSlot(s)
    \/ WebDone \/ ScanDone \/ ScanStuck
    \/ TSP_ClearTSConfiguration \/ TSP_RestoreTSMUXInfo \/ Written \/ Reboot

Spec == Init /\ [][Next]_vars

-----------------------------------------------------------------------------
TypeOK ==
    /\ tab \in Tables /\ stored \in Tables /\ storing \in BOOLEAN
    /\ record \subseteq Slots /\ pend \subseteq Slots
    /\ boot \in {"loading", "booting", "raced", "up"}
    /\ job \in [who : {"nobody", "web", "scan"}, at : {"idle", "check", "send"}, todo : Seq(Requests),
                del : Dests, add : Dests,
                keep : [dest : Dests, bypass : Dests, record : SUBSET Slots]]
    /\ (job.at = "idle") <=> (job.todo = << >>)
    /\ board \in [Slots -> [Items -> SUBSET Chans]]
    /\ suspect \subseteq Entries
    /\ requests \in 0..MaxRequests /\ troubles \in 0..MaxTroubles

Clash(t) == \E p \in Programs, s \in Slots : t.dest[p][s] \cap t.dest[StreamOf[p]][s] # {}

\* A program and the stream it is in never go to one output channel, in the tables or in the file:
\* each request checks the other kind, and neither a roll back nor a restart may bring back an
\* entry that something else has taken the place of.
NoConflict == ~Clash(tab) /\ ~Clash(stored)

\* What is not in the tables goes nowhere and is in no program list, and what is put back from the
\* file is sound likewise: a scan that fails half way leaves no program without its stream.
ListedOK(t) ==
    /\ \A i \in Items \ t.listed : t.dest[i] = NoDest
    /\ \A p \in Programs \cap t.listed : StreamOf[p] \in t.listed
    /\ \A i \in Streams, s \in Slots : t.bypass[i][s] \subseteq t.dest[i][s]
NothingUnlisted == ListedOK(tab) /\ ListedOK(stored)

\* Every slot something goes to is in the record that TSP_UpdateInputLUTInfo asks: unless the record was
\* restored in the middle of a request, whose roll back may then lose it.
RecordCovers == boot = "up" => SlotsUsed(tab) \subseteq record

\* An output board puts out exactly what the tables say, but for the entries of a message under way, of a
\* slot whose clearing waits for the mutex, and those the history suspects.
InStep ==
    \A e \in Entries \ (suspect \cup InFlight) :
        e[2] \notin pend => ((e[3] \in tab.dest[e[1]][e[2]]) <=> (e[3] \in board[e[2]][e[1]]))

\* Where an item goes when the request under way is not counted.
InForce(i) == IF job.at = "send" /\ i = Now.item THEN job.keep.dest ELSE tab.dest[i]

\* A restart brings every stream and program back to where it went, and a request that it cuts off is
\* as if it had not been asked, in a list too: what was done of it is in the file by then.  There are two
\* exceptions: what a scan took off and could not finish with goes where it went before; and when the
\* file was being written (by a request, a scan, a clearing, or the restart before) all may be lost.
RestartKeeps ==
    [][Reboot => \/ \A i \in Items : InForce(i) \in {tab'.dest[i], NoDest}
                 \/ storing /\ tab' = NoTable]_vars
=============================================================================
