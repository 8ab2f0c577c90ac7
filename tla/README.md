# Verification of the rx_board firmware

TLA+ models of the receiver board's program (`src/src/`), model-checked with
TLC on small instances, with theorems checked by TLAPS for all values of the
constants. `PROJECT.json` lists components, runs, mutants, the map from
definitions to source lines, hazards, findings and theorems.

## 1. The system

`main` (`main.c:140-214`) initialises the board (I2C, FPGA registers, UART, PHY,
network, saved settings) and starts its threads: `Report_ChannelInfo`, the web
server (line 176), `Upgrade_Server` (179), then, after `TSP_Init` (181) has read
the saved tables, `WVCI_TaskMonitoring`, `WVCI_TaskProcess` and `Tuner_process`; at
the end `TSP_RestoreTSMUXInfo` (205) and one scan thread per channel (207). The
server of the inter-board link (127) and the timer tasks (82) are commented out.

| component | state | operations | interacts with |
|---|---|---|---|
| CI slot monitoring (`WV_CI.c`, `WVCI_PlatformDriver.c`) | slot states, last status register, capture flag, retry counters, web status | `WVCI_TaskMonitoring`, `CIMax_CheckSlot`, `STATUS_ResetCAM`, insert and remove events | FPGA register, link layer, web status |
| CI link and transport (`ci_l2.c`, `ci.c`) | send queue, agreed buffer size, `fGotPollAck`, `fRXPending`, `g_ci_mutex` | `CI_CheckSlot`, `CI_CheckConfig`, `SendTransportPacket`, `CI_WriteData`, `Parse_TPDU` | the module in the socket; every thread that sends |
| CI session layer (`ci.c`, `CI_*.c`) | `CiSessions`, the current-session fields | `Parse_SPDU`, Connect, Data and Close of five resources, `CI_ModuleInserted/Removed` | transport below, `WVCI_GUI.c` above by messages |
| CA_PMT senders (`WV_CI.c`, web) | `AutoSendPMT` | `WVCI_PMTCheck`, `WVCI_UpdateSetting`, `WVCI_GenerateCAPMT` | session layer; program tables |
| Tuner control (`Tuner/`) | parameters and a copy of them, change flags, lock status | `Tuner_process`, web set and restore | demodulators; scan threads by a flag |
| TS search and multiplexing (`TSProcess/`) | `s_stTSParam` (streams, programs, PIDs in linked lists over shared arrays, with their destinations), its file, a temporary table per channel, the record of used slots, `s_TSPMutex` | scan, delete, copy, set destinations, clear, restore | tuners, web threads, output boards, SI part |
| SI tables (`SIprocess/`) | sections, versions | build, send | multiplexing |
| Upgrade (`Upgrade/`) | one file, one link, one directory for all connections | receive, check, unpack, run, clean up | TCP peers |
| Inter-board link and management (`Comm/`, `MNG/`) | the answer and the tries of a message | packets with retries; the server is not started | output boards |
| Timer, status, report | task list, counters | periodic tasks | everything |
| Web, XML, parameters | settings | JSON and XML conversions | everything |
| Drivers, network, licence, LUT, log, start-up | registers | I/O | hardware |

What is hard here is concurrency with few locks (one mutex for the send queues
in the CI part, one for the tables, none for tuners and upgrades), a peer that may be
pulled, reset or silent at any moment, one thread that serves four sockets, lists
whose elements live in arrays shared by all channels, and state kept at several
places at once (slot state, stack, web status; tables, file, record, output boards).

What makes each component correct:

* slot monitoring: every change of a socket is handled in the end, a start ends,
  and the stack is told of each removal;
* link: packets of two messages never mix, the poll handshake never stops, the
  mutex is released;
* sessions: a handle has one owner from open to close, nothing outlives the
  module, host and module agree;
* senders: each request for CA_PMTs is served, on the right session;
* tuner and search: a change of frequency is noticed, and each channel's table is
  replaced as a whole without touching another channel's;
* destinations: a program and its stream never share an output channel; tables,
  file, record and boards agree, but for what a failed message leaves in doubt;
* inter-board link: a message counts as sent only when the board has executed all
  of it; upgrade: what is run is what was checked, and nothing stays behind;
* SI: versions change with the content.

The Common Interface, the tables with their scans and destinations, and the upgrade
are modelled: these are the parts with state over time that several threads or peers
change, and that this build really starts.

## 2. Modules and how they correspond to the code

**CISlot** - `WVCI_TaskMonitoring` over all slots. `at` and `u8Slot` are the
thread's place: `GetINTEvent` and `ReadRegister` are the two reads of the status
register, with the sockets (`Socket`) free to change between them; then one step
per slot for `WVCI_InsertCAM`, `WVCI_RemoveCAM` or nothing; then
`CIMax_CheckSlot`, whose retries are steps of their own because the thread
sleeps seconds between them. One counter, `nMaxRetryTimes`, serves the reads of
the attribute memory and then the configurations, as in the code. The states of
the other variables have the names they have in the code.

**CILink** - one slot's send queue. A sender is inside `SendTransportPacket` as
soon as the size test has been passed (`Gate`), waits for the mutex (`Acquire`)
and puts one packet per step (`Write`). `CI_CheckSlot` is cut at its mutex
operations: read, take the mutex, then defer, write, fail or find nothing, then
poll without the mutex. Payload is abstracted to sender, kind and packet number.
The module (external) answers every complete message, delivers data on T_RCV and
says in each T_SB whether it has more. `crashed` is the copy of `wBufferSize - 2`
bytes when the structure was cleared under a waiting sender: nothing runs after it.

**CISession** - `CiSlot[n]` above the transport. One action per case of
`Parse_SPDU`; Connect, Data and Close of the resource are part of it. The
module is arbitrary here. `slot` is what `CISlot` does to this layer; `sendq` is
the send queue counted in SPDUs. Senders run `WVCI_UpdateSetting` in the steps
in which it touches shared state: start, generate or give up, test of the
session, second read of it, queueing, clearing of the flag.
A job is the list of list-management modes for the programs of the slot.
`owed` is a history variable: set by a CA_OK, cleared when a sender does
anything for the slot.

**CISessionTable** - the promise of the session layer to its resources: a handle
is nobody's, or one resource's until closed. `CISession` implements it
with `table[h]` = `pResource[h]` where `fSlotInUse[h]`.

**CISessionCAM** - `CISession` composed with a module that keeps the rules
(one open request at a time, data only on sessions it holds). Both
directions are ordered and lossless; the host's direction is `sendq` itself.

**InputTables** - `TSInfo` as three arrays with lists of indices, and the functions
on them (`TSConstruct.c`, `TSProcess.c`) as operators from a table to a result code and
a table: search in lists, delete, allocate with growth, enter PAT, CAT, PMT and the
other PIDs, copy from the temporary table. An index that is outside an array stays
one: `INDEX_INVALID_VALUE` is 65535. Two slips of the code are kept as
they are: `TSP_DelInputProg` deletes the PCR only when its index is *outside* the table
(`TSConstruct.c:3566`), so PCR entries are left behind and a program without PCR
cannot be deleted; `TSP_CopyInputProg` copies ECMs with no owner
(`TSProcess.c:2416`), so a stream with ECMs of its elementary streams cannot be
deleted either. A PID carries a label, a program its service number.

**Tuner** - `Tuner_process` in the steps between which the web thread may write: compare
and copy, tune, raise the flag. A tuner's parameters are its frequency, the only
field that is compared for DVB-C.

**ScanTS** - one thread per channel (`TSP_ScanTSRoutine`) over `InputTables` and `Tuner`:
asked whether to scan, delete the channel's stream, asked whether the tuner is ready
(of the tuner with the channel's own number, while the flag is that of
`tuner_ts_map`, `tuner.c:239`), parse without the mutex, copy, clear the flags. A step that
holds the mutex is one action. The file of the tables is `stored`; a restart during a
write finds a bad checksum and starts with new tables. That may be at any time here, because requests
for destinations and the restart itself write the file too; Routing has the writes one by one.

**ChannelTables** - what the tables are for: one table per channel, published as a
whole, deleted up to the first program that cannot be deleted. **ScanPromise** adds
the history variable `seen`, what the lists hold with labels in place of indices, and states that
`ScanTS` implements `ChannelTables`.

**BoardSend** - one message of `IPComm_SendData`: a fold over what the network makes of
each try. Kept: one counter for the tries of all packets, an answer that is too short
to be one leaves the command of the answer before (or of the stack), and the
fourth try counts as a time-out even if it went well. `Results` is the set of (what the
caller learns, what the board did).

**Routing** - the destinations of streams and programs. `job` is the owner of
`s_TSPMutex` and its place in the request: check, enter the new destinations into the
tables, one message per slot to delete and one to add, store; on a failed message roll
back the entry and the record. `TSP_GetDestIndex` (`TSConstruct.c:4154`) writes the slot it is asked
for into its place, so each slot below `MAX_DEST` is always found; destinations are therefore
functions from slots to sets of channels, and no slot ever leaves the record in `TSP_ProcessDest`, contrary to
its comment (6168). A channel that stays keeps its bypass flag, whatever is asked. A board that has cleared its
output waits in `pend` for the mutex after it was answered. A scan takes out a
stream by a job of its own, program by program, and may stop half way
(`ScanStuck`, the slips above). `stored` is what was last given to the file, and `storing` says that
`PARAM_WriteFile` has emptied the file (`fopen` with "wb", `parameters.c:81`) and not yet closed it (`Written`). The mutex is
kept until then, so whatever takes it waits for `Free`. A restart in that time finds a wrong CRC and
begins with empty tables, or finds the file whole if it had been written to its end (`OnFlash`); at any other
time it finds `stored`. `TSP_RestoreTSConfiguration` ends with a write of its own (707), so a second restart
can lose everything although nobody has asked for anything. The old
file is what a restart finds between a change of the tables and `fopen`; that is the restart before the action. `suspect` is a history variable: the entries whose board may not
know of the last change.

**UpgradeServer** - one thread per connection; a step is one call that touches the file,
the link or the directory. Files are inodes with a name or none, so that a thread
which still has the file open goes on writing to it after another has unlinked it. What an upload is
worth is chosen at the start; `tail` is an upload whose last file lies in the block
that stdio has not written when `tar` runs. `dir` is what has been unpacked.

**MC...** - each module's instance for TLC. **..._proofs** - the theorems of
CISession and CISessionCAM (`CISessionCAM_proofs`), CILink, CISlot, Routing, UpgradeServer and
ScanTS. Those of ScanTS come in three modules: `InputTables_proofs` (lists, deleting,
allocating), `ParseSI_proofs` (what a scan finds), `ScanTS_proofs` (copying it, and the invariant).

## 3. Runs, bounds and what they show

| run | instance | shows |
|---|---|---|
| `session` | 3 handles (2 usable), queue of 1 SPDU, one sender, four resource requests, jobs of 0 or 2 programs | table, fields and refinement against an arbitrary module; a request ends |
| `session_cam` | 3 handles, queue of 4, 2 messages of the module in flight | given room for the answers of `Parse_SPDU`: agreement of host and module, an answer for each request, nothing said on sessions the module does not hold |
| `link` | queue of 3 packets, messages of 2, module buffer of 2, one sender, one restart | whole messages, no stall, mutex released |
| `slot` | 2 sockets, 2 retries, 3 rounds | insertions, removals and failed starts are taken up; the start ends; the assert holds |
| `scan` | 2 channels and tuners, 3 multiplexes and a frequency without signal, arrays of 2 streams, 2 programs and 6 PIDs that grow by 1 and 4, one setting, one clearing or restart | lists sound, nothing lost but PCR entries, other channels' tables kept by a scan, `ChannelTables` implemented, each flag served |
| `routing` | 2 slots of one channel, one stream of 2 programs, messages of 2 packets, lists of 2, 2 requests, one trouble | agreement of tables, record and boards; no conflict; a restart brings back what was in force, unless it cuts the writing of the file off |
| `upgrade` | 2 connections, any kind of upload, restarts | an upload alone runs exactly when it is good; nothing stays |
| `session_owed`, `session_stale`, `session_mmi`, `slot_removal`, `rescan_after_clear` | as above or smaller | counterexamples, see section 6 |

Two usable handles are the fewest for which one resource's session can be
closed while another's is opened, or two sessions of one resource exist. A queue
of one SPDU makes dropping the normal case; in `session_cam` the
module holds back while the host's queue has no room for the answer
(`Say`), because with a dropped answer there is nothing to agree on. That is an assumption
of the run and not a fact of the code: `CI_WriteData` reserves nothing (`ci_l2.c:116-134`), a module
does not know the queue, and two sender threads with enough programs fill 120 entries; what is lost then is
listed as a hazard. A queue of 3 packets can hold a message of 2 and lose the
second half of another; messages of 3 and two restarts need no other argument
(`WholeMessagesHold`). `FRAGMENTS` must stay below the queue length: a restart
with a sender still inside `SendTransportPacket` may otherwise drop T_CREATE.
Two sockets are the fewest in which the start of one delays the other and
in which they share the capture flag. The retry bound of 2 lets the counter run out
while reading as well as in the configuration.

`SteadySockets` is an assumption of `slot`: a socket changes at most once
between two polls. Without it `Noticed` fails, because the first of the two
register reads records a change that the second one no longer sees.
`PatientMmi` is one of `session_cam`: without it `MmiSessionCurrent` fails,
which is the run `session_mmi`.

In `scan` the three multiplexes are one that can be deleted, one with a program
without PCR and one with ECMs of a stream; the arrays are smaller than any of
them, so each copy allocates, and two channels share what is free. Two channels are
the fewest for which one scan works on lists among which another's lie, and for which the
map {1, 0} differs from the identity. `OnAir` has no list near
`MAX_INDEX_LIST_NUMBER`; in the code a list of exactly 300 already fails.

In `routing` two programs and their stream on one output channel are the fewest rivals;
two slots let the second message fail after the first was executed; two requests let
the second meet what the first left; the programs are interchangeable, hence the symmetry. Restarts are not
bounded, and come in every state, within a write and between the requests of a list. One trouble (a failed message or a board that
clears itself) is enough to leave each pair of places different, and the theorems of section 5 need
no bound. `ServerRuns` is TRUE: without the server no board's address is
known and every message fails, which is a subset of the behaviours.

In `upgrade` two connections are enough to cross; with three TLC needs too long, and
the theorems hold for any number. The run does not check deadlock: when all connections have
ended there is nothing to do. `link` does not check it either: the program may stop in `crashed`.

## 4. Fairness

* `session`: `WVCI_TaskProcess` is an endless loop that polls twice a second, so
  its steps are weakly fair; nothing else is needed.
* `session_cam`: the monitoring thread is an endless loop; reading and writing
  are weakly fair. A module that never stops talking could keep `CI_CheckSlot`
  reading; here it has at most `MAX_IN_FLIGHT` messages under way.
* `link`: each thread runs (weak fairness of its steps). Waiting for the
  mutex is strongly fair: it is released for
  hundreds of milliseconds between rounds, and the threads that take it release
  it within a bounded time. The module answers what it has been sent; that it
  has data at all, that a write fails and that the module is pulled is not fair.
* `slot`: the monitoring thread runs; this includes that `CI_CheckSlot` returns.
* `scan`: `Tuner_process` and the scan threads are endless loops, their steps are
  weakly fair (stated on `pc`, which only the thread itself changes). Reading a
  stream may time out on a missing section; strong fairness of `ReadsAll` says that a
  stream that is read again and again is read to its end at some time. It is
  assumed of the signal, and `FlagServed` asks for nothing unless the tuner is locked for good.
* `routing` and `upgrade` state safety only. Web threads hold `s_TSPMutex` during
  `recv` without a time limit, so that nothing could be promised about the end of a request;
  the upgrade server waits for its client for ever.

## 5. What is proved

For every number of handles, length of the queue, set of senders, set of
requests and set of program counts that `SessionAssumption` allows
(first part of `CISessionCAM_proofs`):

* `TypeCorrect`, `SessionTableHolds`, `CurrentLiveHolds`, `FreshStartHolds`. The
  inductive invariant is `TypeOK /\ SessionTable /\ CurrentLive /\ FreshStart`.
  `CurrentLive` alone is not inductive: when a handle is given out, a field of
  another resource might hold it already; `SessionTable` says that a free
  handle has no resource, so no live field can. `QuietSteps` reduces the 25
  actions to six kinds of effects on the table.
* `ImplementsTable`: the refinement of `CISessionTable`. In the invariant's
  states the abstract table is the `pResource` column; a close of a
  session that is not open is a stutter.

For every number of messages under way, too, and whether or not the module is patient
(second part, from `CamAssumption`): `CamTypeCorrect`; `ImplementsSession`, that the
composition takes no step that `CISession` does not take; and what follows from it,
`SessionSoundWithModule`. The strengthening is `Asked`: an open request under way names a
resource the module can ask for.

What the two promise one another, under the same assumptions (third part):

* `AgreementHolds`: host and module agree on the open sessions whenever nothing is under way.
  None of it is inductive, since between two such moments host and module disagree all the
  time. The invariant `Known` says what may be under way by
  position in the two queues: at most one open request or its answer, which session a grant
  is for, a close and its answer in that order, a request behind the close that made room for it.
  `Accounted` says the converse, that whatever one side waits for is in one of the queues.
  `Known` needs no hypothesis; `Accounted` needs `[]AnswerFits`: when the sender threads fill the
  queue, an answer of `Parse_SPDU` is dropped and the two part. `AnswerFits` is a hypothesis and no
  property of the code, and no run checks it: enough CA_PMTs of enough programs fill any queue. In
  `session_cam` it holds because `Say`, one sender and jobs of one program see to it.
* `MmiSessionCurrentHolds` and `SpeaksOnHeldHolds`, for a module with `PatientMmi` (without it
  `session_mmi` is a counterexample): the MMI field is the session of the dialogue, and what the
  host says on a session is said before the module has given it up. For the second, `InTurn`
  orders the words on a session in the send queue: each lies behind the grant and before the end.

`CamAssumption` has that the value for "no resource" is not a resource; nothing else was added.

For every number of slots and retries, with sockets that change at any time
(`CISlot_proofs`, from `SlotAssumption`): `TypeCorrect`, `AssertNeverFires`,
`InUseShown`. The strengthening is `Starting`: while the thread is inside the start
of a module the slot is INSERTED or CISREAD and a retry is left.

For every length of the send queue and of messages, buffer of the module, set of
senders and number of restarts that `LinkAssumption` allows (`CILink_proofs`):
`TypeCorrect`, `MutualExclusionHolds`, `WholeMessagesHold`. `WholeMessages` is not
inductive. `Mutex` says who holds `g_ci_mutex` and that only its holder is in
the middle of a message, so nobody else writes there. `Middle` says what that thread
finds at the end of the queue: its previous packet, or a queue that was full from the
first packet on and took none. The packets between a sender and the module are
one sequence, `Stream`; a step of `CI_CheckSlot` moves a packet inside
it and changes nothing (`WriteOutKeeps`), a sender adds the right packet or
none (`WriteKeeps`), the module takes off the front (`TakesKeeps`).

`SomeoneMovesHolds`, in the same module, needs `QueueRoom`: one message of every sender and one
packet more fit the queue. Two threads send CA_PMTs and `CI_T_SENDQSIZE` is 120 (`ci.h:157`); without it
a restart can find the queue full of what the senders had begun, and T_CREATE is dropped. `CreateFirst`
says that until T_CREATE is queued no thread begins a message, so that each packet in the queue
is another pair of sender and part, which are fewer than the entries (`RoomForCreate`).
`CreateComes` then has T_CREATE on its way until the module has seen it, `AnswerEnds` that the
module never stops in the middle of an answer, and `Alive` that one of the two has the next move.

For every set of slots (below `MAX_DEST`), channels, streams and programs, every length of
messages and lists and any number of requests and troubles that `RoutingAssumption`
allows (`Routing_proofs`): `TypeCorrect`, `StreamsAndProgramsApart`,
`UnlistedGoNowhere`, `RecordIsComplete`, `BoardsInStep`, `RoutesSurvive`. The
properties are not inductive even together: a roll back brings back the entry that was
kept when the request began. `JobOK` says that what would come back (`Back`)
is as sound as what is there, in conflict with nothing and covered by the
record that comes back with it. `ScanOK` says that a scan still has all listed
programs of its stream on its list when the stream goes; `PendOK` that a board which
has cleared itself puts nothing out but what was sent to it since; `InFile` that what was last given to
the file has each destination in force, but for the request under way and what an unfinished scan took off.
`RoutesSurvive` is about the step of a restart: with a whole file it brings back what `InFile` says is there, and
for the request under way what `JobOK` says was there when it began; only with `storing` may it
find nothing, and then it is nothing at all and never a part. Nothing is used of
`Results` but that a message is a success, or is not.

For every number of connections (`UpgradeServer_proofs`, from `UpgradeAssumption`):
`TypeCorrect`, `OnlyCheckedIsRun`, `GoodUploadsRun`, `AllCleaned`. `Only` says that a thread that no
other crosses is the only one at work, `Held` that file and directory are there only
while a thread that will remove them is at work, `Mine` what the file and the directory hold for an upload
that no other crosses at each place, `RanOK` that nothing is run before its time.

For every set of channels and tuners, size and growth of the arrays, length of the index lists
and number of settings, clearings, restarts and scans (`ScanTS_proofs`, from the assumptions of
`InputTables`, `Tuner` and `ScanTS`): `TypeOKHolds`, `ListsSoundHolds`, `OnlyPCRLostHolds`, `OthersKeptHolds`, each with two
hypotheses:

* `AirFits`: the lists of what is on air fit `MAX_INDEX_LIST_NUMBER` (300). The section parsers see to
  it for programs (200, `SIProcess.c:130`), streams (200) and CA descriptors (20, `SIProcess.c:289, 315, 353`)
  and EMMs (32, `SIProcess.c:477`). Nothing limits the other PIDs, of which the driver reports up to 500
  (`TSConstruct.c:8985`): a stream with 300 of them is copied half (`TSProcess.c:2709`), or has a list that
  cannot be walked. It is listed as a hazard; `MCScanTS` has TLC evaluate `AirFits` on the run's streams.
* `[]TablesFit`: no index of the tables has reached 65535, which the code takes for none. A PCR entry is
  lost with every program that is deleted, so the PID array of the code grows for ever, and it is the
  one thing `OnlyPCRLost` allows. No bound on the number of scans is assumed.

`ListsSound` is not inductive: it asks the list functions of the code what is in the tables, and says nothing of the
entries they do not find. `Inv` says of the tables and of the file that there is a `Layout`: a
sequence of programs `P[i]` for every stream and of PIDs `W[l]` for every list, such that

* each entry is at one place (`Once`), in a list whose owner is in use (`Placed`), and points back (`Back`);
* each entry in use is at one, but for PCR entries (`Covered`);
* the links lead from the head through exactly these entries and end outside the array (`Linked`), before
  the array they are read into does (`Short`).

An operation changes a list in several steps, between which it is neither the old nor the new one, and
reserves entries for what comes; a layout therefore names the lists that are open (`OP`, `OW`), of which the links are
not asked, and the entries reserved (`R`). Deleting (`DelHead`, `DelList`, `DelProgHead`, `DelTS`) takes the first entry
off a list again and again, so every state in between is a layout and an error in the middle, as the two slips
of section 2 cause, leaves one. Entering and copying put entries behind those of a list that is open
(`AddPIDs`, `AddProgs`) and close it when its last link is set (`CloseList`). `ParseSIDone` says that a scan
leaves a layout with one stream, `CopyInputTSDone` that copying such a one into an unused entry of the tables
succeeds and leaves a layout. `LayoutSound` and `LayoutLost` read the properties off it.

`OthersKept` follows from the same layouts. A deletion keeps every entry in use of
other streams (`Apart`, kept through the loops of `DelTS`), and a copy every entry that was in use at all
(`PIDsStay`, `ProgsStay` in `TSCopied`), because what it is given was free (`Fresh`). Since no
entry of a list is of another stream than the list (`EntriesStream`), the lists of the other streams lead
through the same entries as before (`OtherList`), and show the same labels (`ViewStands`).

The loops of the code are recursive functions on numbers (`Follow`, `ForEach`), and the proofs go through them by
the least number at which a claim fails (`Least`, `Upwards`); no theorem with an operator as a parameter is needed.

Only model-checked: liveness (`RequestEnds`, `EveryRequestAnswered`,
`ModuleIsHeard`, `SendReturns`, `Noticed`, `StartEnds`, `FlagServed`), which TLAPS cannot do
under fairness; and `KeepsPromise`, that `ScanTS` implements `ChannelTables`:
`OthersKept` is the part of it that concerns two channels, and the theorems say that what `View` reads is sound, but
that the copy has the labels of what was read, and in their order, is checked by the run `scan` only.

## 6. Disagreements found

* `session_owed`: `WVCI_PMTCheck` clears the request after serving it, and wipes
  out a CA_OK that came meanwhile; `ci.h:450` promises CA_PMTs for it.
* `session_stale`: `CaSupport_SendPMT` tests the session field and reads it
  again without a lock; the CA_PMT may go to session 0 or to a closed one.
* `session_mmi`: `MMI_Close` clears the session field also when it names a newer
  session.
* `slot_removal`: a module pulled after `STATUS_ResetCAM` is never reported as
  removed; the web page goes on showing it as initialised.
* `rescan_after_clear`: clearing the tables from the web page raises a flag so that
  the channels are searched again, as the comment at `TSConstruct.c:8667` says; nothing asks
  for it (`TSProcess.c:2973`), and the tables stay empty until the frequency changes.

Seen while modelling, kept in the models as they are, and contradicting no stated promise
that a run could check:

* `TSConstruct.c:3566`, the PCR condition the wrong way round, and `TSProcess.c:2416`,
  ECMs without owner: the stream cannot be deleted, the scan then finds the old
  one and returns success without copying the new one (`TSProcess.c:2864`);
* `TSProcess.c:2950`: readiness is asked of the tuner with the channel's number, not the
  one that feeds it; `TSP_IsFirstScanTS` is used up by the first question, so a channel
  whose tuner is not locked then is not searched until its frequency changes;
* `TSProcess.c:3049`: the flag is cleared at the end of a scan, together with changes that
  came meanwhile;
* `TSP_CopyInputTS` that fails on the way leaves a valid stream;
* a failed message rolls back the tables while boards already told keep the new
  destinations; `TSP_ClearTSConfiguration` tells no board at all (788-806);
* `TSP_RestoreTSMUXInfo` writes the record without the mutex while the web server
  already runs: a request that is rolled back may lose a slot of the record;
* `parameters.c:81`: the file of the tables is emptied before it is written, with no second copy: a
  restart within the write, which each request for a destination, each scan and each start
  makes, loses all streams, programs and destinations;
* `CI_CaSupport.c:81`: the loop over CA system identifiers ends at `MAX_CASYS_IDS - 1` bytes, so that about half of
  the identifiers the table could hold are taken;
* `IPComm.c:713`: one counter of tries for all packets, and success of the last one is a time-out;
* uploads that cross may run one another's files; only `NothingLeft` holds then.

## 7. Not modelled

Left out of the CI part: contents of CA_PMTs, menus and texts, the byte protocol
of the size handshake and of single writes, the four slots sharing one mutex
(one slot's link is modelled), the hardware state of a module that
`PCMCIA_ResetModule` has reset inside `CI_CheckSlot`, and the parsers of
`PCMCIA.c` and `CI_PMTDec.c`, pure functions from bytes of which the models keep only success or failure.

Left out of tables, tuners and destinations: bit rates; the comparison of
parameters of the other standards (`tuner_dtmb.c:112` copies into the parameters what it should compare);
registers that are only written (`TSP_SetInputLUT` at `TSConstruct.c:753, 1209`, the lamps, the
multicast addresses); `realloc` and `malloc` succeed, and the temporary table of a scan is fresh;
parameter files that are shorter than their header says, which `PARAM_ReadFile` takes for whole; a
power cut after `fclose` and before the kernel has written its buffers (nothing calls `fsync`), which stretches
the time in which the file may be lost; a web request that the server, started at `main.c:176`, takes
before `TSP_Init` (181), which takes no mutex, is through; writes that fail (`fwrite` returns no negative value,
`parameters.c:97`).

Not reachable in this build, and so not modelled: output tables, PID remapping,
descrambling, CA descriptors and the building of SI sections (`TSP_ProcessDescramble` returns
at `TSConstruct.c:7224`); NMS and board manager, which only the server of the inter-board link calls;
the timer tasks; the upgrade over that link (`upgrade.c:200-480`).

Left out of the upgrade: `g_isUpgrading`, which nobody reads, errors of read, uploads
above 16 MB, failing `malloc` and `fopen`, and a thread that reads `connfd` later than the two
seconds after which the next connection is accepted.

The rest is data or I/O with little behaviour over time: JSON, XML and pages, licence, LUT, log,
drivers, network set-up, and the tables of `Language`, `char_conversion` and the firmware images,
which are most of the lines of the repository.

What would come next: four slots on one mutex in `CILink`; the PMT decoder and
`WVCI_GenerateCAPMT` as functions against a reference definition.
