--------------------------------- MODULE ScanTS ---------------------------------
(***************************************************************************)
(* The threads that search the input streams: one TSP_ScanTSRoutine per    *)
(* channel, all working on the shared tables under s_TSPMutex, next to     *)
(* Tuner_process, which changes what is on a channel, and the web thread,  *)
(* which sets the tuners and clears the tables.  The board may restart.    *)
(***************************************************************************)
EXTENDS InputTables, Tuner

CONSTANTS
    OnAir,          \* the multiplex of each frequency that has a signal
    MaxEvents       \* bound of the exploration: clearings of the tables and restarts

ASSUME ScanAssumption == MaxEvents \in Nat

VARIABLES
    tab,                \* s_stTSParam
    stored,             \* the file ts.config
    temp,               \* s_arstTempTSParam, while a scan has something in it
    pc,
    aru8Count,          \* the channel was looked at once (TSP_IsFirstScanTS)
    s_aru8ClearTSFlag,
    events

scanVars == <<temp, pc, aru8Count, s_aru8ClearTSFlag>>
vars == <<tab, stored, scanVars, events, tunerVars>>

Channels == 0 .. INIT_TS_NUM - 1
NoTemp == [ts |-> << >>, prog |-> << >>, pid |-> << >>]
NoMultiplex == [pat |-> FALSE, progs |-> << >>, emm |-> << >>, other |-> << >>]

NewTables == InitTSInfo(INIT_TS_NUM, INIT_PROG_NUM, INIT_PID_NUM)

\* The scan threads as the program starts them.
ScanStart(t, at, count, clear) ==
    /\ t = [c \in Channels |-> NoTemp]
    /\ at = [c \in Channels |-> "sleep"]
    /\ count = [c \in Channels |-> FALSE]
    /\ clear = [c \in Channels |-> FALSE]

Init ==
    /\ tab = NewTables /\ stored = NewTables
    /\ ScanStart(temp, pc, aru8Count, s_aru8ClearTSFlag)
    /\ stCParams = [k \in Tuners |-> DefaultFreq]
    /\ TunerStart(stCParams, stCOldParams, tuned, b_IsLockFreqChange, tunerAt, u8TunerIdx)
    /\ sets = 0 /\ events = 0

\* What the tuner of channel c delivers.
Stream(c) == IF isChannelLock(tuner_ts_map(c)) THEN OnAir[tuned[tuner_ts_map(c)]] ELSE NoMultiplex

-----------------------------------------------------------------------------
(* One round of TSP_ScanTSRoutine.                                         *)

Goto(c, to) == pc' = [pc EXCEPT ![c] = to]

IsNeedToScanTS(c) ==
    /\ pc[c] = "sleep"
    /\ ~aru8Count[c] \/ b_IsLockFreqChange[tuner_ts_map(c)]
    /\ aru8Count' = [aru8Count EXCEPT ![c] = TRUE]
    /\ Goto(c, "delete")
    /\ UNCHANGED <<tab, stored, temp, s_aru8ClearTSFlag, events, tunerVars>>

\* The file is written after a success only; what was done before a failure stays in the tables.
Changed(r) == tab' = r.t /\ stored' = IF r.err = "SUCCESS" THEN r.t ELSE stored

\* Mutant of DelInputTSByChannel: the file is written whatever the deletion came to.
DelInputTSByChannelStores(c) ==
    /\ pc[c] = "delete"
    /\ LET i == InputTSIndex(tab, c)
       IN  IF i.err = "NOT_EXIST" THEN UNCHANGED <<tab, stored>>
           ELSE tab' = DelInputTS(tab, i.list[1]).t /\ stored' = tab'
    /\ Goto(c, "ready")
    /\ UNCHANGED <<temp, aru8Count, s_aru8ClearTSFlag, events, tunerVars>>

\* Its failure is only logged.
DelInputTSByChannel(c) ==
    /\ pc[c] = "delete"
    /\ LET i == InputTSIndex(tab, c)
       IN  IF i.err = "NOT_EXIST" THEN UNCHANGED <<tab, stored>>
           ELSE Changed(DelInputTS(tab, i.list[1]))
    /\ Goto(c, "ready")
    /\ UNCHANGED <<temp, aru8Count, s_aru8ClearTSFlag, events, tunerVars>>

\* The tuner asked is number c, not the one that feeds the channel.
IsReadyToScanTS(c) ==
    /\ pc[c] = "ready"
    /\ Goto(c, IF isChannelLock(c) THEN "parse" ELSE "sleep")
    /\ UNCHANGED <<tab, stored, temp, aru8Count, s_aru8ClearTSFlag, events, tunerVars>>

Parsed(c, r) ==
    IF r.err = "SUCCESS" THEN temp' = [temp EXCEPT ![c] = r.t] /\ Goto(c, "copy")
    ELSE UNCHANGED temp /\ Goto(c, "sleep")

ScanParse(c) ==
    /\ pc[c] = "parse"
    /\ Parsed(c, ParseSI(c, Stream(c)))
    /\ UNCHANGED <<tab, stored, aru8Count, s_aru8ClearTSFlag, events, tunerVars>>

\* A section that does not come ends the scan.
ScanParseError(c) ==
    /\ pc[c] = "parse"
    /\ Stream(c) # NoMultiplex
    /\ Goto(c, "sleep")
    /\ UNCHANGED <<tab, stored, temp, aru8Count, s_aru8ClearTSFlag, events, tunerVars>>

Copied(c, r) == Changed(r) /\ Goto(c, IF r.err = "SUCCESS" THEN "clear" ELSE "sleep")

\* A channel that still has a stream keeps it, and the scan counts as a success.
CopyScanned(c) ==
    LET i == UnusedTS(tab, 1)
    IN  IF InputTSIndex(tab, c).err = "SUCCESS" THEN UNCHANGED <<tab, stored>> /\ Goto(c, "clear")
        ELSE IF i.err # "SUCCESS" THEN UNCHANGED <<tab, stored>> /\ Goto(c, "sleep")
        ELSE Copied(c, CopyInputTS(tab, i.list[1], temp[c]))

\* Mutant of ScanCopy: the temporary tables are not cleared.
ScanCopyKeepsTemp(c) ==
    /\ pc[c] = "copy"
    /\ CopyScanned(c)
    /\ UNCHANGED <<temp, aru8Count, s_aru8ClearTSFlag, events, tunerVars>>

ScanCopy(c) ==
    /\ pc[c] = "copy"
    /\ CopyScanned(c)
    /\ temp' = [temp EXCEPT ![c] = NoTemp]
    /\ UNCHANGED <<aru8Count, s_aru8ClearTSFlag, events, tunerVars>>

\* Mutant of ClearFlags: the flag of tuner c, as IsReadyToScanTS would have it.
ClearFlagsOfTuner(c) ==
    /\ pc[c] = "clear"
    /\ b_IsLockFreqChange' = [b_IsLockFreqChange EXCEPT ![c] = FALSE]
    /\ s_aru8ClearTSFlag' = [s_aru8ClearTSFlag EXCEPT ![c] = FALSE]
    /\ Goto(c, "sleep")
    /\ UNCHANGED <<tab, stored, temp, aru8Count, events,
                   stCParams, stCOldParams, tuned, tunerAt, u8TunerIdx, sets>>

ClearFlags(c) ==
    /\ pc[c] = "clear"
    /\ b_IsLockFreqChange' = [b_IsLockFreqChange EXCEPT ![tuner_ts_map(c)] = FALSE]
    /\ s_aru8ClearTSFlag' = [s_aru8ClearTSFlag EXCEPT ![c] = FALSE]
    /\ Goto(c, "sleep")
    /\ UNCHANGED <<tab, stored, temp, aru8Count, events,
                   stCParams, stCOldParams, tuned, tunerAt, u8TunerIdx, sets>>

ScanTSRoutine(c) ==
    \/ IsNeedToScanTS(c) \/ DelInputTSByChannel(c) \/ IsReadyToScanTS(c)
    \/ ScanParse(c) \/ ScanParseError(c) \/ ScanCopy(c) \/ ClearFlags(c)

-----------------------------------------------------------------------------
(* The web thread and the board.                                           *)

ClearTSConfiguration ==
    /\ events < MaxEvents
    /\ events' = events + 1
    /\ tab' = ClearTSInfo(tab) /\ stored' = tab'
    /\ s_aru8ClearTSFlag' = [c \in Channels |-> TRUE]
    /\ UNCHANGED <<temp, pc, aru8Count, tunerVars>>

WebSetTuner ==
    /\ \E k \in Tuners, f \in Freqs : SetLockParam(k, f)
    /\ UNCHANGED <<tab, stored, scanVars, events>>

TunerThread == Tuner_process /\ UNCHANGED <<tab, stored, scanVars, events>>

\* A restart while the file is being written finds a bad checksum and starts with new tables.  It may be
\* at any time: web requests for destinations write it (Routing), and so does a restart itself.
Reboot ==
    /\ events < MaxEvents
    /\ events' = events + 1
    /\ \/ tab' = stored
       \/ tab' = NewTables
    /\ stored' = tab'
    /\ ScanStart(temp', pc', aru8Count', s_aru8ClearTSFlag')
    /\ TunerStart(stCParams, stCOldParams', tuned', b_IsLockFreqChange', tunerAt', u8TunerIdx')
    /\ UNCHANGED <<stCParams, sets>>

Next ==
    \/ \E c \in Channels : ScanTSRoutine(c)
    \/ ClearTSConfiguration \/ WebSetTuner \/ TunerThread \/ Reboot

Spec == Init /\ [][Next]_vars

\* Every thread is scheduled; a channel that is read again and again is read to its end at some time.
\* (Only the thread of a channel moves its pc, so a move stands for the step and TLC can tell cheaply
\* whether there is one.)
Places == {"sleep", "delete", "ready", "parse", "copy", "clear"}
Moves(c) ==
    /\ pc[c] = "sleep" => ~aru8Count[c] \/ b_IsLockFreqChange[tuner_ts_map(c)]
    /\ \E to \in Places \ {pc[c]} : Goto(c, to)
ReadsAll(c) == pc[c] = "parse" /\ Goto(c, "copy")

Fairness ==
    /\ WF_vars(TunerThread)
    /\ \A c \in Channels : WF_pc(Moves(c)) /\ SF_pc(ReadsAll(c))

FairSpec == Spec /\ Fairness

-----------------------------------------------------------------------------
(* What the lists hold.                                                    *)

ListOf(l) == IF l.err = "SUCCESS" THEN l.list ELSE << >>

\* A stream as its lists give it, with labels in place of indices.
ViewProg(t, p) ==
    [sid |-> t.prog[p].sid,
     pcr |-> IF t.prog[p].pcr \in DOMAIN t.pid THEN t.pid[t.prog[p].pcr].pid ELSE NoPID,
     es  |-> LET es == ListOf(InProgESPIDIndexList(t, p))
             IN  [k \in DOMAIN es |-> [pid |-> t.pid[es[k]].pid,
                                       ecm |-> LET e == ListOf(InPIDESECMPIDIndexList(t, es[k]))
                                               IN  [n \in DOMAIN e |-> t.pid[e[n]].pid]]],
     cas |-> LET e == ListOf(InProgPSECMPIDIndexList(t, p)) IN [n \in DOMAIN e |-> t.pid[e[n]].pid]]

View(t, i) ==
    LET progs == ListOf(InTSProgIndexList(t, i))
        emm == ListOf(InTSEMMPIDIndexList(t, i))
        other == ListOf(InTSOtherPIDIndexList(t, i))
    IN  [progs |-> [k \in DOMAIN progs |-> ViewProg(t, progs[k])],
         emm   |-> [n \in DOMAIN emm |-> t.pid[emm[n]].pid],
         other |-> [n \in DOMAIN other |-> t.pid[other[n]].pid]]

NoTable == [none |-> TRUE]

TableOf(t, c) ==
    IF InputTSIndex(t, c).err = "SUCCESS" THEN View(t, InputTSIndex(t, c).list[1]) ELSE NoTable

Directory(t) == [c \in Channels |-> TableOf(t, c)]

ValidTS(t) == {i \in DOMAIN t.ts : t.ts[i].valid}
ProgsOf(t, i) == ListOf(InTSProgIndexList(t, i))

\* A list of PIDs has a name, its type and its owner; a program's PCR is a list of one.
ListNamed(t, l) ==
    CASE l[1] = "PCRPID"    -> Found(IF t.prog[l[2]].pcr \in DOMAIN t.pid THEN <<t.prog[l[2]].pcr>> ELSE << >>)
      [] l[1] = "ESPID"     -> InProgESPIDIndexList(t, l[2])
      [] l[1] = "PS_ECMPID" -> InProgPSECMPIDIndexList(t, l[2])
      [] l[1] = "ES_ECMPID" -> InPIDESECMPIDIndexList(t, l[2])
      [] l[1] = "EMMPID"    -> InTSEMMPIDIndexList(t, l[2])
      [] l[1] = "OTHERPID"  -> InTSOtherPIDIndexList(t, l[2])
PIDsIn(t, l) == ListOf(ListNamed(t, l))

ListsOfProg(t, p) ==
    ({"PCRPID", "ESPID", "PS_ECMPID"} \X {p}) \cup ({"ES_ECMPID"} \X ToSet(PIDsIn(t, <<"ESPID", p>>)))
ListsOfTS(t, i) ==
    ({"EMMPID", "OTHERPID"} \X {i}) \cup UNION {ListsOfProg(t, p) : p \in ToSet(ProgsOf(t, i))}
PIDLists(t) == UNION {ListsOfTS(t, i) : i \in ValidTS(t)}

-----------------------------------------------------------------------------
(* Properties.                                                             *)

\* What the theorems of ScanTS_proofs assume: of what is on air, and of the size the tables grow to.
AirFits == \A f \in LockedFreqs : ScanFits(OnAir[f])
TablesFit == Fits(tab)

EntryOK(table, zero) == \A i \in DOMAIN table : DOMAIN table[i] = DOMAIN zero

\* Type invariant.
TypeOK ==
    /\ TunerTypeOK
    /\ \A t \in {tab, stored} : EntryOK(t.ts, ZeroTS) /\ EntryOK(t.prog, ZeroProg) /\ EntryOK(t.pid, ZeroPID)
    /\ pc \in [Channels -> Places]
    /\ \A c \in Channels : (temp[c] # NoTemp) <=> (pc[c] = "copy")
    /\ aru8Count \in [Channels -> BOOLEAN] /\ s_aru8ClearTSFlag \in [Channels -> BOOLEAN]
    /\ events \in 0 .. MaxEvents

\* In memory and in the file, every list can be walked (TSP_GetIn...IndexList succeeds for each
\* valid owner), holds entries that are valid, of the list's type and point back to their stream and
\* program, and no entry is in two places, whatever the scans of several channels deleted and copied
\* in turn.
Entries(S, InList(_)) ==
    UNION {LET list == InList(l) IN {<<l, k, list[k]>> : k \in DOMAIN list} : l \in S}
NoneTwice(entries) == \A a, b \in entries : a[3] = b[3] => a = b

Sound(t) ==
    /\ \A i \in ValidTS(t) :
         /\ InTSProgIndexList(t, i).err = "SUCCESS"
         /\ \A p \in ToSet(ProgsOf(t, i)) : t.prog[p].valid /\ t.prog[p].ts = i
    /\ \A l \in PIDLists(t) :
         LET r == ListNamed(t, l) IN
         /\ r.err = "SUCCESS"
         /\ \A j \in ToSet(r.list) : t.pid[j].valid /\ t.pid[j].type = l[1] /\ PointsBack(t, l, j)
    /\ NoneTwice(Entries(ValidTS(t), LAMBDA i : ProgsOf(t, i)))
    /\ NoneTwice(Entries(PIDLists(t), LAMBDA l : PIDsIn(t, l)))
    /\ \A i, j \in ValidTS(t) : t.ts[i].channel = t.ts[j].channel => i = j
ListsSound == \A t \in {tab, stored} : Sound(t)

\* Nothing is lost in the tables but the PCR entries of deleted programs: every other valid entry is
\* in a list, so that a deletion (DelInputTS) gives its entries back.
Lost(t) == {j \in DOMAIN t.pid : t.pid[j].valid} \ UNION {ToSet(PIDsIn(t, l)) : l \in PIDLists(t)}
OnlyPCRLost ==
    /\ \A j \in Lost(tab) : tab.pid[j].type = "PCRPID"
    /\ {p \in DOMAIN tab.prog : tab.prog[p].valid} = UNION {ToSet(ProgsOf(tab, i)) : i \in ValidTS(tab)}

\* The channels share the arrays and the free entries in them, but a step of the scan of one channel
\* that changes the tables changes nothing of what the lists of another one hold, also when its deletion
\* fails half way.
OthersKept ==
    [][\A c \in Channels : tab' # tab /\ ScanTSRoutine(c) =>
          \A d \in Channels \ {c} : TableOf(tab', d) = TableOf(tab, d)]_vars

\* A change of frequency that a scan thread was told of is served: the flag does not stay raised
\* when the tuner the thread asks for readiness is locked for good.
FlagServed ==
    \A c \in Channels :
        <>[]isChannelLock(c) => (b_IsLockFreqChange[tuner_ts_map(c)] ~> ~b_IsLockFreqChange[tuner_ts_map(c)])

\* TSP_IsClearTS: after the tables were cleared, the channel is searched again.
RescanAfterClear == \A c \in Channels : s_aru8ClearTSFlag[c] ~> pc[c] = "clear"
=============================================================================
