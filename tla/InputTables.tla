------------------------------ MODULE InputTables ------------------------------
(***************************************************************************)
(* The tables of the input transport streams (TSInfo): three arrays, of    *)
(* streams, programs and PIDs, whose entries form lists through 16-bit     *)
(* indices.  All input channels share the arrays.  This module has the     *)
(* operations on them as operators from a table to a result record         *)
(* [err, t]; ScanTS has the threads that call them.                        *)
(*                                                                         *)
(* A list is [head, num] in its owner, and the next index in each element. *)
(* A program has a label sid (u16ServiceID) and a PID a label pid (u16PID).*)
(***************************************************************************)
EXTENDS Integers, Sequences, FiniteSets, SequencesExt

CONSTANTS
    INIT_TS_NUM,                        \* 4 in the code
    INIT_PROG_NUM,                      \* 100
    INIT_PID_NUM,                       \* 600
    ALLOCATE_INPUT_PROG_NUM_PER_TIME,   \* 100
    ALLOCATE_INPUT_PID_NUM_PER_TIME,    \* 500
    MAX_INDEX_LIST_NUMBER               \* 300

ASSUME TableAssumption ==
    /\ {INIT_TS_NUM, INIT_PROG_NUM, INIT_PID_NUM, ALLOCATE_INPUT_PROG_NUM_PER_TIME,
        ALLOCATE_INPUT_PID_NUM_PER_TIME, MAX_INDEX_LIST_NUMBER} \subseteq Nat \ {0}
    /\ MAX_INDEX_LIST_NUMBER > 1

INDEX_INVALID_VALUE == 65535
NoPID == 8191                           \* 0x1FFF, the null PID: of a program without PCR

-----------------------------------------------------------------------------
(* Entries.                                                                *)

NoList == [head |-> INDEX_INVALID_VALUE, num |-> 0]

\* memset to 0, as in a fresh or deleted entry.
ZeroList == [head |-> 0, num |-> 0]
ZeroTS == [valid |-> FALSE, channel |-> 0, prog |-> ZeroList, emm |-> ZeroList, other |-> ZeroList]
ZeroProg == [valid |-> FALSE, next |-> 0, ts |-> 0, sid |-> 0, pcr |-> 0, es |-> ZeroList, psecm |-> ZeroList]
ZeroPID == [valid |-> FALSE, type |-> "UNKNOWN", next |-> 0, ts |-> 0, prog |-> 0, owner |-> 0,
            pid |-> 0, esecm |-> ZeroList]

InitTSInfo(nTS, nProg, nPID) ==
    [ts   |-> [i \in 0 .. nTS - 1 |-> ZeroTS],
     prog |-> [i \in 0 .. nProg - 1 |-> ZeroProg],
     pid  |-> [i \in 0 .. nPID - 1 |-> ZeroPID]]

ClearTSInfo(t) ==
    InitTSInfo(Cardinality(DOMAIN t.ts), Cardinality(DOMAIN t.prog), Cardinality(DOMAIN t.pid))

InitInputTS(ch) ==
    [valid |-> TRUE, channel |-> ch, prog |-> NoList, emm |-> [head |-> INDEX_INVALID_VALUE, num |-> 0],
     other |-> NoList]

InitInputProgram(ts, sid) ==
    [valid |-> TRUE, next |-> INDEX_INVALID_VALUE, ts |-> ts, sid |-> sid, pcr |-> INDEX_INVALID_VALUE,
     es |-> NoList, psecm |-> NoList]

InitInputPID(type, ts, prog, owner, pid) ==
    [valid |-> TRUE, type |-> type, next |-> INDEX_INVALID_VALUE, ts |-> ts, prog |-> prog, owner |-> owner,
     pid |-> pid, esecm |-> NoList]

-----------------------------------------------------------------------------
(* Lists.                                                                  *)

Ok(t) == [err |-> "SUCCESS", t |-> t]
Err(e, t) == [err |-> e, t |-> t]
Found(list) == [err |-> "SUCCESS", list |-> list]
NotFound(e) == [err |-> e, list |-> << >>]

\* What comes next where the result r is a success ...
Then(r, Op(_)) == IF r.err = "SUCCESS" THEN Op(r.t) ELSE r
\* ... for one element of seq after the other ...
ForEach(t, seq, Op(_, _)) ==
    LET after[n \in 0 .. Len(seq)] ==
            IF n = 0 THEN Ok(t) ELSE Then(after[n - 1], LAMBDA u : Op(u, seq[n]))
    IN  after[Len(seq)]
\* ... with the list that l is the result for ...
OnList(t, l, Op(_)) == IF l.err = "SUCCESS" THEN Op(l.list) ELSE Err(l.err, t)
\* ... and with the indices u has allocated.
Using(u, Op(_, _)) == IF u.err = "SUCCESS" THEN Op(u.list, u.t) ELSE Err(u.err, u.t)

Numbers(seq) == [k \in DOMAIN seq |-> k]

\* The first max indices met from head on; a walk that has left the array stays outside.
Onward(table, j) == IF j \in DOMAIN table THEN table[j].next ELSE j
Follow(table, head, max) ==
    LET at[n \in 1 .. max] == IF n = 1 THEN head ELSE Onward(table, at[n - 1])
    IN  SubSeq(at, 1, Cardinality({n \in 1 .. max : at[n] \in DOMAIN table}))

\* The loop of the TSP_GetIn...IndexList functions: the count is checked at the end.
IndexList(table, list) ==
    IF list.num = 0 THEN Found(<< >>)
    ELSE LET w == Follow(table, list.head, MAX_INDEX_LIST_NUMBER)
         IN  IF Len(w) >= MAX_INDEX_LIST_NUMBER THEN NotFound("ARRAY_INDEX_OUT_OF_RANGE")
             ELSE IF Len(w) # list.num THEN NotFound("TS_ERROR")
             ELSE Found(w)

InTSProgIndexList(t, i) ==
    IF i \in DOMAIN t.ts THEN IndexList(t.prog, t.ts[i].prog) ELSE NotFound("INPUT_PARAM")
InTSEMMPIDIndexList(t, i) ==
    IF i \in DOMAIN t.ts THEN IndexList(t.pid, t.ts[i].emm) ELSE NotFound("INPUT_PARAM")
InTSOtherPIDIndexList(t, i) ==
    IF i \in DOMAIN t.ts THEN IndexList(t.pid, t.ts[i].other) ELSE NotFound("INPUT_PARAM")
InProgESPIDIndexList(t, p) ==
    IF p \in DOMAIN t.prog THEN IndexList(t.pid, t.prog[p].es) ELSE NotFound("INPUT_PARAM")
InProgPSECMPIDIndexList(t, p) ==
    IF p \in DOMAIN t.prog THEN IndexList(t.pid, t.prog[p].psecm) ELSE NotFound("INPUT_PARAM")
InPIDESECMPIDIndexList(t, i) ==
    IF i \in DOMAIN t.pid THEN IndexList(t.pid, t.pid[i].esecm) ELSE NotFound("INPUT_PARAM")

\* The index of the channel's stream, or no list when there is none.
InputTSIndex(t, ch) ==
    LET S == {i \in DOMAIN t.ts : t.ts[i].valid /\ t.ts[i].channel = ch}
    IN  IF S = {} THEN NotFound("NOT_EXIST")
        ELSE Found(<<CHOOSE i \in S : \A j \in S : i <= j>>)

\* The list a PID is in, by its type and the indices of its owners.
ListOfPID(t, i) ==
    LET e == t.pid[i]
    IN  CASE e.type = "ESPID"     -> InProgESPIDIndexList(t, e.prog)
          [] e.type = "PS_ECMPID" -> InProgPSECMPIDIndexList(t, e.prog)
          [] e.type = "ES_ECMPID" -> InPIDESECMPIDIndexList(t, e.owner)
          [] e.type = "EMMPID"    -> InTSEMMPIDIndexList(t, e.ts)
          [] e.type = "OTHERPID"  -> InTSOtherPIDIndexList(t, e.ts)
          [] OTHER                -> NotFound("TS_ERROR")

\* What comes before index i in the list that l is the result for.
Prev(l, i) ==
    IF l.err # "SUCCESS" THEN l
    ELSE IF ~Contains(l.list, i) THEN NotFound("TS_ERROR")
    ELSE IF Head(l.list) = i THEN NotFound("NOT_EXIST")
    ELSE Found(<<l.list[CHOOSE k \in 1 .. Len(l.list) - 1 : l.list[k + 1] = i]>>)

GetPrevPIDIndex(t, i) ==
    IF t.pid[i].type = "PCRPID" THEN NotFound("NOT_EXIST") ELSE Prev(ListOfPID(t, i), i)

GetPrevProgIndex(t, p) == Prev(InTSProgIndexList(t, t.prog[p].ts), p)

-----------------------------------------------------------------------------
(* Deleting.                                                               *)

\* The list i is in becomes what Change makes of it.
SetListOfPID(t, i, list) ==
    LET e == t.pid[i]
    IN  CASE e.type = "ESPID"     -> [t EXCEPT !.prog[e.prog].es = list]
          [] e.type = "PS_ECMPID" -> [t EXCEPT !.prog[e.prog].psecm = list]
          [] e.type = "ES_ECMPID" -> [t EXCEPT !.pid[e.owner].esecm = list]
          [] e.type = "EMMPID"    -> [t EXCEPT !.ts[e.ts].emm = list]
          [] OTHER                -> [t EXCEPT !.ts[e.ts].other = list]

HeadOfPID(t, i) ==
    LET e == t.pid[i]
    IN  CASE e.type = "ESPID"     -> t.prog[e.prog].es
          [] e.type = "PS_ECMPID" -> t.prog[e.prog].psecm
          [] e.type = "ES_ECMPID" -> t.pid[e.owner].esecm
          [] e.type = "EMMPID"    -> t.ts[e.ts].emm
          [] OTHER                -> t.ts[e.ts].other

\* A list without its element i, whose predecessor search gave prev.
Shorter(list, prev, next) ==
    [head |-> IF prev.err = "NOT_EXIST" THEN next ELSE list.head, num |-> list.num - 1]

\* Mutant of Unlink: the predecessor keeps pointing to the deleted entry.
UnlinkKeepNext(t, i, prev) ==
    IF prev.err \notin {"SUCCESS", "NOT_EXIST"} THEN Err(prev.err, t)
    ELSE Ok([SetListOfPID(t, i, [HeadOfPID(t, i) EXCEPT !.num = @ - 1]) EXCEPT !.pid[i] = ZeroPID])

Unlink(t, i, prev) ==
    LET next == t.pid[i].next
        linked == IF prev.err = "SUCCESS" THEN [t EXCEPT !.pid[prev.list[1]].next = next] ELSE t
    IN  IF prev.err \notin {"SUCCESS", "NOT_EXIST"} THEN Err(prev.err, t)
        ELSE Ok([SetListOfPID(linked, i, Shorter(HeadOfPID(t, i), prev, next)) EXCEPT !.pid[i] = ZeroPID])

UnlinkPID(t, i) ==
    IF t.pid[i].type = "PCRPID"
    THEN Ok([t EXCEPT !.prog[t.pid[i].prog].pcr = INDEX_INVALID_VALUE, !.pid[i] = ZeroPID])
    ELSE Unlink(t, i, GetPrevPIDIndex(t, i))

\* Mutant of DelInputPID: the ECMs of an elementary stream stay.
DelInputPIDAlone(t, i) == IF i \notin DOMAIN t.pid THEN Err("INPUT_PARAM", t) ELSE UnlinkPID(t, i)

\* An elementary stream takes its ECMs with it; the first failure ends the deletion.
DelInputPID(t, i) ==
    IF i \notin DOMAIN t.pid THEN Err("INPUT_PARAM", t)
    ELSE Then(IF t.pid[i].type # "ESPID" THEN Ok(t)
              ELSE OnList(t, InPIDESECMPIDIndexList(t, i), LAMBDA ecms : ForEach(t, ecms, UnlinkPID)),
              LAMBDA u : UnlinkPID(u, i))

DelPIDList(t, l) == OnList(t, l, LAMBDA pids : ForEach(t, pids, DelInputPID))

\* TSConstruct.c:3566 asks for an index outside the table, where DelInputPID can only fail:
\* a program without PCR is never deleted, and the PCR entry of any other one is left behind.
DelPCR(t, i) == IF i \notin DOMAIN t.pid THEN DelInputPID(t, i) ELSE Ok(t)

UnlinkProg(t, p, prev) ==
    LET ts == t.prog[p].ts
        next == t.prog[p].next
        linked == IF prev.err = "SUCCESS" THEN [t EXCEPT !.prog[prev.list[1]].next = next] ELSE t
    IN  IF prev.err \notin {"SUCCESS", "NOT_EXIST"} THEN Err(prev.err, t)
        ELSE Ok([linked EXCEPT !.ts[ts].prog = Shorter(@, prev, next), !.prog[p] = ZeroProg])

DelInputProg(t, p) ==
    IF p \notin DOMAIN t.prog THEN Err("INPUT_PARAM", t)
    ELSE Then(Then(Then(DelPCR(t, t.prog[p].pcr),
                        LAMBDA u : DelPIDList(u, InProgESPIDIndexList(u, p))),
                   LAMBDA u : DelPIDList(u, InProgPSECMPIDIndexList(u, p))),
              LAMBDA u : UnlinkProg(u, p, GetPrevProgIndex(u, p)))

DelInputTS(t, i) ==
    IF i \notin DOMAIN t.ts THEN Err("INPUT_PARAM", t)
    ELSE Then(Then(Then(OnList(t, InTSProgIndexList(t, i), LAMBDA progs : ForEach(t, progs, DelInputProg)),
                        LAMBDA u : DelPIDList(u, InTSEMMPIDIndexList(u, i))),
                   LAMBDA u : DelPIDList(u, InTSOtherPIDIndexList(u, i))),
              LAMBDA u : Ok([u EXCEPT !.ts[i] = ZeroTS]))

-----------------------------------------------------------------------------
(* Allocating.  Memory is never short (realloc succeeds).                  *)

Free(table) == {i \in DOMAIN table : ~table[i].valid}
FirstOf(S, n) == [k \in 1 .. n |-> CHOOSE i \in S : Cardinality({j \in S : j < i}) = k - 1]

\* The table with as many more entries as it takes to have need free ones, step at a time.
Grown(table, zero, need, step) ==
    LET size == Cardinality(DOMAIN table)
        lack == need - Cardinality(Free(table))
        more == IF lack <= 0 THEN 0 ELSE ((lack + step - 1) \div step) * step
    IN  [i \in 0 .. size + more - 1 |-> IF i < size THEN table[i] ELSE zero]

\* The result of the TSP_GetUnusedInput...IndexList functions: indices, and the table they are in.
UnusedTS(t, need) ==
    IF need <= Cardinality(Free(t.ts)) THEN [err |-> "SUCCESS", list |-> FirstOf(Free(t.ts), need), t |-> t]
    ELSE [err |-> "RESOURCE_NOT_ENOUGH", list |-> << >>, t |-> t]

\* Mutant of UnusedProgs: the free entries are counted, but the first ones of the array are given.
UnusedProgsFirst(t, need) ==
    LET table == Grown(t.prog, ZeroProg, need, ALLOCATE_INPUT_PROG_NUM_PER_TIME)
    IN  IF need > MAX_INDEX_LIST_NUMBER THEN [err |-> "INPUT_PARAM", list |-> << >>, t |-> t]
        ELSE [err |-> "SUCCESS", list |-> FirstOf(DOMAIN table, need), t |-> [t EXCEPT !.prog = table]]

UnusedProgs(t, need) ==
    LET table == Grown(t.prog, ZeroProg, need, ALLOCATE_INPUT_PROG_NUM_PER_TIME)
    IN  IF need > MAX_INDEX_LIST_NUMBER THEN [err |-> "INPUT_PARAM", list |-> << >>, t |-> t]
        ELSE [err |-> "SUCCESS", list |-> FirstOf(Free(table), need), t |-> [t EXCEPT !.prog = table]]

UnusedPIDs(t, need) ==
    LET table == Grown(t.pid, ZeroPID, need, ALLOCATE_INPUT_PID_NUM_PER_TIME)
    IN  IF need > MAX_INDEX_LIST_NUMBER THEN [err |-> "INPUT_PARAM", list |-> << >>, t |-> t]
        ELSE [err |-> "SUCCESS", list |-> FirstOf(Free(table), need), t |-> [t EXCEPT !.pid = table]]

-----------------------------------------------------------------------------
(* What a scanner finds.  A multiplex m on air is a record:                *)
(*   pat    it has a PAT; without one every PID is an "other" PID          *)
(*   progs  a sequence of programs: sid, pmt (its PMT PID is on air), pcr, *)
(*          es (a sequence of [pid, ecm], ecm the PIDs of its CA           *)
(*          descriptors) and cas (those of the program)                    *)
(*   emm    the EMM PIDs of the CAT                                        *)
(*   other  the PIDs no table mentions                                     *)

AirStream == [pid : Nat, ecm : Seq(Nat)]
AirProg == [sid : Nat, pmt : BOOLEAN, pcr : Nat, es : Seq(AirStream), cas : Seq(Nat)]
Multiplex == [pat : BOOLEAN, progs : Seq(AirProg), emm : Seq(Nat), other : Seq(Nat)]

ListAt(idx) == [head |-> IF idx = << >> THEN INDEX_INVALID_VALUE ELSE idx[1], num |-> Len(idx)]

\* What follows the k-th of the indices idx.
After(idx, k) == IF k < Len(idx) THEN idx[k + 1] ELSE INDEX_INVALID_VALUE
PosIn(idx, i) == CHOOSE k \in 1 .. Len(idx) : idx[k] = i

\* New entries of one type for the PIDs pids at the indices idx, linked to one another.
NewPID(type, ts, prog, owner, idx, pids, k) ==
    [InitInputPID(type, ts, prog, owner, pids[k]) EXCEPT !.next = After(idx, k)]

PutPIDs(t, type, ts, prog, owner, idx, pids) ==
    [t EXCEPT !.pid = [i \in DOMAIN @ |->
        IF Contains(idx, i) THEN NewPID(type, ts, prog, owner, idx, pids, PosIn(idx, i)) ELSE @[i]]]

\* A list with those entries added at its end.
Longer(list, idx) ==
    IF list.num = 0 THEN ListAt(idx) ELSE [list EXCEPT !.num = @ + Len(idx)]

\* The last element of a list is made to point to index i.
LinkLast(table, list, i) ==
    IF list = << >> THEN table ELSE [table EXCEPT ![Last(list)].next = i]

PutProgs(table, ts, new, sids) ==
    [p \in DOMAIN table |->
        IF Contains(new, p)
        THEN [InitInputProgram(ts, sids[PosIn(new, p)]) EXCEPT !.next = After(new, PosIn(new, p))]
        ELSE table[p]]

SetInputPATInfo(t, ts, sids) ==
    Using(UnusedProgs(t, Len(sids)), LAMBDA new, u :
        OnList(u, InTSProgIndexList(u, ts), LAMBDA old :
            IF sids = << >> THEN Ok(u)
            ELSE Ok([u EXCEPT !.prog = LinkLast(PutProgs(@, ts, new, sids), old, new[1]),
                              !.ts[ts].prog = Longer(@, new)])))

\* The indices of a PMT are one run: the PCR, each elementary stream followed by its ECMs, the
\* program's ECMs.  Offset(m)[k] are the ones up to the k-th stream.
HasPCR(m) == IF m.pcr < NoPID THEN 1 ELSE 0
Offset(m) ==
    LET off[k \in 0 .. Len(m.es)] == IF k = 0 THEN HasPCR(m) ELSE off[k - 1] + 1 + Len(m.es[k].ecm)
    IN  off

\* The k-th stream of the program m at its index es[k], and its ECMs.
PutStream(t, p, m, new, off, es, k) ==
    LET ts == t.prog[p].ts
        ecm == SubSeq(new, off[k - 1] + 2, off[k])
        stream == [InitInputPID("ESPID", ts, p, INDEX_INVALID_VALUE, m.es[k].pid)
                      EXCEPT !.next = After(es, k), !.esecm = ListAt(ecm)]
    IN  PutPIDs([t EXCEPT !.pid[es[k]] = stream], "ES_ECMPID", ts, p, es[k], ecm, m.es[k].ecm)

\* The lists of a program m at the indices new, of which off[n] are before the program's ECMs.
PutPMT(t, p, m, new, off) ==
    LET ts == t.prog[p].ts
        n == Len(m.es)
        pcr == SubSeq(new, 1, HasPCR(m))
        es == [k \in 1 .. n |-> new[off[k - 1] + 1]]
        cas == SubSeq(new, off[n] + 1, Len(new))
    IN  Then(ForEach(PutPIDs(t, "PCRPID", ts, p, INDEX_INVALID_VALUE, pcr, <<m.pcr>>), Numbers(m.es),
                     LAMBDA u, k : Ok(PutStream(u, p, m, new, off, es, k))),
             LAMBDA u : Ok([PutPIDs(u, "PS_ECMPID", ts, p, INDEX_INVALID_VALUE, cas, m.cas)
                EXCEPT !.prog[p].pcr = ListAt(pcr).head, !.prog[p].es = ListAt(es), !.prog[p].psecm = ListAt(cas)]))

SetInputPMTInfo(t, p, m) ==
    Using(UnusedPIDs(t, Offset(m)[Len(m.es)] + Len(m.cas)), LAMBDA new, u : PutPMT(u, p, m, new, Offset(m)))

SetInputCATInfo(t, ts, emms) ==
    IF emms = << >> THEN Ok(t)
    ELSE Using(UnusedPIDs(t, Len(emms)), LAMBDA new, u :
            OnList(u, InTSEMMPIDIndexList(u, ts), LAMBDA old :
                Ok([PutPIDs(u, "EMMPID", ts, INDEX_INVALID_VALUE, INDEX_INVALID_VALUE, new, emms)
                        EXCEPT !.pid = LinkLast(@, old, new[1]), !.ts[ts].emm = Longer(@, new)])))

SetInputOtherPIDInfo(t, ts, pid) ==
    Using(UnusedPIDs(t, 1), LAMBDA new, u :
        OnList(u, InTSOtherPIDIndexList(u, ts), LAMBDA old :
            Ok([PutPIDs(u, "OTHERPID", ts, INDEX_INVALID_VALUE, INDEX_INVALID_VALUE, new, <<pid>>)
                    EXCEPT !.pid = LinkLast(@, old, new[1]), !.ts[ts].other = Longer(@, new)])))

\* PAT, CAT, the PMT of each program that is on air, then the PIDs that are left.
ParsePAT(t, m) ==
    Then(SetInputPATInfo(t, 0, [k \in DOMAIN m.progs |-> m.progs[k].sid]), LAMBDA u : SetInputCATInfo(u, 0, m.emm))

ParsePMTs(t, m) ==
    OnList(t, InTSProgIndexList(t, 0), LAMBDA progs :
        ForEach(t, Numbers(progs), LAMBDA u, k :
            IF m.progs[k].pmt THEN SetInputPMTInfo(u, progs[k], m.progs[k]) ELSE Ok(u)))

ParseSI(ch, m) ==
    LET t == [InitTSInfo(1, INIT_PROG_NUM, INIT_PID_NUM) EXCEPT !.ts[0] = InitInputTS(ch)]
    IN  Then(Then(IF m.pat THEN ParsePAT(t, m) ELSE Ok(t), LAMBDA u : ParsePMTs(u, m)),
             LAMBDA u : ForEach(u, m.other, LAMBDA v, pid : SetInputOtherPIDInfo(v, 0, pid)))

-----------------------------------------------------------------------------
(* Copying what a scanner found (temp) into the shared tables.             *)

\* The PIDs at the indices src of temp, at the indices idx, linked to one another.  TSP_CopyInputPID
\* is called with the owner of the elementary stream, which has none: the ECMs point to no owner.
CopyECMs(t, ts, prog, idx, temp, src) ==
    [t EXCEPT !.pid = [i \in DOMAIN @ |->
        IF Contains(idx, i)
        THEN [temp.pid[src[PosIn(idx, i)]] EXCEPT !.valid = TRUE, !.ts = ts, !.prog = prog,
                !.owner = INDEX_INVALID_VALUE, !.next = After(idx, PosIn(idx, i))]
        ELSE @[i]]]

CopyInputPID(t, ts, prog, i, temp, j) ==
    LET e == temp.pid[j]
        copied == [t EXCEPT !.pid[i] = [e EXCEPT !.valid = TRUE, !.ts = ts, !.prog = prog,
                                                 !.owner = INDEX_INVALID_VALUE]]
    IN  IF e.type # "ESPID" THEN Ok(copied)
        ELSE Using(UnusedPIDs(copied, e.esecm.num), LAMBDA new, u :
                IF new = << >> THEN Ok(u)
                ELSE Ok([CopyECMs(u, ts, prog, new, temp, Follow(temp.pid, e.esecm.head, e.esecm.num))
                            EXCEPT !.pid[i].esecm.head = new[1]]))

\* A whole list of temp, at the indices idx.
CopyPIDList(t, ts, prog, idx, temp, list) ==
    ForEach(t, Numbers(idx), LAMBDA u, k :
        Then(CopyInputPID(u, ts, prog, idx[k], temp, Follow(temp.pid, list.head, list.num)[k]),
             LAMBDA v : Ok([v EXCEPT !.pid[idx[k]].next = After(idx, k)])))

HeadAt(list, idx) == IF idx = << >> THEN list ELSE [list EXCEPT !.head = idx[1]]

\* The PCR, the streams and the ECMs of program e of temp, at the indices new.  A program without
\* PCR gives the last of them back.
CopyProgPIDs(t, ts, p, temp, e, new) ==
    LET first == IF e.pcr # INDEX_INVALID_VALUE THEN 1 ELSE 0
        es == SubSeq(new, first + 1, first + e.es.num)
        ps == SubSeq(new, first + e.es.num + 1, first + e.es.num + e.psecm.num)
        headed == [t EXCEPT !.prog[p].es = HeadAt(@, es), !.prog[p].psecm = HeadAt(@, ps)]
    IN  Then(Then(IF first = 1
                  THEN CopyInputPID([headed EXCEPT !.prog[p].pcr = new[1]], ts, p, new[1], temp, e.pcr)
                  ELSE Ok([headed EXCEPT !.pid[Last(new)].valid = FALSE]),
                  LAMBDA u : CopyPIDList(u, ts, p, es, temp, e.es)),
             LAMBDA u : CopyPIDList(u, ts, p, ps, temp, e.psecm))

\* The indices of the program's own PIDs are marked valid before the copies, which take more of
\* them for the ECMs of the streams.
Marked(t, new) ==
    [t EXCEPT !.pid = [i \in DOMAIN @ |-> IF Contains(new, i) THEN [@[i] EXCEPT !.valid = TRUE] ELSE @[i]]]

CopyInputProg(t, ts, p, temp, q) ==
    LET e == temp.prog[q]
    IN  Using(UnusedPIDs([t EXCEPT !.prog[p] = [e EXCEPT !.ts = ts]], 1 + e.es.num + e.psecm.num),
              LAMBDA new, u : CopyProgPIDs(Marked(u, new), ts, p, temp, e, new))

CopyProgs(t, i, new, temp, src) ==
    ForEach([t EXCEPT !.ts[i].prog = HeadAt(@, new)], Numbers(new), LAMBDA u, k :
        Then(CopyInputProg(u, i, new[k], temp, src[k]),
             LAMBDA v : Ok([v EXCEPT !.prog[new[k]].next = After(new, k)])))

CopyTSPIDs(t, i, temp, e, new) ==
    LET emm == SubSeq(new, 1, e.emm.num)
        other == SubSeq(new, e.emm.num + 1, e.emm.num + e.other.num)
    IN  Then(CopyPIDList([t EXCEPT !.ts[i].emm = HeadAt(@, emm), !.ts[i].other = HeadAt(@, other)],
                         i, INDEX_INVALID_VALUE, emm, temp, e.emm),
             LAMBDA u : CopyPIDList(u, i, INDEX_INVALID_VALUE, other, temp, e.other))

\* A failure on the way leaves a valid stream behind.
CopyInputTS(t, i, temp) ==
    LET e == temp.ts[0]
    IN  Then(Using(UnusedProgs([t EXCEPT !.ts[i] = [e EXCEPT !.valid = TRUE]], e.prog.num), LAMBDA new, u :
                CopyProgs(u, i, new, temp, Follow(temp.prog, e.prog.head, e.prog.num))),
             LAMBDA u : Using(UnusedPIDs(u, e.emm.num + e.other.num), LAMBDA new, v :
                CopyTSPIDs(v, i, temp, e, new)))

\* PID j, of the list of type l[1] that the entry l[2] owns, has the indices of its program and stream.
PointsBack(t, l, j) ==
    LET p == IF l[1] = "ES_ECMPID" THEN t.pid[l[2]].prog ELSE l[2]
    IN  IF l[1] \in {"EMMPID", "OTHERPID"} THEN t.pid[j].ts = l[2]
        ELSE t.pid[j].prog = p /\ t.pid[j].ts = t.prog[p].ts

-----------------------------------------------------------------------------
(* What the arrays have room for.                                          *)

\* A multiplex whose lists TSP_GetIn...IndexList can hold, and so can the copy of what is found.  The
\* section parsers see to the programs (200), the streams and CA descriptors of each (200 and 20) and
\* the EMMs (32); nothing limits the other PIDs, of which the driver reports up to 500.
PMTFits(m) ==
    /\ 1 + Len(m.es) + Len(m.cas) <= MAX_INDEX_LIST_NUMBER
    /\ \A k \in 1 .. Len(m.es) : Len(m.es[k].ecm) < MAX_INDEX_LIST_NUMBER
ScanFits(m) ==
    /\ m \in Multiplex /\ Len(m.progs) < MAX_INDEX_LIST_NUMBER
    /\ Len(m.emm) + Len(m.other) < MAX_INDEX_LIST_NUMBER
    /\ \A k \in 1 .. Len(m.progs) : PMTFits(m.progs[k])

\* 65535 is no index of the tables, which grow for ever as PCR entries are lost.
Fits(t) == INDEX_INVALID_VALUE \notin DOMAIN t.prog /\ INDEX_INVALID_VALUE \notin DOMAIN t.pid

=============================================================================
