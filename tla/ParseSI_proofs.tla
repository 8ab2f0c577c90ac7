---------------------------- MODULE ParseSI_proofs ----------------------------
(***************************************************************************)
(* Machine-checked facts about what a scan puts into its own tables: for   *)
(* every multiplex whose lists fit the arrays, ParseSI leaves tables whose *)
(* lists are laid out as in the shared tables, with one stream.            *)
(***************************************************************************)
EXTENDS InputTables_proofs

\* Where an index is in a list of different ones.
LEMMA PosFacts ==
    ASSUME NEW s \in Seq(Nat), \A k, m \in 1 .. Len(s) : s[k] = s[m] => k = m
    PROVE  /\ \A k \in 1 .. Len(s) : Contains(s, s[k]) /\ PosIn(s, s[k]) = k
           /\ \A i : Contains(s, i) => PosIn(s, i) \in 1 .. Len(s) /\ s[PosIn(s, i)] = i
<1>1. \A i : Contains(s, i) <=> \E k \in 1 .. Len(s) : s[k] = i
  BY DEF Contains
<1>2. ASSUME NEW i, Contains(s, i) PROVE PosIn(s, i) \in 1 .. Len(s) /\ s[PosIn(s, i)] = i
  <2>1. \E k \in 1 .. Len(s) : s[k] = i
    BY <1>1, <1>2
  <2>2. PosIn(s, i) = CHOOSE k \in 1 .. Len(s) : s[k] = i
    BY DEF PosIn
  <2> QED BY <2>1, <2>2, Zenon
<1>3. ASSUME NEW k \in 1 .. Len(s) PROVE Contains(s, s[k]) /\ PosIn(s, s[k]) = k
  <2>1. Contains(s, s[k])
    BY <1>1
  <2>2. PosIn(s, s[k]) \in 1 .. Len(s) /\ s[PosIn(s, s[k])] = s[k]
    BY <1>2, <2>1
  <2> QED BY <2>1, <2>2
<1> QED BY <1>2, <1>3

\* Tables with nothing but streams whose lists are empty.
Bare(t) ==
    /\ Shape(t)
    /\ \A p \in DOMAIN t.prog : ~t.prog[p].valid
    /\ \A j \in DOMAIN t.pid : ~t.pid[j].valid /\ t.pid[j].type = "UNKNOWN"
    /\ \A i \in DOMAIN t.ts : t.ts[i].valid => t.ts[i].prog.num = 0 /\ t.ts[i].emm.num = 0 /\ t.ts[i].other.num = 0

\* Tables with nothing in use have the layout of no lists.
LEMMA BareLayout ==
    ASSUME NEW t, Bare(t)
    PROVE  Layout(t, Nothing(Nat), Nothing(Names), {}, {}, {})
<1>1. PICK P : P = Nothing(Nat)
  OBVIOUS
<1>2. PICK W : W = Nothing(Names)
  OBVIOUS
<1>3. \A i \in Nat : P[i] = << >> /\ Len(P[i]) = 0
  BY <1>1 DEF Nothing
<1>4. \A n \in Names : W[n] = << >> /\ Len(W[n]) = 0
  BY <1>2 DEF Nothing
<1>5. P \in [Nat -> Seq(Nat)] /\ W \in [Names -> Seq(Nat)] /\ Once(Nat, P) /\ Once(Names, W)
  BY <1>1, <1>2, JoinedNothing DEF Nothing, Once
<1>6. Placed(t, P, W)
  BY <1>3, <1>4, <1>5 DEF Placed
<1>7. Back(t, P, W) /\ Covered(t, P, W) /\ Known(t, {})
  BY <1>3, <1>4 DEF Back, Covered, Known, Bare
<1>8. Linked(t, P, W, {}, {})
  <2>1. ASSUME NEW i \in DOMAIN t.ts, t.ts[i].valid PROVE Chain(t.prog, t.ts[i].prog, P[i])
    <3>1. i \in Nat
      BY ShapeFacts DEF Bare
    <3> QED BY <2>1, <1>3, <3>1 DEF Chain, Bare
  <2>2. ASSUME NEW n \in Names, Owned(t, n) PROVE Strung(t, n, W[n])
    <3>1. n[1] \in {"EMMPID", "OTHERPID"}
      <4>1. n[1] \in Types \ {"UNKNOWN"}
        BY NameFacts
      <4> QED BY <2>2, <4>1 DEF Owned, Bare, Types
    <3>2. HeadRec(t, n).num = 0
      BY <2>2, <3>1 DEF Owned, Bare, HeadRec
    <3> QED BY <1>4, <3>1, <3>2 DEF Strung, Chain
  <2> QED BY <2>1, <2>2 DEF Linked
<1>9. Short(P, W)
  BY <1>3, <1>4, TableAssumption DEF Short
<1>10. Layout(t, P, W, {}, {}, {})
  BY <1>5, <1>6, <1>7, <1>8, <1>9 DEF Layout, Bare
<1> QED BY <1>1, <1>2, <1>10

\* The cleared entries.
LEMMA ZeroFacts ==
    /\ ZeroTS \in TSRec /\ ZeroProg \in ProgRec /\ ZeroPID \in PIDRec
    /\ ~ZeroTS.valid /\ ~ZeroProg.valid /\ ~ZeroPID.valid /\ ZeroPID.type = "UNKNOWN"
<1>1. ZeroTS \in TSRec
  BY DEF ZeroTS, ZeroList, TSRec, ListRec
<1>2. ZeroProg \in ProgRec
  BY DEF ZeroProg, ZeroList, ProgRec, ListRec
<1>3. ZeroPID \in PIDRec
  BY DEF ZeroPID, ZeroList, PIDRec, ListRec, Types
<1> QED BY <1>1, <1>2, <1>3 DEF ZeroTS, ZeroProg, ZeroPID

\* New tables.
LEMMA InitBare ==
    ASSUME NEW a \in Nat, NEW b \in Nat, NEW c \in Nat
    PROVE  /\ InitTSInfo(a, b, c) \in Tables(a, b, c) /\ Bare(InitTSInfo(a, b, c))
           /\ \A i \in DOMAIN InitTSInfo(a, b, c).ts : ~InitTSInfo(a, b, c).ts[i].valid
<1>1. PICK t : t = InitTSInfo(a, b, c)
  OBVIOUS
<1>2. t \in Tables(a, b, c)
  BY <1>1, ZeroFacts DEF InitTSInfo, Tables
<1>3. /\ \A i \in DOMAIN t.ts : t.ts[i] = ZeroTS
      /\ \A p \in DOMAIN t.prog : t.prog[p] = ZeroProg
      /\ \A j \in DOMAIN t.pid : t.pid[j] = ZeroPID
  BY <1>1 DEF InitTSInfo
<1>4. Bare(t)
  BY <1>2, <1>3, ZeroFacts DEF Bare, Shape
<1> QED BY <1>1, <1>2, <1>3, <1>4, ZeroFacts

ScanTable(ch) == [InitTSInfo(1, INIT_PROG_NUM, INIT_PID_NUM) EXCEPT !.ts[0] = InitInputTS(ch)]

\* The tables a scan starts with.
LEMMA ScanTableBare ==
    ASSUME NEW ch \in Nat
    PROVE  LET t == ScanTable(ch) IN Bare(t) /\ DOMAIN t.ts = {0} /\ t.ts[0].valid /\ t.ts[0].channel = ch
<1>1. PICK s : s = InitTSInfo(1, INIT_PROG_NUM, INIT_PID_NUM)
  OBVIOUS
<1>2. INIT_PROG_NUM \in Nat /\ INIT_PID_NUM \in Nat
  BY TableAssumption
<1>3. s \in Tables(1, INIT_PROG_NUM, INIT_PID_NUM) /\ Bare(s)
  BY <1>1, <1>2, InitBare
<1>4. PICK e : e = InitInputTS(ch)
  OBVIOUS
<1>5. e \in TSRec /\ e.valid /\ e.channel = ch /\ e.prog.num = 0 /\ e.emm.num = 0 /\ e.other.num = 0
  BY <1>4 DEF InitInputTS, NoList, TSRec, ListRec, INDEX_INVALID_VALUE
<1>6. PICK t : t = [s EXCEPT !.ts[0] = e]
  BY Zenon
<1>7. t \in Tables(1, INIT_PROG_NUM, INIT_PID_NUM) /\ t.prog = s.prog /\ t.pid = s.pid /\ t.ts[0] = e /\ DOMAIN t.ts = {0}
  <2>1. 0 \in 0 .. 1 - 1 /\ 0 .. 1 - 1 = {0}
    OBVIOUS
  <2>2. 1 \in Nat
    OBVIOUS
  <2>3. /\ t \in Tables(1, INIT_PROG_NUM, INIT_PID_NUM)
        /\ t.ts = [s.ts EXCEPT ![0] = e] /\ t.prog = s.prog /\ t.pid = s.pid
    BY <1>3, <1>5, <1>6, <2>1 DEF Tables
  <2>4. DOMAIN s.ts = 0 .. 1 - 1
    BY <1>2, <1>3, <2>2, Parts
  <2> QED BY <2>1, <2>3, <2>4
<1>8. Bare(t)
  BY <1>2, <1>3, <1>5, <1>7 DEF Bare, Shape
<1>9. ScanTable(ch) = t
  BY <1>1, <1>4, <1>6 DEF ScanTable
<1> QED BY <1>5, <1>7, <1>8, <1>9

Only(S, x, s) == [y \in S |-> IF y = x THEN s ELSE << >>]
Distinct(s) == \A k, m \in 1 .. Len(s) : s[k] = s[m] => k = m
\* The lists f with s at the end of f[x].
With(f, x, s) == [f EXCEPT ![x] = @ \o s]

\* One list that is new among lists that are as they were.
LEMMA OnlyFacts ==
    ASSUME NEW S, NEW f \in [S -> Seq(Nat)], NEW x \in S, NEW s \in Seq(Nat), Distinct(s)
    PROVE  /\ Only(S, x, s) \in [S -> Seq(Nat)] /\ Once(S, Only(S, x, s))
           /\ Joined(S, f, Only(S, x, s)) = With(f, x, s)
<1>1. PICK o : o = Only(S, x, s)
  OBVIOUS
<1>2. o \in [S -> Seq(Nat)] /\ o[x] = s /\ \A y \in S : y # x => o[y] = << >>
  BY <1>1 DEF Only
<1>3. Once(S, o)
  <2>1. \A y \in S : y # x => Len(o[y]) = 0
    BY <1>2
  <2>2. ASSUME NEW a \in S, NEW b \in S, NEW k \in 1 .. Len(o[a]), NEW n \in 1 .. Len(o[b]), o[a][k] = o[b][n]
        PROVE  a = b /\ k = n
    <3>1. a = x /\ b = x
      BY <2>1, <2>2
    <3> QED BY <1>2, <2>2, <3>1 DEF Distinct
  <2> QED BY <2>2 DEF Once
<1>4. Joined(S, f, o) = With(f, x, s)
  <2>1. \A y \in S : f[y] \o << >> = f[y]
    OBVIOUS
  <2>2. \A y \in S : f[y] \o o[y] = IF y = x THEN f[x] \o s ELSE f[y]
    BY <1>2, <2>1, Zenon
  <2> QED BY <2>2, Zenon DEF Joined, With
<1> QED BY <1>1, <1>2, <1>3, <1>4

\* The PIDs s have become PIDs of the list n, and nothing else has changed.
RunPut(t, u, n, s) ==
    /\ Shape(u) /\ u.ts = t.ts /\ u.prog = t.prog /\ DOMAIN u.pid = DOMAIN t.pid
    /\ s \in Seq(Nat) /\ Distinct(s)
    /\ \A k \in 1 .. Len(s) :
        /\ s[k] \in DOMAIN t.pid /\ t.pid[s[k]].type = "UNKNOWN"
        /\ u.pid[s[k]].type = n[1] /\ PointsBack(u, n, s[k])
    /\ \A j \in DOMAIN t.pid : (\A k \in 1 .. Len(s) : s[k] # j) => u.pid[j] = t.pid[j]

\* What keeps the lists that are not open.
LEMMA PutRun ==
    ASSUME NEW t, NEW P, NEW W, NEW OP, NEW OW, NEW R, Layout(t, P, W, OP, OW, R),
           NEW u, NEW n \in Names, NEW s, RunPut(t, u, n, s), Owned(t, n), Len(W[n]) + Len(s) < MAX_INDEX_LIST_NUMBER,
           NEW NW, OW \subseteq NW, n \in NW, n[1] = "ESPID" => \A k \in 1 .. Len(s) : <<"ES_ECMPID", s[k]>> \in NW,
           NEW NR, Known(u, NR)
    PROVE  Layout(u, P, With(W, n, s), OP, NW, NR)
<1>1. PICK X : X = Only(Names, n, s)
  OBVIOUS
<1>2. W \in [Names -> Seq(Nat)] /\ Placed(t, P, W) /\ Shape(t) /\ Short(P, W) /\ Back(t, P, W)
  BY Zenon DEF Layout, Placed
<1>3. X \in [Names -> Seq(Nat)] /\ Once(Names, X) /\ Joined(Names, W, X) = With(W, n, s)
  BY <1>1, <1>2, OnlyFacts, Zenon DEF RunPut
<1>4. X[n] = s /\ \A m \in Names : m # n => X[m] = << >> /\ Len(X[m]) = 0
  BY <1>1 DEF Only
<1>5. n[1] \in Types \ {"UNKNOWN"} /\ n[2] \in Nat
  BY NameFacts
<1>6. ASSUME NEW m \in Names, Owned(u, m), m \notin NW PROVE Owned(t, m) /\ HeadRec(u, m) = HeadRec(t, m)
  <2>1. CASE m[1] = "ES_ECMPID"
    <3>1. m = <<"ES_ECMPID", m[2]>>
      BY <2>1, NameFacts
    <3>2. m[2] \in DOMAIN u.pid /\ u.pid[m[2]].type = "ESPID"
      BY <1>6, <2>1 DEF Owned
    <3>3. \A k \in 1 .. Len(s) : s[k] # m[2]
      BY <1>6, <3>1, <3>2 DEF RunPut
    <3>4. m[2] \in DOMAIN t.pid /\ u.pid[m[2]] = t.pid[m[2]]
      BY <3>2, <3>3, Zenon DEF RunPut
    <3> QED BY <2>1, <3>2, <3>4 DEF Owned, HeadRec
  <2>2. CASE m[1] # "ES_ECMPID"
    BY <1>6, <2>2 DEF Owned, HeadRec, RunPut
  <2> QED BY <2>1, <2>2
<1>7. ASSUME NEW m \in Names, m \notin NW, NEW k \in 1 .. Len(W[m])
      PROVE  u.pid[W[m][k]].next = t.pid[W[m][k]].next
  <2>1. W[m][k] \in DOMAIN t.pid /\ t.pid[W[m][k]].type = m[1]
    BY <1>2 DEF Placed, Back
  <2>2. m[1] # "UNKNOWN"
    BY NameFacts
  <2> QED BY <2>1, <2>2, Zenon DEF RunPut
<1>8. ASSUME NEW m \in Names, NEW k \in 1 .. Len(X[m])
      PROVE  /\ X[m][k] \in DOMAIN t.pid /\ t.pid[X[m][k]].type = "UNKNOWN"
             /\ X[m][k] \in DOMAIN u.pid /\ u.pid[X[m][k]].type = m[1] /\ PointsBack(u, m, X[m][k])
             /\ m \in NW /\ Owned(u, m)
  <2>1. m = n
    BY <1>4
  <2>2. Owned(u, n)
    <3>1. CASE n[1] = "ES_ECMPID"
      <4>1. n[2] \in DOMAIN t.pid /\ t.pid[n[2]].type = "ESPID"
        BY <3>1 DEF Owned
      <4>2. u.pid[n[2]] = t.pid[n[2]]
        BY <4>1 DEF RunPut
      <4> QED BY <3>1, <4>1, <4>2 DEF Owned, RunPut
    <3>2. CASE n[1] # "ES_ECMPID"
      BY <3>2 DEF Owned, RunPut
    <3> QED BY <3>1, <3>2
  <2> QED BY <1>4, <2>1, <2>2 DEF RunPut
<1>9. ASSUME NEW j \in DOMAIN u.pid
      PROVE  \/ u.pid[j] = t.pid[j]
             \/ \E m \in Names : \E k \in 1 .. Len(X[m]) : X[m][k] = j
  <2>1. CASE \E k \in 1 .. Len(s) : s[k] = j
    BY <1>4, <2>1
  <2>2. CASE \A k \in 1 .. Len(s) : s[k] # j
    BY <2>2 DEF RunPut
  <2> QED BY <2>1, <2>2
<1>10. \A m \in Names : Len(W[m]) + Len(X[m]) < MAX_INDEX_LIST_NUMBER
  <2>1. \A m \in Names : Len(W[m]) \in Nat /\ Len(W[m]) < MAX_INDEX_LIST_NUMBER
    BY <1>2 DEF Short
  <2>2. ASSUME NEW m \in Names PROVE Len(W[m]) + Len(X[m]) < MAX_INDEX_LIST_NUMBER
    <3>1. CASE m = n
      BY <1>4, <3>1, Zenon
    <3>2. CASE m # n
      <4>1. Len(W[m]) + 0 = Len(W[m])
        BY <2>1
      <4> QED BY <1>4, <2>1, <3>2, <4>1, Zenon
    <3> QED BY <3>1, <3>2, Zenon
  <2> QED BY <2>2, Zenon
<1>11. ASSUME NEW j \in DOMAIN t.pid, t.pid[j].type # "UNKNOWN" PROVE u.pid[j] = t.pid[j]
  BY <1>11 DEF RunPut
<1>12. SameEntries(t, u)
  BY DEF SameEntries, RunPut
<1>13. PIDsAdded(t, u, W, X, NW)
  <2>1. DOMAIN u.pid = DOMAIN t.pid
    BY DEF RunPut
  <2> QED BY <1>3, <1>6, <1>7, <1>8, <1>9, <1>10, <1>11, <1>12, <2>1 DEF PIDsAdded
<1>14. Layout(u, P, Joined(Names, W, X), OP, NW, NR)
  <2>1. Shape(u)
    BY DEF RunPut
  <2> QED BY <1>13, <2>1, AddPIDs
<1> QED BY <1>3, <1>14

\* Nothing but the PIDs s has changed.
PutAt(t, u, s) ==
    /\ Shape(u) /\ u.ts = t.ts /\ u.prog = t.prog /\ DOMAIN u.pid = DOMAIN t.pid
    /\ \A j \in DOMAIN t.pid : (\A k \in 1 .. Len(s) : s[k] # j) => u.pid[j] = t.pid[j]

\* A new entry.
NewEntry(e, type, ts, prog, owner, nx) ==
    /\ e \in PIDRec /\ e.valid /\ e.type = type /\ e.ts = ts /\ e.prog = prog /\ e.owner = owner
    /\ e.next = nx /\ e.esecm = NoList

\* A new PID entry is what InitInputPID makes it.
LEMMA NewPIDFacts ==
    ASSUME NEW type \in Types, NEW ts \in Nat, NEW prog \in Nat, NEW owner \in Nat,
           NEW idx \in Seq(Nat), NEW k \in 1 .. Len(idx), NEW pids \in Seq(Nat), Len(pids) = Len(idx)
    PROVE  NewEntry(NewPID(type, ts, prog, owner, idx, pids, k), type, ts, prog, owner, After(idx, k))
<1>1. pids[k] \in Nat
  OBVIOUS
<1>2. After(idx, k) \in Nat
  BY DEF After, INDEX_INVALID_VALUE
<1>3. NoList \in ListRec
  BY DEF NoList, ListRec, INDEX_INVALID_VALUE
<1>4. PICK a : a = After(idx, k)
  OBVIOUS
<1>5. PICK n : n = NoList
  OBVIOUS
<1>6. PICK q : q = pids[k]
  OBVIOUS
<1>7. NewPID(type, ts, prog, owner, idx, pids, k) =
        [[valid |-> TRUE, type |-> type, next |-> INDEX_INVALID_VALUE, ts |-> ts, prog |-> prog, owner |-> owner,
          pid |-> q, esecm |-> n] EXCEPT !.next = a]
  BY <1>4, <1>5, <1>6 DEF NewPID, InitInputPID
<1>8. NewPID(type, ts, prog, owner, idx, pids, k) =
        [valid |-> TRUE, type |-> type, next |-> a, ts |-> ts, prog |-> prog, owner |-> owner,
         pid |-> q, esecm |-> n]
  BY <1>7, Zenon
<1> QED BY <1>1, <1>2, <1>3, <1>4, <1>5, <1>6, <1>8 DEF PIDRec, NewEntry

\* Replacing the entries at some indices.
LEMMA SetPIDs ==
    ASSUME NEW t, Shape(t), NEW f, f = [j \in DOMAIN t.pid |-> f[j]], \A j \in DOMAIN t.pid : f[j] \in PIDRec
    PROVE  LET u == [t EXCEPT !.pid = f] IN Shape(u) /\ u.ts = t.ts /\ u.prog = t.prog /\ u.pid = f
<1>1. PICK a \in Nat, b \in Nat, c \in Nat : t \in Tables(a, b, c)
  BY DEF Shape
<1>2. DOMAIN t.pid = 0 .. c - 1
  BY <1>1, Parts
<1>3. f \in [0 .. c - 1 -> PIDRec]
  BY <1>2
<1>4. [t EXCEPT !.pid = f] \in Tables(a, b, c)
  BY <1>1, <1>3, Zenon DEF Tables
<1>5. /\ [t EXCEPT !.pid = f].ts = t.ts /\ [t EXCEPT !.pid = f].prog = t.prog
      /\ [t EXCEPT !.pid = f].pid = f
  BY <1>1 DEF Tables
<1> QED BY <1>4, <1>5, Zenon DEF Shape

\* New entries of one list.
PutPIDsDone(t, u, type, ts, prog, owner, idx) ==
    /\ PutAt(t, u, idx)
    /\ \A k \in 1 .. Len(idx) : NewEntry(u.pid[idx[k]], type, ts, prog, owner, After(idx, k))

\* PutPIDs fills the entries idx, linked in this order, and no other.
LEMMA PutPIDsAre ==
    ASSUME NEW t, Shape(t), NEW type \in Types, NEW ts \in Nat, NEW prog \in Nat, NEW owner \in Nat,
           NEW idx \in Seq(Nat), Distinct(idx), \A k \in 1 .. Len(idx) : idx[k] \in DOMAIN t.pid,
           NEW pids \in Seq(Nat), Len(pids) = Len(idx)
    PROVE  PutPIDsDone(t, PutPIDs(t, type, ts, prog, owner, idx, pids), type, ts, prog, owner, idx)
<1>1. PICK f : f = [i \in DOMAIN t.pid |->
        IF Contains(idx, i) THEN NewPID(type, ts, prog, owner, idx, pids, PosIn(idx, i)) ELSE t.pid[i]]
  BY Zenon
<1>2. /\ \A k \in 1 .. Len(idx) : Contains(idx, idx[k]) /\ PosIn(idx, idx[k]) = k
      /\ \A i : Contains(idx, i) => PosIn(idx, i) \in 1 .. Len(idx) /\ idx[PosIn(idx, i)] = i
  BY PosFacts, Zenon DEF Distinct
<1>3. f = [j \in DOMAIN t.pid |-> f[j]]
  BY <1>1
<1>4. ASSUME NEW j \in DOMAIN t.pid PROVE f[j] \in PIDRec
  <2>1. CASE Contains(idx, j)
    <3>1. PosIn(idx, j) \in 1 .. Len(idx)
      BY <1>2, <2>1
    <3>2. NewPID(type, ts, prog, owner, idx, pids, PosIn(idx, j)) \in PIDRec
      BY <3>1, NewPIDFacts DEF NewEntry
    <3> QED BY <1>1, <2>1, <3>2
  <2>2. CASE ~Contains(idx, j)
    <3>1. t.pid[j] \in PIDRec
      BY ShapeFacts
    <3> QED BY <1>1, <2>2, <3>1
  <2> QED BY <2>1, <2>2
<1>5. PICK u : u = [t EXCEPT !.pid = f]
  BY Zenon
<1>6. Shape(u) /\ u.ts = t.ts /\ u.prog = t.prog /\ u.pid = f
  BY <1>3, <1>4, <1>5, SetPIDs, Zenon
<1>7. PutPIDs(t, type, ts, prog, owner, idx, pids) = u
  BY <1>1, <1>5 DEF PutPIDs
<1>8. DOMAIN f = DOMAIN t.pid
  BY <1>1
<1>9. ASSUME NEW j \in DOMAIN t.pid, \A k \in 1 .. Len(idx) : idx[k] # j PROVE f[j] = t.pid[j]
  <2>1. ~Contains(idx, j)
    BY <1>2, <1>9
  <2> QED BY <1>1, <2>1
<1>10. ASSUME NEW k \in 1 .. Len(idx) PROVE NewEntry(f[idx[k]], type, ts, prog, owner, After(idx, k))
  <2>1. f[idx[k]] = NewPID(type, ts, prog, owner, idx, pids, k)
    BY <1>1, <1>2
  <2> QED BY <2>1, NewPIDFacts, Zenon
<1>11. PutAt(t, u, idx)
  BY <1>6, <1>8, <1>9, Zenon DEF PutAt
<1> QED BY <1>6, <1>7, <1>10, <1>11, Zenon DEF PutPIDsDone

Minus(R, s) == {j \in R : \A k \in 1 .. Len(s) : s[k] # j}

\* What is filled is no longer reserved.
LEMMA KnownPut ==
    ASSUME NEW t, NEW R, Known(t, R), NEW u, NEW s, PutAt(t, u, s),
           \A k \in 1 .. Len(s) : u.pid[s[k]].valid /\ u.pid[s[k]].type # "UNKNOWN"
    PROVE  Known(u, Minus(R, s))
<1>1. ASSUME NEW j \in DOMAIN u.pid PROVE u.pid[j].type = "UNKNOWN" <=> (~u.pid[j].valid \/ j \in Minus(R, s))
  <2>1. CASE \E k \in 1 .. Len(s) : s[k] = j
    <3>1. u.pid[j].valid /\ u.pid[j].type # "UNKNOWN"
      BY <2>1
    <3>2. j \notin Minus(R, s)
      BY <2>1 DEF Minus
    <3> QED BY <3>1, <3>2
  <2>2. CASE \A k \in 1 .. Len(s) : s[k] # j
    <3>1. j \in DOMAIN t.pid /\ u.pid[j] = t.pid[j]
      BY <2>2 DEF PutAt
    <3>2. t.pid[j].type = "UNKNOWN" <=> (~t.pid[j].valid \/ j \in R)
      BY <3>1 DEF Known
    <3>3. j \in Minus(R, s) <=> j \in R
      BY <2>2 DEF Minus
    <3> QED BY <3>1, <3>2, <3>3
  <2> QED BY <2>1, <2>2
<1> QED BY <1>1 DEF Known

\* A new program entry is what InitInputProgram makes it, without lists.
LEMMA NewProgFacts ==
    ASSUME NEW ts \in Nat, NEW sid \in Nat, NEW nx \in Nat
    PROVE  LET e == [InitInputProgram(ts, sid) EXCEPT !.next = nx]
           IN  /\ e \in ProgRec /\ e.valid /\ e.ts = ts /\ e.next = nx /\ e.pcr = INDEX_INVALID_VALUE
               /\ e.es = NoList /\ e.psecm = NoList
<1>1. NoList \in ListRec
  BY DEF NoList, ListRec, INDEX_INVALID_VALUE
<1>2. PICK n : n = NoList
  OBVIOUS
<1>3. INDEX_INVALID_VALUE \in Nat
  BY DEF INDEX_INVALID_VALUE
<1>4. PICK x : x = InitInputProgram(ts, sid)
  OBVIOUS
<1>5. /\ x \in ProgRec /\ x.valid /\ x.ts = ts /\ x.pcr = INDEX_INVALID_VALUE
      /\ x.es = NoList /\ x.psecm = NoList
  BY <1>1, <1>2, <1>3, <1>4 DEF InitInputProgram, ProgRec
<1>6. PICK e : e = [x EXCEPT !.next = nx]
  BY Zenon
<1>7. /\ e \in ProgRec /\ e.valid = x.valid /\ e.ts = x.ts /\ e.next = nx /\ e.pcr = x.pcr
      /\ e.es = x.es /\ e.psecm = x.psecm
  BY <1>5, <1>6, Zenon DEF ProgRec
<1> QED BY <1>4, <1>5, <1>6, <1>7

\* The programs of a PAT in a table g.
PutProgsAre(table, g, ts, new) ==
    /\ g = [p \in DOMAIN table |-> g[p]]
    /\ \A p \in DOMAIN table : (\A k \in 1 .. Len(new) : new[k] # p) => g[p] = table[p]
    /\ \A k \in 1 .. Len(new) :
        LET e == g[new[k]]
        IN  /\ e \in ProgRec /\ e.valid /\ e.ts = ts /\ e.next = After(new, k) /\ e.pcr = INDEX_INVALID_VALUE
            /\ e.es = NoList /\ e.psecm = NoList

\* PutProgs fills the entries new, linked in this order, and no other.
LEMMA PutProgsFacts ==
    ASSUME NEW table, NEW ts \in Nat, NEW new \in Seq(Nat), Distinct(new),
           \A k \in 1 .. Len(new) : new[k] \in DOMAIN table,
           NEW sids \in Seq(Nat), Len(sids) = Len(new)
    PROVE  PutProgsAre(table, PutProgs(table, ts, new, sids), ts, new)
<1>1. PICK g : g = PutProgs(table, ts, new, sids)
  OBVIOUS
<1>2. /\ \A k \in 1 .. Len(new) : Contains(new, new[k]) /\ PosIn(new, new[k]) = k
      /\ \A i : Contains(new, i) => PosIn(new, i) \in 1 .. Len(new) /\ new[PosIn(new, i)] = i
  BY PosFacts, Zenon DEF Distinct
<1>3. g = [p \in DOMAIN table |->
            IF Contains(new, p)
            THEN [InitInputProgram(ts, sids[PosIn(new, p)]) EXCEPT !.next = After(new, PosIn(new, p))]
            ELSE table[p]]
  BY <1>1 DEF PutProgs
<1>4. g = [p \in DOMAIN table |-> g[p]]
  BY <1>3
<1>5. ASSUME NEW p \in DOMAIN table, \A k \in 1 .. Len(new) : new[k] # p PROVE g[p] = table[p]
  <2>1. ~Contains(new, p)
    BY <1>2, <1>5
  <2> QED BY <1>3, <2>1
<1>6. ASSUME NEW k \in 1 .. Len(new)
      PROVE  LET e == g[new[k]]
             IN  /\ e \in ProgRec /\ e.valid /\ e.ts = ts /\ e.next = After(new, k) /\ e.pcr = INDEX_INVALID_VALUE
                 /\ e.es = NoList /\ e.psecm = NoList
  <2>1. g[new[k]] = [InitInputProgram(ts, sids[k]) EXCEPT !.next = After(new, k)]
    BY <1>2, <1>3, Zenon
  <2>2. sids[k] \in Nat /\ After(new, k) \in Nat
    BY DEF After, INDEX_INVALID_VALUE
  <2> QED BY <2>1, <2>2, NewProgFacts
<1>7. PutProgsAre(table, g, ts, new)
  BY <1>4, <1>5, <1>6 DEF PutProgsAre
<1> QED BY <1>1, <1>7

-----------------------------------------------------------------------------
(* What a scanner finds.                                                   *)

\* The tables of a scan of channel ch have one stream, in use.
Scan(t, ch) == DOMAIN t.ts = {0} /\ t.ts[0].valid /\ t.ts[0].channel = ch

\* The PAT gave n programs.
PATDone(r, ch, n) ==
    r.err = "SUCCESS" =>
        /\ Scan(r.t, ch)
        /\ \E P : Layout(r.t, P, Nothing(Names), {}, {}, {}) /\ Len(P[0]) = n

NothingFacts == \A i \in Nat : Nothing(Nat)[i] = << >> /\ Len(Nothing(Nat)[i]) = 0

\* The empty list of a stream.
LEMMA NoProgsYet ==
    ASSUME NEW t, NEW W, Layout(t, Nothing(Nat), W, {}, {}, {}), NEW ch, Scan(t, ch)
    PROVE  InTSProgIndexList(t, 0) = Found(<< >>)
<1>1. Chain(t.prog, t.ts[0].prog, Nothing(Nat)[0])
  BY DEF Layout, Linked, Scan
<1>2. Nothing(Nat)[0] = << >>
  BY DEF Nothing
<1>3. t.ts[0].prog.num = 0
  BY <1>1, <1>2 DEF Chain
<1> QED BY <1>3 DEF InTSProgIndexList, IndexList, Scan

\* New programs at the indices new of a stream that has none.
LEMMA PutNewProgs ==
    ASSUME NEW u, Layout(u, Nothing(Nat), Nothing(Names), {}, {}, {}), NEW ch, Scan(u, ch),
           NEW new, new # << >>, Fresh(u.prog, new, Len(new)), Len(new) < MAX_INDEX_LIST_NUMBER,
           NEW g, PutProgsAre(u.prog, g, 0, new),
           NEW w, w = [u EXCEPT !.prog = g, !.ts[0].prog = ListAt(new)]
    PROVE  Layout(w, With(Nothing(Nat), 0, new), Nothing(Names), {}, {}, {}) /\ Scan(w, ch)
<1>1. PICK a \in Nat, b \in Nat, c \in Nat : u \in Tables(a, b, c)
  BY DEF Layout, Shape
<1>2. new \in Seq(Nat) /\ Distinct(new) /\ \A k \in 1 .. Len(new) : new[k] \in DOMAIN u.prog /\ ~u.prog[new[k]].valid
  BY DEF Fresh, Distinct
<1>3. ListAt(new) \in ListRec /\ ListAt(new).head = new[1] /\ ListAt(new).num = Len(new)
  BY <1>2 DEF ListAt, ListRec
<1>4. /\ w.prog = g /\ w.pid = u.pid /\ DOMAIN w.ts = DOMAIN u.ts /\ DOMAIN u.ts = {0}
      /\ w.ts[0] = [u.ts[0] EXCEPT !.prog = ListAt(new)]
  BY <1>1, Zenon DEF Tables, Scan
<1>5. u.ts[0] \in TSRec
  BY ShapeFacts DEF Layout, Scan
<1>6. /\ w.ts[0] \in TSRec /\ w.ts[0].prog = ListAt(new) /\ w.ts[0].valid /\ w.ts[0].channel = ch
      /\ w.ts[0].emm = u.ts[0].emm /\ w.ts[0].other = u.ts[0].other
  <2>1. PICK list : list = ListAt(new)
    OBVIOUS
  <2>2. PICK e : e = u.ts[0]
    OBVIOUS
  <2>3. list \in ListRec /\ e \in TSRec
    BY <1>3, <1>5, <2>1, <2>2
  <2>4. w.ts[0] = [e EXCEPT !.prog = list]
    BY <1>4, <2>1, <2>2
  <2>5. /\ w.ts[0] \in TSRec /\ w.ts[0].prog = list /\ w.ts[0].valid = e.valid /\ w.ts[0].channel = e.channel
        /\ w.ts[0].emm = e.emm /\ w.ts[0].other = e.other
    BY <2>3, <2>4 DEF TSRec
  <2> QED BY <2>1, <2>2, <2>5 DEF Scan
<1>7. DOMAIN g = DOMAIN u.prog /\ DOMAIN u.prog \subseteq Nat
  BY ShapeFacts DEF PutProgsAre, Layout
<1>8. Shape(w)
  <2>1. \A p \in DOMAIN u.prog : g[p] \in ProgRec
    <3>1. \A p \in DOMAIN u.prog : u.prog[p] \in ProgRec
      BY ShapeFacts DEF Layout
    <3>2. ASSUME NEW p \in DOMAIN u.prog PROVE g[p] \in ProgRec
      <4>1. CASE \E k \in 1 .. Len(new) : new[k] = p
        BY <4>1 DEF PutProgsAre
      <4>2. CASE \A k \in 1 .. Len(new) : new[k] # p
        BY <3>1, <4>2, Zenon DEF PutProgsAre
      <4> QED BY <4>1, <4>2
    <3> QED BY <3>2
  <2>2. DOMAIN u.prog = 0 .. b - 1 /\ u.ts \in [0 .. a - 1 -> TSRec] /\ DOMAIN u.ts = 0 .. a - 1
    BY <1>1, Parts
  <2>3. g \in [0 .. b - 1 -> ProgRec]
    BY <2>1, <2>2 DEF PutProgsAre
  <2>4. PICK e : e = [u.ts[0] EXCEPT !.prog = ListAt(new)]
    BY Zenon
  <2>5. e \in TSRec
    BY <1>4, <1>6, <2>4
  <2>6. 0 \in 0 .. a - 1
    BY <1>4, <2>2
  <2>7. w = [ts |-> [u.ts EXCEPT ![0] = e], prog |-> g, pid |-> u.pid]
    BY <1>1, <2>4, Zenon DEF Tables
  <2>8. w \in Tables(a, b, c)
    <3>1. [u.ts EXCEPT ![0] = e] \in [0 .. a - 1 -> TSRec]
      BY <2>2, <2>5, <2>6
    <3>2. u.pid \in [0 .. c - 1 -> PIDRec]
      BY <1>1, Parts
    <3>3. PICK x : x = [u.ts EXCEPT ![0] = e]
      BY Zenon
    <3>4. PICK y : y = u.pid
      OBVIOUS
    <3>5. x \in [0 .. a - 1 -> TSRec] /\ y \in [0 .. c - 1 -> PIDRec]
      BY <3>1, <3>2, <3>3, <3>4
    <3>6. w = [ts |-> x, prog |-> g, pid |-> y]
      BY <2>7, <3>3, <3>4, Zenon
    <3> QED BY <2>3, <3>5, <3>6 DEF Tables
  <2> QED BY <2>8 DEF Shape
<1>9. PICK Y : Y = Only(Nat, 0, new)
  OBVIOUS
<1>10. Nothing(Nat) \in [Nat -> Seq(Nat)] /\ Nothing(Names) \in [Names -> Seq(Nat)]
  BY DEF Nothing
<1>11. Y \in [Nat -> Seq(Nat)] /\ Once(Nat, Y) /\ Joined(Nat, Nothing(Nat), Y) = With(Nothing(Nat), 0, new)
  <2>1. 0 \in Nat
    OBVIOUS
  <2>2. PICK P : P = Nothing(Nat)
    OBVIOUS
  <2>3. P \in [Nat -> Seq(Nat)]
    BY <1>10, <2>2
  <2>4. PICK N : N = Nat
    BY Zenon
  <2>5. P \in [N -> Seq(Nat)] /\ 0 \in N
    BY <2>1, <2>3, <2>4
  <2>6. PICK o : o = Only(N, 0, new)
    OBVIOUS
  <2>7. o \in [N -> Seq(Nat)] /\ Once(N, o) /\ Joined(N, P, o) = With(P, 0, new)
    BY <1>2, <2>5, <2>6, OnlyFacts, Zenon
  <2> QED BY <1>9, <2>2, <2>4, <2>6, <2>7
<1>12. Y[0] = new /\ \A i \in Nat : i # 0 => Y[i] = << >> /\ Len(Y[i]) = 0
  BY <1>9 DEF Only
<1>13. PICK NW : NW = {n \in Names : n[2] \in DOMAIN u.prog /\ ~u.prog[n[2]].valid /\ n[1] \in {"PCRPID", "ESPID", "PS_ECMPID"}}
  BY Zenon
<1>14. ASSUME NEW i \in Nat, NEW k \in 1 .. Len(Y[i]) PROVE ProgOf(u, w, i, Y[i][k], {0})
  <2>1. i = 0
    BY <1>12
  <2>2. k \in 1 .. Len(new) /\ Y[i][k] = new[k]
    BY <1>12, <2>1
  <2>3. g[new[k]].valid /\ g[new[k]].ts = 0
    BY <2>2 DEF PutProgsAre
  <2> QED BY <1>2, <1>4, <1>6, <1>7, <2>1, <2>2, <2>3 DEF ProgOf
<1>15. ASSUME NEW p \in DOMAIN u.prog, u.prog[p].valid PROVE w.prog[p] = u.prog[p]
  <2>1. \A k \in 1 .. Len(new) : new[k] # p
    BY <1>2, <1>15
  <2> QED BY <1>4, <2>1, Zenon DEF PutProgsAre
<1>16. ASSUME NEW p \in DOMAIN w.prog, w.prog[p].valid
       PROVE  \/ p \in DOMAIN u.prog /\ u.prog[p].valid
              \/ \E i \in Nat : \E k \in 1 .. Len(Y[i]) : Y[i][k] = p
  <2>1. CASE \E k \in 1 .. Len(new) : new[k] = p
    <3>1. 0 \in Nat
      OBVIOUS
    <3> QED BY <1>12, <2>1, <3>1
  <2>2. CASE \A k \in 1 .. Len(new) : new[k] # p
    BY <1>4, <1>7, <1>16, <2>2, ZenonT(60) DEF PutProgsAre
  <2> QED BY <2>1, <2>2
<1>17. ASSUME NEW n \in Names, n \notin NW, Owned(w, n) PROVE Owned(u, n) /\ HeadRec(w, n) = HeadRec(u, n)
  <2>1. n[1] \in Types \ {"UNKNOWN"}
    BY NameFacts
  <2>2. CASE n[1] \in {"EMMPID", "OTHERPID"}
    <3>1. n[2] = 0
      BY <1>4, <1>17, <2>2 DEF Owned
    <3> QED BY <1>4, <1>6, <2>2, <3>1 DEF Owned, HeadRec, Scan
  <2>3. CASE n[1] \in {"PCRPID", "ESPID", "PS_ECMPID"}
    <3>1. n[2] \in DOMAIN w.prog
      BY <1>17, <2>3 DEF Owned
    <3>2. n[2] \in DOMAIN u.prog
      BY <1>4, <1>7, <3>1
    <3>3. u.prog[n[2]].valid
      BY <1>13, <1>17, <2>3, <3>2
    <3>4. w.prog[n[2]] = u.prog[n[2]]
      BY <1>15, <3>2, <3>3
    <3> QED BY <2>3, <3>2, <3>3, <3>4 DEF Owned, HeadRec
  <2>4. CASE n[1] = "ES_ECMPID"
    BY <1>4, <1>17, <2>4 DEF Owned, HeadRec
  <2> QED BY <2>1, <2>2, <2>3, <2>4 DEF Types
<1>18. \A i \in Nat : Len(Nothing(Nat)[i]) + Len(Y[i]) < MAX_INDEX_LIST_NUMBER
  <2>1. \A i \in Nat : Len(Nothing(Nat)[i]) = 0
    BY DEF Nothing
  <2>2. \A i \in Nat : Len(Y[i]) \in Nat /\ Len(Y[i]) < MAX_INDEX_LIST_NUMBER
    <3>1. Len(new) \in Nat /\ 0 < MAX_INDEX_LIST_NUMBER
      BY <1>2, TableAssumption
    <3>2. ASSUME NEW i \in Nat PROVE Len(Y[i]) \in Nat /\ Len(Y[i]) < MAX_INDEX_LIST_NUMBER
      <4>1. CASE i = 0
        BY <1>12, <3>1, <4>1
      <4>2. CASE i # 0
        BY <1>12, <3>1, <4>2
      <4> QED BY <4>1, <4>2
    <3> QED BY <3>2
  <2>3. ASSUME NEW i \in Nat PROVE Len(Nothing(Nat)[i]) + Len(Y[i]) < MAX_INDEX_LIST_NUMBER
    <3>1. PICK x \in Nat : x = Len(Y[i])
      BY <2>2, Zenon
    <3>2. 0 + x = x
      BY <3>1
    <3> QED BY <2>1, <2>2, <3>1, <3>2, Zenon
  <2> QED BY <2>3, Zenon
<1>19. ProgsAdded(u, w, Nothing(Nat), Y, {0}, NW)
  <2>1. \A i \in DOMAIN u.ts : u.ts[i].valid => w.ts[i].valid
    BY <1>4, <1>6
  <2>2. \A i \in DOMAIN u.ts : i \in {0}
    BY <1>4
  <2> QED BY <1>4, <1>7, <1>11, <1>14, <1>15, <1>16, <1>17, <1>18, <2>1, <2>2, Zenon DEF ProgsAdded
<1>20. Layout(w, With(Nothing(Nat), 0, new), Nothing(Names), {0}, NW, {})
  <2>1. PICK P : P = Nothing(Nat)
    OBVIOUS
  <2>2. PICK W : W = Nothing(Names)
    OBVIOUS
  <2>3. Layout(u, P, W, {}, {}, {}) /\ ProgsAdded(u, w, P, Y, {0}, NW)
    BY <1>19, <2>1, <2>2
  <2>4. {} \subseteq {0} /\ {} \subseteq NW
    OBVIOUS
  <2>5. Layout(w, Joined(Nat, P, Y), W, {0}, NW, {})
    BY <1>8, <2>3, <2>4, AddProgs
  <2> QED BY <1>11, <2>1, <2>2, <2>5
<1>21. Chain(w.prog, w.ts[0].prog, With(Nothing(Nat), 0, new)[0])
  <2>1. With(Nothing(Nat), 0, new)[0] = new
    <3>1. << >> \o new = new
      BY <1>2
    <3>2. With(Nothing(Nat), 0, new)[0] = << >> \o new
      BY DEF With, Nothing
    <3> QED BY <3>1, <3>2
  <2>2. \A k \in 1 .. Len(new) : w.prog[new[k]].next = After(new, k)
    BY <1>4 DEF PutProgsAre
  <2> QED BY <1>3, <1>6, <2>1, <2>2 DEF Chain
<1>22. ASSUME NEW n \in Names, Owned(w, n), n \in NW PROVE Strung(w, n, Nothing(Names)[n])
  <2>1. n[2] \in DOMAIN w.prog /\ w.prog[n[2]].valid /\ ~u.prog[n[2]].valid /\ n[1] \in {"PCRPID", "ESPID", "PS_ECMPID"}
    BY <1>13, <1>22 DEF Owned
  <2>2. \E k \in 1 .. Len(new) : new[k] = n[2]
    <3>1. ASSUME \A k \in 1 .. Len(new) : new[k] # n[2] PROVE FALSE
      <4>1. n[2] \in DOMAIN u.prog
        BY <1>4, <1>7, <2>1
      <4>2. g[n[2]] = u.prog[n[2]]
        BY <3>1, <4>1, Zenon DEF PutProgsAre
      <4> QED BY <1>4, <2>1, <4>2
    <3> QED BY <3>1
  <2>3. w.prog[n[2]].pcr = INDEX_INVALID_VALUE /\ w.prog[n[2]].es = NoList /\ w.prog[n[2]].psecm = NoList
    BY <1>4, <2>2 DEF PutProgsAre
  <2>4. Nothing(Names)[n] = << >>
    BY DEF Nothing
  <2> QED BY <2>1, <2>3, <2>4 DEF Strung, HeadRec, Chain, NoList
<1>23. Layout(w, With(Nothing(Nat), 0, new), Nothing(Names), {}, {}, {})
  <2>1. \A i \in DOMAIN w.ts : w.ts[i].valid /\ i \in {0} \ {} => Chain(w.prog, w.ts[i].prog, With(Nothing(Nat), 0, new)[i])
    BY <1>21
  <2>2. \A n \in Names : Owned(w, n) /\ n \in NW \ {} => Strung(w, n, Nothing(Names)[n])
    BY <1>22
  <2> QED BY <1>20, <2>1, <2>2, Close, Zenon
<1> QED BY <1>4, <1>6, <1>23 DEF Scan

\* The first part of a sequence put together of two.
LEMMA CatLeft ==
    ASSUME NEW old \in Seq(Nat), NEW new \in Seq(Nat), NEW k \in 1 .. Len(old)
    PROVE  k \in 1 .. Len(old \o new) /\ (old \o new)[k] = old[k]
<1>1. Len(old) \in Nat /\ Len(new) \in Nat /\ Len(old \o new) = Len(old) + Len(new)
  OBVIOUS
<1>2. k \in 1 .. Len(old) + Len(new)
  BY <1>1
<1> QED BY <1>1, <1>2

\* The second part of a sequence put together of two.
LEMMA CatRight ==
    ASSUME NEW old \in Seq(Nat), NEW new \in Seq(Nat), NEW k \in 1 .. Len(new)
    PROVE  k + Len(old) \in 1 .. Len(old \o new) /\ (old \o new)[k + Len(old)] = new[k]
<1>1. Len(old) \in Nat /\ Len(new) \in Nat /\ Len(old \o new) = Len(old) + Len(new)
  OBVIOUS
<1>2. k + Len(old) \in 1 .. Len(old) + Len(new)
  BY <1>1
<1>3. ~(k + Len(old) <= Len(old)) /\ (k + Len(old)) - Len(old) = k
  BY <1>1
<1> QED BY <1>1, <1>2, <1>3

\* A list with more at its end.
LEMMA ChainJoin ==
    ASSUME NEW table, NEW list \in ListRec, NEW old \in Seq(Nat), Chain(table, list, old),
           NEW new \in Seq(Nat), new # << >>, NEW table2,
           \A k \in 1 .. Len(old) : table2[old[k]].next = IF k < Len(old) THEN table[old[k]].next ELSE new[1],
           \A k \in 1 .. Len(new) : table2[new[k]].next = After(new, k)
    PROVE  Chain(table2, Longer(list, new), old \o new)
<1>1. PICK s : s = old \o new
  BY Zenon
<1>2. /\ Len(s) = Len(old) + Len(new) /\ Len(old) \in Nat /\ Len(new) \in Nat \ {0} /\ s # << >>
      /\ \A k \in 1 .. Len(s) : s[k] = IF k <= Len(old) THEN old[k] ELSE new[k - Len(old)]
  BY <1>1
<1>3. Len(old) = list.num
  BY DEF Chain
<1>4. ListAt(new).head = new[1] /\ ListAt(new).num = Len(new)
  BY DEF ListAt
<1>5. Len(s) = Longer(list, new).num
  <2>1. CASE list.num = 0
    BY <1>2, <1>3, <1>4, <2>1 DEF Longer
  <2>2. CASE list.num # 0
    <3>1. PICK a \in Nat, b \in Nat : a = list.num /\ b = Len(new)
      BY <1>2 DEF ListRec
    <3>2. [list EXCEPT !.num = @ + Len(new)].num = a + b
      BY <3>1 DEF ListRec
    <3> QED BY <1>2, <1>3, <2>2, <3>1, <3>2 DEF Longer
  <2> QED BY <2>1, <2>2
<1>6. Longer(list, new).head = s[1]
  <2>1. 1 \in 1 .. Len(s)
    BY <1>2
  <2>2. CASE list.num = 0
    BY <1>2, <1>3, <1>4, <2>1, <2>2 DEF Longer
  <2>3. CASE list.num # 0
    <3>1. [list EXCEPT !.num = @ + Len(new)].head = list.head
      BY DEF ListRec
    <3>2. old # << >> /\ 1 <= Len(old)
      BY <1>2, <1>3, <2>3
    <3>3. list.head = old[1]
      BY <3>2 DEF Chain
    <3> QED BY <1>2, <2>1, <2>3, <3>1, <3>2, <3>3, Zenon DEF Longer
  <2> QED BY <2>2, <2>3
<1>7. ASSUME NEW k \in 1 .. Len(s) PROVE table2[s[k]].next = After(s, k)
  <2>1. CASE k < Len(old)
    <3>1. k \in 1 .. Len(old) /\ s[k] = old[k] /\ k < Len(s) /\ k + 1 \in 1 .. Len(s) /\ s[k + 1] = old[k + 1]
      BY <1>2, <2>1
    <3>2. table[old[k]].next = old[k + 1]
      BY <2>1, <3>1 DEF Chain, After
    <3> QED BY <2>1, <3>1, <3>2, Zenon DEF After
  <2>2. CASE k = Len(old)
    <3>1. k \in 1 .. Len(old) /\ s[k] = old[k] /\ k < Len(s) /\ k + 1 \in 1 .. Len(s) /\ s[k + 1] = new[1]
      <4>1. k \in 1 .. Len(old) /\ k < Len(s) /\ k + 1 \in 1 .. Len(s)
        BY <1>2, <2>2
      <4>2. s[k] = old[k]
        BY <1>2, <4>1
      <4>3. ~(k + 1 <= Len(old)) /\ k + 1 - Len(old) = 1
        BY <1>2, <2>2
      <4>4. s[k + 1] = new[k + 1 - Len(old)]
        BY <1>2, <4>1, <4>3
      <4> QED BY <4>1, <4>2, <4>3, <4>4
    <3> QED BY <2>2, <3>1 DEF After
  <2>3. CASE k > Len(old)
    <3>1. PICK m \in 1 .. Len(new) : m = k - Len(old)
      BY <1>2, <2>3, SMTT(30)
    <3>2. s[k] = new[m] /\ (k < Len(s) <=> m < Len(new))
      BY <1>2, <2>3, <3>1
    <3>3. m < Len(new) => s[k + 1] = new[m + 1]
      BY <1>2, <2>3, <3>1
    <3> QED BY <3>2, <3>3, Zenon DEF After
  <2> QED BY <1>2, <2>1, <2>2, <2>3
<1>8. Chain(table2, Longer(list, new), s)
  BY <1>2, <1>5, <1>6, <1>7 DEF Chain
<1> QED BY <1>1, <1>8

\* The lists of a stream.
TSType == {"EMMPID", "OTHERPID"}
SetTSList(e, type, list) == IF type = "EMMPID" THEN [e EXCEPT !.emm = list] ELSE [e EXCEPT !.other = list]

\* The PIDs w, where new PIDs were linked to the list n of stream i.
Appended(v, w, i, type, old, new) ==
    /\ Shape(w) /\ w.prog = v.prog
    /\ w.ts = [v.ts EXCEPT ![i] = SetTSList(@, type, Longer(HeadRec(v, <<type, i>>), new))]
    /\ w.pid = LinkLast(v.pid, old, new[1])

\* PIDs put behind a list of the stream: the last entry and the head of the list are what joins them.
LEMMA AppendTS ==
    ASSUME NEW v, NEW P, NEW V, NEW i \in Nat, NEW type \in TSType,
           NEW W, NEW new \in Seq(Nat), new # << >>, V = With(W, <<type, i>>, new),
           Layout(v, P, V, {}, {<<type, i>>}, {}), i \in DOMAIN v.ts, v.ts[i].valid,
           W \in [Names -> Seq(Nat)], Chain(v.pid, HeadRec(v, <<type, i>>), W[<<type, i>>]),
           \A k \in 1 .. Len(new) : v.pid[new[k]].next = After(new, k),
           NEW w, Appended(v, w, i, type, W[<<type, i>>], new)
    PROVE  Layout(w, P, V, {}, {}, {})
<1>1. PICK n : n = <<type, i>>
  OBVIOUS
<1>2. n \in Names /\ n[1] = type /\ n[2] = i /\ type \in {"EMMPID", "OTHERPID"}
  BY <1>1 DEF Names, Types, TSType
<1>3. PICK old : old = W[n]
  OBVIOUS
<1>4. PICK list : list = HeadRec(v, n)
  OBVIOUS
<1>5. old \in Seq(Nat) /\ Len(old) \in Nat /\ Len(new) \in Nat \ {0} /\ (old = << >> <=> Len(old) = 0)
  BY <1>2, <1>3
<1>6. V[n] = old \o new
  BY <1>1, <1>2, <1>3 DEF With
<1>7. Once(Names, V) /\ Placed(v, P, V) /\ Shape(v) /\ Known(v, {}) /\ Back(v, P, V)
  BY DEF Layout
<1>8. v.ts[i] \in TSRec /\ DOMAIN v.pid \subseteq Nat /\ \A j \in DOMAIN v.pid : v.pid[j] \in PIDRec
  BY <1>7, ShapeFacts
<1>9. list \in ListRec
  BY <1>2, <1>4, <1>8 DEF HeadRec, TSRec
<1>10. PICK h : h = Longer(list, new)
  OBVIOUS
<1>11. w.prog = v.prog /\ w.ts = [v.ts EXCEPT ![i] = SetTSList(@, type, h)] /\ w.pid = LinkLast(v.pid, old, new[1])
  BY <1>1, <1>3, <1>4, <1>10 DEF Appended
<1>12. ASSUME NEW k \in 1 .. Len(old)
       PROVE  k \in 1 .. Len(V[n]) /\ V[n][k] = old[k] /\ old[k] \in DOMAIN v.pid
  <2>1. k \in 1 .. Len(V[n]) /\ V[n][k] = old[k]
    <3>1. k \in 1 .. Len(old \o new) /\ (old \o new)[k] = old[k]
      BY <1>5, CatLeft
    <3> QED BY <1>6, <3>1, Zenon
  <2> QED BY <1>2, <1>7, <2>1, Zenon DEF Placed
<1>13. ASSUME NEW k \in 1 .. Len(new)
       PROVE  k + Len(old) \in 1 .. Len(V[n]) /\ V[n][k + Len(old)] = new[k] /\ new[k] \in DOMAIN v.pid
  <2>1. k + Len(old) \in 1 .. Len(V[n]) /\ V[n][k + Len(old)] = new[k]
    <3>1. k + Len(old) \in 1 .. Len(old \o new) /\ (old \o new)[k + Len(old)] = new[k]
      BY <1>5, CatRight
    <3> QED BY <1>6, <3>1, Zenon
  <2> QED BY <1>2, <1>7, <2>1, Zenon DEF Placed
<1>14. \/ old = << >> /\ w.pid = v.pid
       \/ old # << >> /\ w.pid = [v.pid EXCEPT ![old[Len(old)]].next = new[1]]
  BY <1>11 DEF LinkLast, Last
<1>15. /\ DOMAIN w.pid = DOMAIN v.pid
       /\ \A j \in DOMAIN v.pid :
            /\ w.pid[j].type = v.pid[j].type /\ w.pid[j].ts = v.pid[j].ts /\ w.pid[j].prog = v.pid[j].prog
            /\ w.pid[j].valid = v.pid[j].valid /\ w.pid[j].esecm = v.pid[j].esecm
            /\ (\A k \in 1 .. Len(old) : k = Len(old) => old[k] # j) => w.pid[j].next = v.pid[j].next
            /\ (\E k \in 1 .. Len(old) : k = Len(old) /\ old[k] = j) => w.pid[j].next = new[1]
  <2>1. CASE old = << >>
    BY <1>5, <1>14, <2>1
  <2>2. CASE old # << >>
    <3>1. PICK z : z = old[Len(old)]
      OBVIOUS
    <3>2. w.pid = [v.pid EXCEPT ![z].next = new[1]]
      BY <1>14, <2>2, <3>1
    <3>3. Len(old) \in 1 .. Len(old)
      BY <1>5, <2>2
    <3>4. z \in DOMAIN v.pid
      BY <1>12, <3>1, <3>3
    <3>5. PICK f : f = v.pid[z]
      OBVIOUS
    <3>6. f \in PIDRec
      BY <1>8, <3>4, <3>5
    <3>7. PICK g : g = [f EXCEPT !.next = new[1]]
      BY Zenon
    <3>8. g.type = f.type /\ g.ts = f.ts /\ g.prog = f.prog /\ g.valid = f.valid /\ g.esecm = f.esecm /\ g.next = new[1]
      BY <3>6, <3>7 DEF PIDRec
    <3>9. DOMAIN w.pid = DOMAIN v.pid /\ w.pid[z] = g /\ \A j \in DOMAIN v.pid : j # z => w.pid[j] = v.pid[j]
      BY <3>2, <3>4, <3>5, <3>7
    <3> QED BY <3>1, <3>3, <3>5, <3>8, <3>9, Zenon
  <2> QED BY <2>1, <2>2
<1>16. /\ DOMAIN w.ts = DOMAIN v.ts /\ \A x \in DOMAIN v.ts : x # i => w.ts[x] = v.ts[x]
       /\ w.ts[i].valid = v.ts[i].valid /\ w.ts[i].channel = v.ts[i].channel /\ w.ts[i].prog = v.ts[i].prog
       /\ type = "EMMPID" => w.ts[i].emm = h /\ w.ts[i].other = v.ts[i].other
       /\ type = "OTHERPID" => w.ts[i].other = h /\ w.ts[i].emm = v.ts[i].emm
  <2>1. PICK e : e = v.ts[i]
    OBVIOUS
  <2>2. w.ts = [v.ts EXCEPT ![i] = SetTSList(e, type, h)]
    BY <1>11, <2>1
  <2>3. w.ts[i] = SetTSList(e, type, h) /\ DOMAIN w.ts = DOMAIN v.ts /\ \A x \in DOMAIN v.ts : x # i => w.ts[x] = v.ts[x]
    BY <2>2
  <2>4. e \in TSRec
    BY <1>8, <2>1
  <2>5. CASE type = "EMMPID"
    <3>1. w.ts[i] = [e EXCEPT !.emm = h]
      BY <2>3, <2>5 DEF SetTSList
    <3>2. /\ w.ts[i].valid = e.valid /\ w.ts[i].channel = e.channel /\ w.ts[i].prog = e.prog
          /\ w.ts[i].emm = h /\ w.ts[i].other = e.other
      BY <2>4, <3>1 DEF TSRec
    <3> QED BY <2>1, <2>3, <2>5, <3>2, Zenon
  <2>6. CASE type = "OTHERPID"
    <3>1. w.ts[i] = [e EXCEPT !.other = h]
      BY <2>3, <2>6 DEF SetTSList
    <3>2. /\ w.ts[i].valid = e.valid /\ w.ts[i].channel = e.channel /\ w.ts[i].prog = e.prog
          /\ w.ts[i].other = h /\ w.ts[i].emm = e.emm
      BY <2>4, <3>1 DEF TSRec
    <3> QED BY <2>1, <2>3, <2>6, <3>2, Zenon
  <2> QED BY <1>2, <2>5, <2>6, Zenon
<1>17. SameEntries(v, w)
  BY <1>11, <1>16, Zenon DEF SameEntries
<1>18. HeadRec(w, n) = h /\ \A m \in Names : m # n /\ Owned(w, m) => HeadRec(w, m) = HeadRec(v, m)
  <2>1. HeadRec(w, n) = h
    BY <1>2, <1>16 DEF HeadRec
  <2>2. ASSUME NEW m \in Names, m # n, Owned(w, m) PROVE HeadRec(w, m) = HeadRec(v, m)
    <3>1. m = <<m[1], m[2]>> /\ m[1] \in Types \ {"UNKNOWN"} /\ n = <<type, i>>
      BY <1>1, NameFacts
    <3>2. CASE m[1] \in {"EMMPID", "OTHERPID"}
      <4>1. m[2] \in DOMAIN v.ts
        BY <1>16, <2>2, <3>2 DEF Owned
      <4>2. CASE m[2] # i
        BY <1>16, <3>2, <4>1, <4>2 DEF HeadRec
      <4>3. CASE m[2] = i
        <5>1. m[1] # type
          BY <2>2, <3>1, <4>3
        <5> QED BY <1>2, <1>16, <3>2, <4>3, <5>1 DEF HeadRec
      <4> QED BY <4>2, <4>3
    <3>3. CASE m[1] = "ES_ECMPID"
      <4>1. m[2] \in DOMAIN v.pid
        BY <1>15, <2>2, <3>3 DEF Owned
      <4> QED BY <1>15, <3>3, <4>1 DEF HeadRec
    <3>4. CASE m[1] \in {"PCRPID", "ESPID", "PS_ECMPID"}
      BY <1>11, <3>4 DEF HeadRec
    <3> QED BY <3>1, <3>2, <3>3, <3>4 DEF Types
  <2> QED BY <2>1, <2>2
<1>19. ASSUME NEW m \in Names, m # n, NEW k \in 1 .. Len(V[m])
       PROVE  w.pid[V[m][k]].next = v.pid[V[m][k]].next
  <2>1. V[m][k] \in DOMAIN v.pid
    BY <1>7, Zenon DEF Placed
  <2>2. ASSUME NEW x \in 1 .. Len(old), old[x] = V[m][k] PROVE FALSE
    <3>1. x \in 1 .. Len(V[n]) /\ V[n][x] = V[m][k]
      BY <1>12, <2>2, Zenon
    <3> QED BY <1>2, <1>7, <1>19, <3>1, OnceUse
  <2> QED BY <1>15, <2>1, <2>2, Zenon
<1>20. PIDsTouched(v, w, V, {n})
  BY <1>15, <1>17, <1>18, <1>19, Zenon DEF PIDsTouched
<1>21. Known(w, {})
  BY <1>7, <1>15, Zenon DEF Known
<1>22. Layout(w, P, V, {}, {n}, {})
  <2>1. {n} \subseteq {n} /\ Shape(w)
    BY DEF Appended
  <2>2. Layout(v, P, V, {}, {n}, {})
    BY <1>1
  <2> QED BY <1>20, <1>21, <2>1, <2>2, TouchPIDs
<1>23. Chain(w.pid, h, old \o new)
  <2>1. Chain(v.pid, list, old)
    BY <1>1, <1>3, <1>4
  <2>2. ASSUME NEW k \in 1 .. Len(old)
        PROVE  w.pid[old[k]].next = IF k < Len(old) THEN v.pid[old[k]].next ELSE new[1]
    <3>1. old[k] \in DOMAIN v.pid
      BY <1>12
    <3>2. CASE k < Len(old)
      <4>1. ASSUME NEW x \in 1 .. Len(old), x = Len(old), old[x] = old[k] PROVE FALSE
        <5>1. x \in 1 .. Len(V[n]) /\ k \in 1 .. Len(V[n]) /\ V[n][x] = V[n][k]
          BY <1>12, <4>1, Zenon
        <5>2. x = k
          BY <1>2, <1>7, <5>1, OnceUse
        <5> QED BY <1>5, <3>2, <4>1, <5>2
      <4> QED BY <1>15, <3>1, <3>2, <4>1, Zenon
    <3>3. CASE ~(k < Len(old))
      <4>1. k = Len(old)
        BY <1>5, <3>3
      <4> QED BY <1>15, <3>1, <3>3, <4>1, Zenon
    <3> QED BY <3>2, <3>3
  <2>3. ASSUME NEW k \in 1 .. Len(new) PROVE w.pid[new[k]].next = After(new, k)
    <3>1. \A x \in 1 .. Len(old) : x = Len(old) => old[x] # new[k]
      <4>1. ASSUME NEW x \in 1 .. Len(old), old[x] = new[k] PROVE FALSE
        <5>1. x \in 1 .. Len(V[n]) /\ k + Len(old) \in 1 .. Len(V[n]) /\ V[n][x] = V[n][k + Len(old)]
          BY <1>12, <1>13, <4>1, Zenon
        <5>2. x = k + Len(old)
          BY <1>2, <1>7, <5>1, OnceUse
        <5> QED BY <1>5, <5>2
      <4> QED BY <4>1
    <3> QED BY <1>13, <1>15, <3>1, Zenon
  <2> QED BY <1>5, <1>9, <1>10, <2>1, <2>2, <2>3, ChainJoin, Zenon
<1>24. Strung(w, n, V[n])
  BY <1>2, <1>6, <1>18, <1>23, Zenon DEF Strung
<1>25. \A m \in Names : Owned(w, m) /\ m \in {n} \ {} => Strung(w, m, V[m])
  BY <1>24
<1>26. \A x \in DOMAIN w.ts : w.ts[x].valid /\ x \in {} \ {} => Chain(w.prog, w.ts[x].prog, P[x])
  OBVIOUS
<1> QED BY <1>22, <1>25, <1>26, Close, Zenon

\* PIDs of a stream at indices that were free.
LEMMA PutTSPIDs ==
    ASSUME NEW u, NEW P, NEW W, Layout(u, P, W, {}, {}, {}), NEW i \in DOMAIN u.ts, u.ts[i].valid, NEW type \in TSType,
           NEW new, new # << >>, Fresh(u.pid, new, Len(new)), Len(W[<<type, i>>]) + Len(new) < MAX_INDEX_LIST_NUMBER,
           NEW pids \in Seq(Nat), Len(pids) = Len(new),
           NEW v, v = PutPIDs(u, type, i, INDEX_INVALID_VALUE, INDEX_INVALID_VALUE, new, pids),
           NEW w, Shape(v) => Appended(v, w, i, type, W[<<type, i>>], new)
    PROVE  Layout(w, P, With(W, <<type, i>>, new), {}, {}, {})
<1>1. Shape(u) /\ Known(u, {}) /\ Linked(u, P, W, {}, {}) /\ Placed(u, P, W) /\ Back(u, P, W)
  BY DEF Layout
<1>2. i \in Nat /\ type \in {"EMMPID", "OTHERPID"} /\ type \in Types /\ INDEX_INVALID_VALUE \in Nat
  BY <1>1, ShapeFacts DEF TSType, Types, INDEX_INVALID_VALUE
<1>3. PICK n : n = <<type, i>>
  OBVIOUS
<1>4. n \in Names /\ n[1] = type /\ n[2] = i
  BY <1>2, <1>3 DEF Names, Types
<1>5. new \in Seq(Nat) /\ Distinct(new) /\ \A k \in 1 .. Len(new) : new[k] \in DOMAIN u.pid /\ ~u.pid[new[k]].valid
  BY DEF Fresh, Distinct
<1>6. PutPIDsDone(u, v, type, i, INDEX_INVALID_VALUE, INDEX_INVALID_VALUE, new)
  BY <1>1, <1>2, <1>5, PutPIDsAre, Zenon
<1>m. PutAt(u, v, new)
  BY <1>6 DEF PutPIDsDone
<1>7. ASSUME NEW k \in 1 .. Len(new)
      PROVE  LET e == v.pid[new[k]] IN e.valid /\ e.type = type /\ e.ts = i /\ e.next = After(new, k)
  BY <1>6 DEF PutPIDsDone, NewEntry
<1>8. RunPut(u, v, n, new)
  <2>1. ASSUME NEW k \in 1 .. Len(new)
        PROVE  /\ new[k] \in DOMAIN u.pid /\ u.pid[new[k]].type = "UNKNOWN"
               /\ v.pid[new[k]].type = n[1] /\ PointsBack(v, n, new[k])
    <3>1. u.pid[new[k]].type = "UNKNOWN"
      BY <1>1, <1>5, Zenon DEF Known
    <3>2. PointsBack(v, n, new[k])
      BY <1>2, <1>4, <1>7 DEF PointsBack
    <3> QED BY <1>4, <1>5, <1>7, <3>1, <3>2
  <2> QED BY <1>5, <1>m, <2>1 DEF RunPut, PutAt
<1>9. Owned(u, n)
  BY <1>2, <1>4 DEF Owned
<1>10. Known(v, {})
  <2>1. type # "UNKNOWN"
    BY <1>2
  <2>2. Known(v, Minus({}, new))
    BY <1>1, <1>m, <1>7, <2>1, KnownPut
  <2>3. Minus({}, new) = {}
    BY DEF Minus
  <2> QED BY <2>2, <2>3, Zenon
<1>11. Layout(v, P, With(W, n, new), {}, {n}, {})
  <2>1. Len(W[n]) + Len(new) < MAX_INDEX_LIST_NUMBER
    BY <1>3
  <2>2. {} \subseteq {n} /\ n \in {n} /\ n[1] # "ESPID"
    BY <1>2, <1>4
  <2> QED BY <1>4, <1>8, <1>9, <1>10, <2>1, <2>2, PutRun
<1>12. Shape(v) /\ v.ts = u.ts /\ v.prog = u.prog
  BY <1>m DEF PutAt
<1>13. Appended(v, w, i, type, W[<<type, i>>], new)
  BY <1>12
<1>14. Chain(v.pid, HeadRec(v, n), W[n])
  <2>1. Strung(u, n, W[n])
    BY <1>1, <1>4, <1>9 DEF Linked
  <2>2. Chain(u.pid, HeadRec(u, n), W[n])
    BY <1>2, <1>4, <2>1 DEF Strung
  <2>3. HeadRec(v, n) = HeadRec(u, n)
    BY <1>2, <1>4, <1>12 DEF HeadRec
  <2>4. ASSUME NEW k \in 1 .. Len(W[n]) PROVE v.pid[W[n][k]] = u.pid[W[n][k]]
    <3>1. W[n][k] \in DOMAIN u.pid /\ u.pid[W[n][k]].type = type
      BY <1>1, <1>4, Zenon DEF Placed, Back
    <3>2. \A m \in 1 .. Len(new) : new[m] # W[n][k]
      BY <1>2, <1>8, <3>1, Zenon DEF RunPut
    <3> QED BY <1>m, <3>1, <3>2 DEF PutAt
  <2> QED BY <2>2, <2>3, <2>4, Zenon DEF Chain
<1>15. PICK V : V = With(W, <<type, i>>, new)
  OBVIOUS
<1>16. Layout(v, P, V, {}, {<<type, i>>}, {})
  BY <1>3, <1>11, <1>15
<1>17. Chain(v.pid, HeadRec(v, <<type, i>>), W[<<type, i>>])
  BY <1>3, <1>14
<1>18. \A k \in 1 .. Len(new) : v.pid[new[k]].next = After(new, k)
  BY <1>7
<1>19. i \in DOMAIN v.ts /\ v.ts[i].valid /\ W \in [Names -> Seq(Nat)]
  BY <1>1, <1>12, Zenon DEF Placed
<1>20. Layout(w, P, V, {}, {}, {})
  BY <1>2, <1>5, <1>13, <1>15, <1>16, <1>17, <1>18, <1>19, AppendTS, Zenon
<1> QED BY <1>15, <1>20

\* The list after its last element was linked and its head set.
LinkedTS(v, i, type, old, new, h) ==
    [v EXCEPT !.pid = LinkLast(@, old, new[1]), !.ts[i] = SetTSList(@, type, h)]

IsLinkedTS(v, w, i, type, old, new, h) ==
    /\ Shape(w) /\ w.prog = v.prog /\ w.pid = LinkLast(v.pid, old, new[1])
    /\ w.ts = [v.ts EXCEPT ![i] = SetTSList(@, type, h)]

\* Joining them changes one link and one head.
LEMMA LinkedTSShape ==
    ASSUME NEW v, Shape(v), NEW i \in DOMAIN v.ts, NEW type \in TSType, NEW old \in Seq(Nat),
           \A k \in 1 .. Len(old) : old[k] \in DOMAIN v.pid, NEW new \in Seq(Nat), new # << >>, NEW h \in ListRec,
           NEW w, w = LinkedTS(v, i, type, old, new, h)
    PROVE  IsLinkedTS(v, w, i, type, old, new, h)
<1>1. PICK a \in Nat, b \in Nat, c \in Nat : v \in Tables(a, b, c)
  BY DEF Shape
<1>2. v.ts \in [0 .. a - 1 -> TSRec] /\ v.prog \in [0 .. b - 1 -> ProgRec] /\ v.pid \in [0 .. c - 1 -> PIDRec]
  BY <1>1, Parts, Zenon
<1>3. PICK f : f = LinkLast(v.pid, old, new[1])
  OBVIOUS
<1>4. f \in [0 .. c - 1 -> PIDRec]
  <2>1. CASE old = << >>
    BY <1>2, <1>3, <2>1 DEF LinkLast
  <2>2. CASE old # << >>
    <3>1. Len(old) \in 1 .. Len(old)
      BY <2>2
    <3>2. PICK z : z = old[Len(old)]
      OBVIOUS
    <3>3. z \in 0 .. c - 1
      BY <1>2, <3>1, <3>2, Zenon
    <3>4. PICK g : g = v.pid[z]
      OBVIOUS
    <3>5. g \in PIDRec
      BY <1>2, <3>3, <3>4
    <3>6. new[1] \in Nat
      OBVIOUS
    <3>7. PICK y : y = [g EXCEPT !.next = new[1]]
      BY Zenon
    <3>8. y \in PIDRec
      BY <3>5, <3>6, <3>7, Zenon DEF PIDRec
    <3>9. f = [v.pid EXCEPT ![z] = y]
      BY <1>3, <2>2, <3>2, <3>4, <3>7 DEF LinkLast, Last
    <3> QED BY <1>2, <3>3, <3>8, <3>9
  <2> QED BY <2>1, <2>2
<1>5. PICK e : e = SetTSList(v.ts[i], type, h)
  OBVIOUS
<1>6. e \in TSRec
  <2>1. PICK x : x = v.ts[i]
    OBVIOUS
  <2>2. x \in TSRec
    BY <2>1, ShapeFacts
  <2>3. [x EXCEPT !.emm = h] \in TSRec /\ [x EXCEPT !.other = h] \in TSRec
    BY <2>2, Zenon DEF TSRec
  <2> QED BY <1>5, <2>1, <2>3 DEF SetTSList
<1>7. PICK s : s = [v.ts EXCEPT ![i] = e]
  BY Zenon
<1>8. s \in [0 .. a - 1 -> TSRec]
  BY <1>2, <1>6, <1>7
<1>9. PICK q : q = v.prog
  OBVIOUS
<1>11. w = [ts |-> s, prog |-> q, pid |-> f]
  BY <1>1, <1>3, <1>5, <1>7, <1>9, Zenon DEF LinkedTS, Tables
<1>12. q \in [0 .. b - 1 -> ProgRec]
  BY <1>2, <1>9
<1>13. w \in Tables(a, b, c)
  BY <1>4, <1>8, <1>11, <1>12 DEF Tables
<1>14. Shape(w)
  BY <1>13 DEF Shape
<1> QED BY <1>3, <1>5, <1>7, <1>9, <1>11, <1>14 DEF IsLinkedTS

\* SetInputPATInfo: the programs of the PAT, in its order, with no PIDs yet.
LEMMA PATInfo ==
    ASSUME NEW t, Layout(t, Nothing(Nat), Nothing(Names), {}, {}, {}), NEW ch, Scan(t, ch),
           NEW sids \in Seq(Nat), Len(sids) < MAX_INDEX_LIST_NUMBER
    PROVE  PATDone(SetInputPATInfo(t, 0, sids), ch, Len(sids))
<1>1. PICK v : v = UnusedProgs(t, Len(sids))
  OBVIOUS
<1>2. Shape(t) /\ Len(sids) \in Nat /\ Len(sids) <= MAX_INDEX_LIST_NUMBER
  BY TableAssumption DEF Layout
<1>3. GrowsProgs(t, v, Len(sids))
  BY <1>1, <1>2, NewProgs
<1>4. PICK P : P = Nothing(Nat)
  OBVIOUS
<1>5. PICK W : W = Nothing(Names)
  OBVIOUS
<1>6. Layout(v.t, P, W, {}, {}, {})
  BY <1>3, <1>4, <1>5, MoreProgs DEF GrowsProgs
<1>7. Scan(v.t, ch)
  BY <1>3 DEF Scan, GrowsProgs, Grows
<1>8. InTSProgIndexList(v.t, 0) = Found(<< >>)
  BY <1>4, <1>6, <1>7, NoProgsYet
<1>9. PICK new : new = v.list
  OBVIOUS
<1>10. Fresh(v.t.prog, new, Len(sids)) /\ new \in Seq(Nat) /\ Len(new) = Len(sids)
  BY <1>3, <1>9 DEF GrowsProgs, Fresh
<1>11. PICK r : r = SetInputPATInfo(t, 0, sids)
  OBVIOUS
<1>12. r = IF sids = << >> THEN Ok(v.t)
           ELSE Ok([v.t EXCEPT !.prog = LinkLast(PutProgs(@, 0, new, sids), << >>, new[1]), !.ts[0].prog = Longer(@, new)])
  <2>1. PICK l : l = InTSProgIndexList(v.t, 0)
    OBVIOUS
  <2>n. SetInputPATInfo(t, 0, sids) =
            IF UnusedProgs(t, Len(sids)).err = "SUCCESS"
            THEN IF InTSProgIndexList(UnusedProgs(t, Len(sids)).t, 0).err = "SUCCESS"
                 THEN IF sids = << >> THEN Ok(UnusedProgs(t, Len(sids)).t)
                      ELSE Ok([UnusedProgs(t, Len(sids)).t EXCEPT
                                !.prog = LinkLast(PutProgs(@, 0, UnusedProgs(t, Len(sids)).list, sids),
                                                  InTSProgIndexList(UnusedProgs(t, Len(sids)).t, 0).list,
                                                  UnusedProgs(t, Len(sids)).list[1]),
                                !.ts[0].prog = Longer(@, UnusedProgs(t, Len(sids)).list)])
                 ELSE Err(InTSProgIndexList(UnusedProgs(t, Len(sids)).t, 0).err, UnusedProgs(t, Len(sids)).t)
            ELSE Err(UnusedProgs(t, Len(sids)).err, UnusedProgs(t, Len(sids)).t)
    BY Zenon DEF SetInputPATInfo, Using, OnList
  <2>2. r = IF v.err = "SUCCESS"
            THEN IF l.err = "SUCCESS"
                 THEN IF sids = << >> THEN Ok(v.t)
                      ELSE Ok([v.t EXCEPT !.prog = LinkLast(PutProgs(@, 0, v.list, sids), l.list, v.list[1]),
                                          !.ts[0].prog = Longer(@, v.list)])
                 ELSE Err(l.err, v.t)
            ELSE Err(v.err, v.t)
    BY <1>1, <1>11, <2>1, <2>n
  <2>3. l.err = "SUCCESS" /\ l.list = << >>
    BY <1>8, <2>1 DEF Found
  <2>4. v.err = "SUCCESS"
    BY <1>3 DEF GrowsProgs
  <2> QED BY <1>9, <2>2, <2>3, <2>4
<1>13. CASE sids = << >>
  <2>1. r.t = v.t
    BY <1>12, <1>13 DEF Ok
  <2>2. Len(P[0]) = Len(sids)
    BY <1>4, <1>13 DEF Nothing
  <2>3. PATDone(r, ch, Len(sids))
    BY <1>5, <1>6, <1>7, <2>1, <2>2 DEF PATDone
  <2> QED BY <1>11, <2>3
<1>14. CASE sids # << >>
  <2>1. PICK u : u = v.t
    OBVIOUS
  <2>2. PICK g : g = PutProgs(u.prog, 0, new, sids)
    OBVIOUS
  <2>3. PICK w : w = [u EXCEPT !.prog = g, !.ts[0].prog = ListAt(new)]
    OBVIOUS
  <2>4. u.ts[0].prog.num = 0
    <3>1. Chain(u.prog, u.ts[0].prog, P[0])
      BY <1>6, <1>7, <2>1 DEF Layout, Linked, Scan
    <3>2. P[0] = << >>
      BY <1>4 DEF Nothing
    <3> QED BY <3>1, <3>2 DEF Chain
  <2>5. r = Ok(w)
    <3>1. r = Ok([u EXCEPT !.prog = LinkLast(PutProgs(@, 0, new, sids), << >>, new[1]), !.ts[0].prog = Longer(@, new)])
      BY <1>12, <1>14, <2>1
    <3>2. LinkLast(g, << >>, new[1]) = g /\ Longer(u.ts[0].prog, new) = ListAt(new)
      BY <2>4 DEF LinkLast, Longer
    <3>3. PICK A \in Nat, B \in Nat, C \in Nat : u \in Tables(A, B, C)
      BY <1>6, <2>1 DEF Layout, Shape
    <3>4. [u EXCEPT !.prog = LinkLast(PutProgs(@, 0, new, sids), << >>, new[1]), !.ts[0].prog = Longer(@, new)] = w
      BY <2>2, <2>3, <3>2, <3>3, Zenon DEF Tables
    <3> QED BY <3>1, <3>4
  <2>6. new # << >>
    BY <1>10, <1>14
  <2>7. Distinct(new) /\ \A k \in 1 .. Len(new) : new[k] \in DOMAIN u.prog
    BY <1>10, <2>1 DEF Fresh, Distinct
  <2>8. PutProgsAre(u.prog, g, 0, new)
    <3>1. 0 \in Nat
      OBVIOUS
    <3>2. PICK x : x = u.prog
      OBVIOUS
    <3>3. PutProgsAre(x, PutProgs(x, 0, new, sids), 0, new)
      BY <1>10, <2>7, <3>1, <3>2, PutProgsFacts, Zenon
    <3> QED BY <2>2, <3>2, <3>3
  <2>9. Layout(u, Nothing(Nat), Nothing(Names), {}, {}, {}) /\ Scan(u, ch)
    BY <1>4, <1>5, <1>6, <1>7, <2>1
  <2>10. Fresh(u.prog, new, Len(new)) /\ Len(new) < MAX_INDEX_LIST_NUMBER
    BY <1>10, <2>1
  <2>11. Layout(w, With(Nothing(Nat), 0, new), Nothing(Names), {}, {}, {}) /\ Scan(w, ch)
    BY <2>3, <2>6, <2>8, <2>9, <2>10, PutNewProgs, Zenon
  <2>12. Len(With(Nothing(Nat), 0, new)[0]) = Len(sids)
    <3>1. << >> \o new = new
      BY <1>10
    <3>2. With(Nothing(Nat), 0, new)[0] = << >> \o new
      BY DEF With, Nothing
    <3> QED BY <1>10, <3>1, <3>2
  <2>13. r.t = w
    BY <2>5 DEF Ok
  <2>14. PATDone(r, ch, Len(sids))
    BY <2>11, <2>12, <2>13 DEF PATDone
  <2> QED BY <1>11, <2>14
<1> QED BY <1>13, <1>14

\* n PIDs were added to a list of the stream.
TSListDone(r, ch, P, W, type, n) ==
    r.err = "SUCCESS" =>
        /\ Scan(r.t, ch)
        /\ \E V : /\ Layout(r.t, P, V, {}, {}, {}) /\ Len(V[<<type, 0>>]) = Len(W[<<type, 0>>]) + n
                  /\ \A m \in Names : m # <<type, 0>> => V[m] = W[m]

\* The step the two lists have in common.
LEMMA TSListStep ==
    ASSUME NEW u, NEW P, NEW W, Layout(u, P, W, {}, {}, {}), NEW ch, Scan(u, ch), NEW type \in TSType,
           NEW new, Fresh(u.pid, new, Len(new)), new # << >>, NEW pids \in Seq(Nat), Len(pids) = Len(new),
           Len(W[<<type, 0>>]) + Len(new) < MAX_INDEX_LIST_NUMBER,
           NEW l, l = IndexList(u.pid, HeadRec(u, <<type, 0>>)),
           NEW v, v = PutPIDs(u, type, 0, INDEX_INVALID_VALUE, INDEX_INVALID_VALUE, new, pids),
           NEW r, r = IF l.err = "SUCCESS"
                      THEN Ok(LinkedTS(v, 0, type, l.list, new, Longer(HeadRec(v, <<type, 0>>), new)))
                      ELSE Err(l.err, u)
    PROVE  TSListDone(r, ch, P, W, type, Len(new))
<1>1. CASE l.err # "SUCCESS"
  BY <1>1 DEF TSListDone, Err
<1>2. CASE l.err = "SUCCESS"
  <2>1. PICK n : n = <<type, 0>>
    OBVIOUS
  <2>2. n \in Names /\ n[1] = type /\ n[2] = 0 /\ type \in {"EMMPID", "OTHERPID"}
    BY <2>1 DEF Names, Types, TSType
  <2>3. 0 \in DOMAIN u.ts /\ u.ts[0].valid /\ Shape(u) /\ Owned(u, n)
    BY <2>2 DEF Scan, Layout, Owned
  <2>4. PICK old : old = W[n]
    OBVIOUS
  <2>5. /\ old \in Seq(Nat) /\ W \in [Names -> Seq(Nat)]
        /\ \A k \in 1 .. Len(old) : old[k] \in DOMAIN u.pid
    BY <2>2, <2>4, Zenon DEF Layout, Placed
  <2>6. Chain(u.pid, HeadRec(u, n), old)
    BY <2>2, <2>3, <2>4 DEF Layout, Linked, Strung
  <2>7. old \in Seq(DOMAIN u.pid)
    BY <2>5, SeqIn, Zenon
  <2>8. l.list = old
    <3>1. IndexList(u.pid, HeadRec(u, n)) = Found(old)
      <4>1. IndexList(u.pid, HeadRec(u, n)).err = "SUCCESS"
        BY <1>2, <2>1
      <4> QED BY <2>6, <2>7, <4>1, IndexListFinds
    <3> QED BY <2>1, <3>1 DEF Found
  <2>9. PICK h : h = Longer(HeadRec(v, n), new)
    OBVIOUS
  <2>10. PICK w : w = LinkedTS(v, 0, type, old, new, h)
    OBVIOUS
  <2>11. new \in Seq(Nat)
    BY DEF Fresh
  <2>12. Appended(v, w, 0, type, old, new) /\ v.ts = u.ts
    <3>1. PutPIDsDone(u, v, type, 0, INDEX_INVALID_VALUE, INDEX_INVALID_VALUE, new)
      <4>1. Distinct(new) /\ \A k \in 1 .. Len(new) : new[k] \in DOMAIN u.pid
        BY DEF Fresh, Distinct
      <4>2. type \in Types /\ 0 \in Nat /\ INDEX_INVALID_VALUE \in Nat
        BY <2>2 DEF Types, INDEX_INVALID_VALUE
      <4> QED BY <2>3, <2>11, <4>1, <4>2, PutPIDsAre, Zenon
    <3>2. DOMAIN v.pid = DOMAIN u.pid /\ v.ts = u.ts /\ Shape(v)
      BY <3>1 DEF PutPIDsDone, PutAt
    <3>3. v.ts[0] \in TSRec
      <4>1. u.ts[0] \in TSRec
        BY <2>3, ShapeFacts
      <4> QED BY <3>2, <4>1
    <3>4. h \in ListRec
      <4>1. PICK x : x = HeadRec(v, n)
        OBVIOUS
      <4>2. x \in ListRec
        BY <2>2, <3>3, <4>1 DEF HeadRec, TSRec
      <4>3. ListAt(new) \in ListRec
        BY <2>11 DEF ListAt, ListRec
      <4>4. [x EXCEPT !.num = @ + Len(new)] \in ListRec
        <5>1. PICK z \in Nat : z = Len(new)
          BY <2>11
        <5> QED BY <4>2, <5>1, SMTT(30) DEF ListRec
      <4> QED BY <2>9, <4>1, <4>2, <4>3, <4>4 DEF Longer
    <3>5. 0 \in DOMAIN v.ts /\ \A k \in 1 .. Len(old) : old[k] \in DOMAIN v.pid
      BY <2>3, <2>5, <3>2
    <3>6. IsLinkedTS(v, w, 0, type, old, new, h)
      BY <2>5, <2>10, <2>11, <3>2, <3>4, <3>5, LinkedTSShape, Zenon
    <3> QED BY <2>1, <2>9, <3>2, <3>6 DEF Appended, IsLinkedTS
  <2>13. Layout(w, P, With(W, <<type, 0>>, new), {}, {}, {})
    <3>1. Shape(v) => Appended(v, w, 0, type, W[<<type, 0>>], new)
      BY <2>1, <2>4, <2>12
    <3> QED BY <2>3, <3>1, PutTSPIDs
  <2>14. r.t = w
    <3>1. r = Ok(w)
      BY <1>2, <2>1, <2>8, <2>9, <2>10
    <3> QED BY <3>1 DEF Ok
  <2>15. Scan(w, ch)
    <3>1. PICK e : e = u.ts[0]
      OBVIOUS
    <3>2. e \in TSRec
      BY <2>3, <3>1, ShapeFacts
    <3>3. PICK f : f = SetTSList(e, type, Longer(HeadRec(v, <<type, 0>>), new))
      OBVIOUS
    <3>4. w.ts = [u.ts EXCEPT ![0] = f]
      BY <2>12, <3>1, <3>3 DEF Appended
    <3>5. f.valid = e.valid /\ f.channel = e.channel
      BY <3>2, <3>3 DEF SetTSList, TSRec
    <3> QED BY <3>1, <3>4, <3>5 DEF Scan
  <2>16. PICK V : V = With(W, n, new)
    OBVIOUS
  <2>17. V[n] = old \o new /\ \A m \in Names : m # n => V[m] = W[m]
    BY <2>2, <2>4, <2>5, <2>16 DEF With
  <2>18. Len(V[n]) = Len(W[n]) + Len(new)
    BY <2>4, <2>5, <2>11, <2>17
  <2> QED BY <2>1, <2>13, <2>14, <2>15, <2>16, <2>17, <2>18, Zenon DEF TSListDone
<1> QED BY <1>1, <1>2

\* The EMMs are joined as the code does it.
LEMMA Linkedemm ==
    ASSUME NEW v, Shape(v), 0 \in DOMAIN v.ts, NEW old, NEW new
    PROVE  [v EXCEPT !.pid = LinkLast(@, old, new[1]), !.ts[0].emm = Longer(@, new)]
             = LinkedTS(v, 0, "EMMPID", old, new, Longer(HeadRec(v, <<"EMMPID", 0>>), new))
<1>1. PICK A \in Nat, B \in Nat, C \in Nat : v \in Tables(A, B, C)
  BY DEF Shape
<1>2. HeadRec(v, <<"EMMPID", 0>>) = v.ts[0].emm
  BY DEF HeadRec
<1>3. PICK f : f = LinkLast(v.pid, old, new[1])
  OBVIOUS
<1>4. PICK h : h = Longer(v.ts[0].emm, new)
  OBVIOUS
<1>5. [v EXCEPT !.pid = LinkLast(@, old, new[1]), !.ts[0].emm = Longer(@, new)]
        = [v EXCEPT !.pid = f, !.ts[0].emm = h]
  BY <1>1, <1>3, <1>4 DEF Tables
<1>6. LinkedTS(v, 0, "EMMPID", old, new, h) = [v EXCEPT !.pid = f, !.ts[0] = [@ EXCEPT !.emm = h]]
  BY <1>1, <1>3 DEF LinkedTS, SetTSList, Tables
<1>7. [v EXCEPT !.pid = f, !.ts[0].emm = h] = [v EXCEPT !.pid = f, !.ts[0] = [@ EXCEPT !.emm = h]]
  BY <1>1 DEF Tables
<1> QED BY <1>2, <1>4, <1>5, <1>6, <1>7

\* SetInputCATInfo: the EMMs are put behind those that are there.
LEMMA CATStep ==
    ASSUME NEW t, NEW P, NEW W, Layout(t, P, W, {}, {}, {}), NEW ch, Scan(t, ch), NEW emms \in Seq(Nat), emms # << >>,
           Len(W[<<"EMMPID", 0>>]) + Len(emms) < MAX_INDEX_LIST_NUMBER
    PROVE  TSListDone(SetInputCATInfo(t, 0, emms), ch, P, W, "EMMPID", Len(emms))
<1>1. PICK v : v = UnusedPIDs(t, Len(emms))
  OBVIOUS
<1>2. Shape(t) /\ Len(emms) \in Nat \ {0} /\ Len(emms) <= MAX_INDEX_LIST_NUMBER
  <2>1. Shape(t) /\ W \in [Names -> Seq(Nat)]
    BY DEF Layout, Placed
  <2>2. <<"EMMPID", 0>> \in Names
    BY DEF Names, Types
  <2>3. Len(W[<<"EMMPID", 0>>]) \in Nat /\ MAX_INDEX_LIST_NUMBER \in Nat
    BY <2>1, <2>2, TableAssumption
  <2>4. Len(emms) \in Nat \ {0}
    OBVIOUS
  <2> QED BY <2>1, <2>3, <2>4
<1>3. GrowsPIDs(t, v, Len(emms))
  BY <1>1, <1>2, NewPIDs
<1>4. PICK u : u = v.t
  OBVIOUS
<1>5. PICK new : new = v.list
  OBVIOUS
<1>6. Layout(u, P, W, {}, {}, {})
  BY <1>3, <1>4, MorePIDs DEF GrowsPIDs
<1>7. Scan(u, ch)
  BY <1>3, <1>4 DEF Scan, GrowsPIDs, Grows
<1>8. Fresh(u.pid, new, Len(new)) /\ Len(new) = Len(emms) /\ new # << >>
  BY <1>2, <1>3, <1>4, <1>5, Zenon DEF GrowsPIDs, Fresh
<1>9. PICK l : l = InTSEMMPIDIndexList(u, 0)
  OBVIOUS
<1>10. l = IndexList(u.pid, HeadRec(u, <<"EMMPID", 0>>))
  BY <1>7, <1>9 DEF InTSEMMPIDIndexList, HeadRec, Scan
<1>11. PICK w : w = PutPIDs(u, "EMMPID", 0, INDEX_INVALID_VALUE, INDEX_INVALID_VALUE, new, emms)
  OBVIOUS
<1>12. PICK r : r = SetInputCATInfo(t, 0, emms)
  OBVIOUS
<1>13. r = IF l.err = "SUCCESS"
           THEN Ok([w EXCEPT !.pid = LinkLast(@, l.list, new[1]), !.ts[0].emm = Longer(@, new)])
           ELSE Err(l.err, u)
  <2>1. SetInputCATInfo(t, 0, emms) =
            IF UnusedPIDs(t, Len(emms)).err = "SUCCESS"
            THEN IF InTSEMMPIDIndexList(UnusedPIDs(t, Len(emms)).t, 0).err = "SUCCESS"
                 THEN Ok([PutPIDs(UnusedPIDs(t, Len(emms)).t, "EMMPID", 0, INDEX_INVALID_VALUE, INDEX_INVALID_VALUE,
                                  UnusedPIDs(t, Len(emms)).list, emms) EXCEPT
                            !.pid = LinkLast(@, InTSEMMPIDIndexList(UnusedPIDs(t, Len(emms)).t, 0).list, UnusedPIDs(t, Len(emms)).list[1]),
                            !.ts[0].emm = Longer(@, UnusedPIDs(t, Len(emms)).list)])
                 ELSE Err(InTSEMMPIDIndexList(UnusedPIDs(t, Len(emms)).t, 0).err, UnusedPIDs(t, Len(emms)).t)
            ELSE Err(UnusedPIDs(t, Len(emms)).err, UnusedPIDs(t, Len(emms)).t)
    BY Zenon DEF SetInputCATInfo, Using, OnList
  <2>2. v.err = "SUCCESS"
    BY <1>3 DEF GrowsPIDs
  <2> QED BY <1>1, <1>4, <1>5, <1>9, <1>11, <1>12, <2>1, <2>2
<1>14. Shape(w) /\ 0 \in DOMAIN w.ts
  <2>1. Distinct(new) /\ new \in Seq(Nat) /\ \A k \in 1 .. Len(new) : new[k] \in DOMAIN u.pid
    BY <1>8 DEF Fresh, Distinct
  <2>2. "EMMPID" \in Types /\ 0 \in Nat /\ INDEX_INVALID_VALUE \in Nat
    BY DEF Types, INDEX_INVALID_VALUE
  <2>3. Shape(u)
    BY <1>6 DEF Layout
  <2>p. emms \in Seq(Nat) /\ Len(emms) = Len(new)
    BY <1>8
  <2>4. PutPIDsDone(u, w, "EMMPID", 0, INDEX_INVALID_VALUE, INDEX_INVALID_VALUE, new)
    BY <1>11, <2>1, <2>2, <2>3, <2>p, PutPIDsAre, Zenon
  <2> QED BY <1>7, <2>4 DEF PutPIDsDone, PutAt, Scan
<1>15. r = IF l.err = "SUCCESS"
           THEN Ok(LinkedTS(w, 0, "EMMPID", l.list, new, Longer(HeadRec(w, <<"EMMPID", 0>>), new)))
           ELSE Err(l.err, u)
  <2>1. PICK old : old = l.list
    OBVIOUS
  <2>2. [w EXCEPT !.pid = LinkLast(@, old, new[1]), !.ts[0].emm = Longer(@, new)]
            = LinkedTS(w, 0, "EMMPID", old, new, Longer(HeadRec(w, <<"EMMPID", 0>>), new))
    BY <1>14, Linkedemm, Zenon
  <2> QED BY <1>13, <2>1, <2>2
<1>16. TSListDone(r, ch, P, W, "EMMPID", Len(new))
  <2>1. "EMMPID" \in TSType
    BY DEF TSType
  <2>2. emms \in Seq(Nat) /\ Len(emms) = Len(new)
    BY <1>8
  <2>3. Len(W[<<"EMMPID", 0>>]) + Len(new) < MAX_INDEX_LIST_NUMBER
    BY <1>8
  <2> QED BY <1>6, <1>7, <1>8, <1>10, <1>11, <1>15, <2>1, <2>2, <2>3, TSListStep, Zenon
<1> QED BY <1>8, <1>12, <1>16

\* The other PIDs are joined as the code does it.
LEMMA Linkedother ==
    ASSUME NEW v, Shape(v), 0 \in DOMAIN v.ts, NEW old, NEW new
    PROVE  [v EXCEPT !.pid = LinkLast(@, old, new[1]), !.ts[0].other = Longer(@, new)]
             = LinkedTS(v, 0, "OTHERPID", old, new, Longer(HeadRec(v, <<"OTHERPID", 0>>), new))
<1>1. PICK A \in Nat, B \in Nat, C \in Nat : v \in Tables(A, B, C)
  BY DEF Shape
<1>2. HeadRec(v, <<"OTHERPID", 0>>) = v.ts[0].other
  BY DEF HeadRec
<1>3. PICK f : f = LinkLast(v.pid, old, new[1])
  OBVIOUS
<1>4. PICK h : h = Longer(v.ts[0].other, new)
  OBVIOUS
<1>5. [v EXCEPT !.pid = LinkLast(@, old, new[1]), !.ts[0].other = Longer(@, new)]
        = [v EXCEPT !.pid = f, !.ts[0].other = h]
  BY <1>1, <1>3, <1>4 DEF Tables
<1>6. LinkedTS(v, 0, "OTHERPID", old, new, h) = [v EXCEPT !.pid = f, !.ts[0] = [@ EXCEPT !.other = h]]
  BY <1>1, <1>3 DEF LinkedTS, SetTSList, Tables
<1>7. [v EXCEPT !.pid = f, !.ts[0].other = h] = [v EXCEPT !.pid = f, !.ts[0] = [@ EXCEPT !.other = h]]
  BY <1>1 DEF Tables
<1> QED BY <1>2, <1>4, <1>5, <1>6, <1>7

\* SetInputOtherPIDInfo: one more is put behind those that are there.
LEMMA OtherStep ==
    ASSUME NEW t, NEW P, NEW W, Layout(t, P, W, {}, {}, {}), NEW ch, Scan(t, ch), NEW pid \in Nat,
           Len(W[<<"OTHERPID", 0>>]) + 1 < MAX_INDEX_LIST_NUMBER
    PROVE  TSListDone(SetInputOtherPIDInfo(t, 0, pid), ch, P, W, "OTHERPID", 1)
<1>1. PICK v : v = UnusedPIDs(t, 1)
  OBVIOUS
<1>2. Shape(t) /\ 1 \in Nat \ {0} /\ 1 <= MAX_INDEX_LIST_NUMBER
  <2>1. Shape(t) /\ W \in [Names -> Seq(Nat)]
    BY DEF Layout, Placed
  <2>2. <<"OTHERPID", 0>> \in Names
    BY DEF Names, Types
  <2>3. Len(W[<<"OTHERPID", 0>>]) \in Nat /\ MAX_INDEX_LIST_NUMBER \in Nat
    BY <2>1, <2>2, TableAssumption
  <2>4. 1 \in Nat \ {0}
    OBVIOUS
  <2> QED BY <2>1, <2>3, <2>4
<1>3. GrowsPIDs(t, v, 1)
  BY <1>1, <1>2, NewPIDs
<1>4. PICK u : u = v.t
  OBVIOUS
<1>5. PICK new : new = v.list
  OBVIOUS
<1>6. Layout(u, P, W, {}, {}, {})
  BY <1>3, <1>4, MorePIDs DEF GrowsPIDs
<1>7. Scan(u, ch)
  BY <1>3, <1>4 DEF Scan, GrowsPIDs, Grows
<1>8. Fresh(u.pid, new, Len(new)) /\ Len(new) = 1 /\ new # << >>
  BY <1>2, <1>3, <1>4, <1>5, Zenon DEF GrowsPIDs, Fresh
<1>9. PICK l : l = InTSOtherPIDIndexList(u, 0)
  OBVIOUS
<1>10. l = IndexList(u.pid, HeadRec(u, <<"OTHERPID", 0>>))
  BY <1>7, <1>9 DEF InTSOtherPIDIndexList, HeadRec, Scan
<1>11. PICK w : w = PutPIDs(u, "OTHERPID", 0, INDEX_INVALID_VALUE, INDEX_INVALID_VALUE, new, <<pid>>)
  OBVIOUS
<1>12. PICK r : r = SetInputOtherPIDInfo(t, 0, pid)
  OBVIOUS
<1>13. r = IF l.err = "SUCCESS"
           THEN Ok([w EXCEPT !.pid = LinkLast(@, l.list, new[1]), !.ts[0].other = Longer(@, new)])
           ELSE Err(l.err, u)
  <2>1. SetInputOtherPIDInfo(t, 0, pid) =
            IF UnusedPIDs(t, 1).err = "SUCCESS"
            THEN IF InTSOtherPIDIndexList(UnusedPIDs(t, 1).t, 0).err = "SUCCESS"
                 THEN Ok([PutPIDs(UnusedPIDs(t, 1).t, "OTHERPID", 0, INDEX_INVALID_VALUE, INDEX_INVALID_VALUE,
                                  UnusedPIDs(t, 1).list, <<pid>>) EXCEPT
                            !.pid = LinkLast(@, InTSOtherPIDIndexList(UnusedPIDs(t, 1).t, 0).list, UnusedPIDs(t, 1).list[1]),
                            !.ts[0].other = Longer(@, UnusedPIDs(t, 1).list)])
                 ELSE Err(InTSOtherPIDIndexList(UnusedPIDs(t, 1).t, 0).err, UnusedPIDs(t, 1).t)
            ELSE Err(UnusedPIDs(t, 1).err, UnusedPIDs(t, 1).t)
    BY Zenon DEF SetInputOtherPIDInfo, Using, OnList
  <2>2. v.err = "SUCCESS"
    BY <1>3 DEF GrowsPIDs
  <2> QED BY <1>1, <1>4, <1>5, <1>9, <1>11, <1>12, <2>1, <2>2
<1>14. Shape(w) /\ 0 \in DOMAIN w.ts
  <2>1. Distinct(new) /\ new \in Seq(Nat) /\ \A k \in 1 .. Len(new) : new[k] \in DOMAIN u.pid
    BY <1>8 DEF Fresh, Distinct
  <2>2. "OTHERPID" \in Types /\ 0 \in Nat /\ INDEX_INVALID_VALUE \in Nat
    BY DEF Types, INDEX_INVALID_VALUE
  <2>3. Shape(u)
    BY <1>6 DEF Layout
  <2>p. <<pid>> \in Seq(Nat) /\ Len(<<pid>>) = Len(new)
    BY <1>8
  <2>4. PutPIDsDone(u, w, "OTHERPID", 0, INDEX_INVALID_VALUE, INDEX_INVALID_VALUE, new)
    BY <1>11, <2>1, <2>2, <2>3, <2>p, PutPIDsAre, Zenon
  <2> QED BY <1>7, <2>4 DEF PutPIDsDone, PutAt, Scan
<1>15. r = IF l.err = "SUCCESS"
           THEN Ok(LinkedTS(w, 0, "OTHERPID", l.list, new, Longer(HeadRec(w, <<"OTHERPID", 0>>), new)))
           ELSE Err(l.err, u)
  <2>1. PICK old : old = l.list
    OBVIOUS
  <2>2. [w EXCEPT !.pid = LinkLast(@, old, new[1]), !.ts[0].other = Longer(@, new)]
            = LinkedTS(w, 0, "OTHERPID", old, new, Longer(HeadRec(w, <<"OTHERPID", 0>>), new))
    BY <1>14, Linkedother, Zenon
  <2> QED BY <1>13, <2>1, <2>2
<1>16. TSListDone(r, ch, P, W, "OTHERPID", Len(new))
  <2>1. "OTHERPID" \in TSType
    BY DEF TSType
  <2>2. <<pid>> \in Seq(Nat) /\ Len(<<pid>>) = Len(new)
    BY <1>8
  <2>3. Len(W[<<"OTHERPID", 0>>]) + Len(new) < MAX_INDEX_LIST_NUMBER
    BY <1>8
  <2> QED BY <1>6, <1>7, <1>8, <1>10, <1>11, <1>15, <2>1, <2>2, <2>3, TSListStep, Zenon
<1> QED BY <1>8, <1>12, <1>16

\* The offsets of a PMT.
Offsets(m, off) ==
    /\ off[0] = HasPCR(m)
    /\ \A k \in 1 .. Len(m.es) : off[k - 1] \in Nat /\ off[k] = off[k - 1] + 1 + Len(m.es[k].ecm)
    /\ \A k \in 0 .. Len(m.es) : off[k] \in Nat /\ off[k] <= off[Len(m.es)]

\* Where the indices of each stream of a program begin.
LEMMA OffsetFacts ==
    ASSUME NEW m \in AirProg
    PROVE  Offsets(m, Offset(m))
<1> DEFINE n == Len(m.es)
           Fit(g, b) == g = [k \in 0 .. b |-> IF k = 0 THEN HasPCR(m) ELSE g[k - 1] + 1 + Len(m.es[k].ecm)]
           G == {b \in 0 .. n : \E g : Fit(g, b)}
<1>0. n \in Nat /\ m.es \in Seq(AirStream)
  BY DEF AirProg
<1>1. 0 \in G
  <2> DEFINE z == [k \in 0 .. 0 |-> HasPCR(m)]
  <2>1. Fit(z, 0)
    OBVIOUS
  <2>2. 0 \in 0 .. n
    BY <1>0
  <2> HIDE DEF z, Fit, n
  <2> QED BY <2>1, <2>2
<1>2. ASSUME NEW b \in 1 .. n, b - 1 \in G PROVE b \in G
  <2>1. PICK g : Fit(g, b - 1)
    BY <1>2
  <2> DEFINE h == [k \in 0 .. b |-> IF k = 0 THEN HasPCR(m) ELSE g[k - 1] + 1 + Len(m.es[k].ecm)]
  <2>2. \A k \in 0 .. b - 1 : h[k] = g[k]
    BY <2>1
  <2>3. Fit(h, b)
    <3>1. \A k \in 0 .. b : k # 0 => k - 1 \in 0 .. b - 1
      OBVIOUS
    <3> QED BY <2>2, <3>1, ZenonT(30)
  <2>4. b \in 0 .. n
    BY <1>0
  <2> HIDE DEF h, n, Fit
  <2> QED BY <2>3, <2>4
<1>3. n \in G
  <2> HIDE DEF G
  <2>1. G \in SUBSET (0 .. n)
    BY DEF G
  <2> HIDE DEF n
  <2>2. \A b \in 1 .. n : b - 1 \in G => b \in G
    BY <1>2
  <2>3. \A b \in 0 .. n : b \in G
    BY <1>0, <1>1, <2>1, <2>2, Upwards, Zenon
  <2> QED BY <1>0, <2>3
<1> DEFINE off == CHOOSE off : Fit(off, n)
<1>4. Fit(off, n)
  <2> HIDE DEF Fit
  <2> QED BY <1>3
<1>5. Offset(m) = off
  BY Zenon DEF Offset
<1> HIDE DEF off
<1>6. off[0] = HasPCR(m) /\ \A k \in 1 .. n : off[k] = off[k - 1] + 1 + Len(m.es[k].ecm)
  <2> HIDE DEF n
  <2>1. 0 \in 0 .. n /\ \A k \in 1 .. n : k \in 0 .. n /\ k # 0
    BY <1>0
  <2>2. \A k \in 0 .. n : off[k] = IF k = 0 THEN HasPCR(m) ELSE off[k - 1] + 1 + Len(m.es[k].ecm)
    BY <1>4, Zenon
  <2> QED BY <2>1, <2>2
<1>7. \A k \in 1 .. n : Len(m.es[k].ecm) \in Nat
  BY <1>0 DEF AirStream
<1> HIDE DEF n
<1>8. \A k \in 0 .. n : off[k] \in Nat
  <2> DEFINE H == {k \in 0 .. n : off[k] \in Nat}
  <2>1. 0 \in H
    BY <1>0, <1>6 DEF HasPCR
  <2>2. ASSUME NEW k \in 1 .. n, k - 1 \in H PROVE k \in H
    <3>1. off[k - 1] \in Nat /\ k \in 0 .. n
      BY <1>0, <2>2
    <3>2. off[k] = off[k - 1] + 1 + Len(m.es[k].ecm) /\ Len(m.es[k].ecm) \in Nat
      BY <1>6, <1>7
    <3>3. off[k] \in Nat
      BY <3>1, <3>2
    <3> QED BY <3>1, <3>3
  <2>3. H \in SUBSET (0 .. n)
    OBVIOUS
  <2> HIDE DEF H
  <2>4. \A k \in 0 .. n : k \in H
    BY <1>0, <2>1, <2>2, <2>3, Upwards, Zenon
  <2> QED BY <2>4 DEF H
<1>9. \A k \in 0 .. n : off[k] <= off[n]
  <2> DEFINE H == {k \in 0 .. n : off[n - k] <= off[n]}
  <2>1. 0 \in H
    BY <1>0, <1>8
  <2>2. ASSUME NEW k \in 1 .. n, k - 1 \in H PROVE k \in H
    <3>1. n - k + 1 \in 1 .. n /\ n - k \in 0 .. n /\ n - (k - 1) = n - k + 1 /\ (n - k + 1) - 1 = n - k /\ n \in 0 .. n
      BY <1>0
    <3>2. PICK x : x = n - k
      OBVIOUS
    <3>3. off[x + 1] = off[x] + 1 + Len(m.es[x + 1].ecm) /\ Len(m.es[x + 1].ecm) \in Nat
      BY <1>6, <1>7, <3>1, <3>2, Zenon
    <3>4. off[x] \in Nat /\ off[x + 1] \in Nat /\ off[n] \in Nat
      BY <1>8, <3>1, <3>2
    <3>5. off[x + 1] <= off[n]
      BY <2>2, <3>1, <3>2
    <3>6. off[x] <= off[n]
      BY <3>3, <3>4, <3>5, SMTT(30)
    <3> QED BY <3>2, <3>6, <1>0
  <2>3. H \in SUBSET (0 .. n)
    OBVIOUS
  <2> HIDE DEF H
  <2>4. \A k \in 1 .. n : k - 1 \in H => k \in H
    BY <2>2
  <2>5. \A k \in 0 .. n : k \in H
    BY <1>0, <2>1, <2>3, <2>4, Upwards, Zenon
  <2>6. ASSUME NEW k \in 0 .. n PROVE off[k] <= off[n]
    <3>1. n - k \in 0 .. n /\ n - (n - k) = k
      BY <1>0
    <3>2. n - k \in H
      BY <2>5, <3>1
    <3>3. off[n - (n - k)] <= off[n]
      BY <3>2 DEF H
    <3> QED BY <3>1, <3>3
  <2> QED BY <2>6
<1>10. \A k \in 1 .. n : k - 1 \in 0 .. n
  BY <1>0
<1>11. Offsets(m, off)
  BY <1>6, <1>8, <1>9, <1>10 DEF Offsets, n
<1> QED BY <1>5, <1>11

\* One entry is replaced.
LEMMA OneIs ==
    ASSUME NEW t, Shape(t), NEW j \in DOMAIN t.pid, NEW e \in PIDRec, NEW u, u = [t EXCEPT !.pid[j] = e]
    PROVE  PutAt(t, u, <<j>>) /\ u.pid[j] = e
<1>1. PICK f : f = [t.pid EXCEPT ![j] = e]
  BY Zenon
<1>2. f = [x \in DOMAIN t.pid |-> f[x]] /\ f[j] = e /\ \A x \in DOMAIN t.pid : x # j => f[x] = t.pid[x]
  BY <1>1
<1>3. \A x \in DOMAIN t.pid : f[x] \in PIDRec
  <2>1. \A x \in DOMAIN t.pid : t.pid[x] \in PIDRec
    BY ShapeFacts
  <2> QED BY <1>2, <2>1
<1>4. PICK v : v = [t EXCEPT !.pid = f]
  BY Zenon
<1>5. Shape(v) /\ v.ts = t.ts /\ v.prog = t.prog /\ v.pid = f
  BY <1>2, <1>3, <1>4, SetPIDs
<1>6. u = v
  BY <1>1, <1>4
<1>7. \A x : (\A k \in 1 .. Len(<<j>>) : <<j>>[k] # x) => x # j
  OBVIOUS
<1> QED BY <1>2, <1>5, <1>6, <1>7 DEF PutAt

\* A sequence of one.
LEMMA OneSeq == ASSUME NEW j \in Nat PROVE <<j>> \in Seq(Nat) /\ Distinct(<<j>>) /\ Len(<<j>>) = 1 /\ <<j>>[1] = j
BY DEF Distinct

\* The PID j becomes the one of a list.
LEMMA PutOne ==
    ASSUME NEW t, NEW P, NEW W, NEW OP, NEW OW, NEW R, Layout(t, P, W, OP, OW, R),
           NEW n \in Names, Owned(t, n), NEW j \in DOMAIN t.pid, t.pid[j].type = "UNKNOWN",
           NEW u, PutAt(t, u, <<j>>), u.pid[j].type = n[1], u.pid[j].valid, PointsBack(u, n, j),
           Len(W[n]) + 1 < MAX_INDEX_LIST_NUMBER,
           NEW NW, OW \subseteq NW, n \in NW, n[1] = "ESPID" => <<"ES_ECMPID", j>> \in NW
    PROVE  Layout(u, P, With(W, n, <<j>>), OP, NW, Minus(R, <<j>>))
<1>1. j \in Nat /\ Known(t, R)
  BY ShapeFacts DEF Layout
<1>2. <<j>> \in Seq(Nat) /\ Distinct(<<j>>) /\ Len(<<j>>) = 1 /\ <<j>>[1] = j
  BY <1>1, OneSeq
<1>3. PICK s : s = <<j>>
  OBVIOUS
<1>4. s \in Seq(Nat) /\ Distinct(s) /\ Len(s) = 1 /\ s[1] = j /\ \A k \in 1 .. Len(s) : s[k] = j
  BY <1>2, <1>3
<1>5. RunPut(t, u, n, s)
  BY <1>3, <1>4 DEF RunPut, PutAt
<1>6. n[1] # "UNKNOWN"
  BY NameFacts
<1>7. Known(u, Minus(R, s))
  <2>1. \A k \in 1 .. Len(s) : u.pid[s[k]].valid /\ u.pid[s[k]].type # "UNKNOWN"
    BY <1>4, <1>6
  <2>2. PutAt(t, u, s)
    BY <1>3
  <2> QED BY <1>1, <2>1, <2>2, KnownPut
<1>8. n[1] = "ESPID" => \A k \in 1 .. Len(s) : <<"ES_ECMPID", s[k]>> \in NW
  BY <1>4
<1>9. Len(W[n]) + Len(s) < MAX_INDEX_LIST_NUMBER
  BY <1>4
<1>10. Layout(u, P, With(W, n, s), OP, NW, Minus(R, s))
  BY <1>5, <1>7, <1>8, <1>9, PutRun
<1> QED BY <1>3, <1>10

\* The list of ECMs of a PID without type is empty.
LEMMA NoECMs ==
    ASSUME NEW t, NEW P, NEW W, NEW OP, NEW OW, NEW R, Layout(t, P, W, OP, OW, R),
           NEW j \in DOMAIN t.pid, t.pid[j].type # "ESPID"
    PROVE  <<"ES_ECMPID", j>> \in Names /\ W[<<"ES_ECMPID", j>>] = << >>
<1>1. PICK c : c = <<"ES_ECMPID", j>>
  BY Zenon
<1>2. j \in Nat
  BY ShapeFacts DEF Layout
<1>3. c \in Names /\ c[1] = "ES_ECMPID" /\ c[2] = j
  BY <1>1, <1>2 DEF Names, Types
<1>4. ~Owned(t, c)
  BY <1>3 DEF Owned
<1> QED BY <1>1, <1>3, <1>4 DEF Layout, Placed

\* The elementary stream j of program p is in its list with its ECMs.
StreamPut(t, u, P, W, OP, OW, R, p, j, ecm, nx) ==
    /\ Layout(u, P, With(With(W, <<"ESPID", p>>, <<j>>), <<"ES_ECMPID", j>>, ecm), OP, OW, R)
    /\ W[<<"ES_ECMPID", j>>] = << >>
    /\ u.ts = t.ts /\ u.prog = t.prog /\ DOMAIN u.pid = DOMAIN t.pid
    /\ \A x \in DOMAIN t.pid : x # j /\ (\A k \in 1 .. Len(ecm) : ecm[k] # x) => u.pid[x] = t.pid[x]
    /\ u.pid[j].next = nx

\* A stream and its ECMs are put into the tables, the stream behind those before it.
LEMMA PutStreamDone ==
    ASSUME NEW t, NEW P, NEW W, NEW OW, Layout(t, P, W, {}, OW, {}),
           NEW p \in DOMAIN t.prog, t.prog[p].valid, <<"ESPID", p>> \in OW,
           NEW j \in DOMAIN t.pid, ~t.pid[j].valid,
           NEW ecm \in Seq(Nat), Distinct(ecm),
           \A k \in 1 .. Len(ecm) : ecm[k] \in DOMAIN t.pid /\ ~t.pid[ecm[k]].valid /\ ecm[k] # j,
           Len(W[<<"ESPID", p>>]) + 1 < MAX_INDEX_LIST_NUMBER, Len(ecm) < MAX_INDEX_LIST_NUMBER,
           NEW pid \in Nat, NEW nx \in Nat, NEW pids \in Seq(Nat), Len(pids) = Len(ecm),
           NEW e, e = [InitInputPID("ESPID", t.prog[p].ts, p, INDEX_INVALID_VALUE, pid)
                           EXCEPT !.next = nx, !.esecm = ListAt(ecm)],
           NEW t1, t1 = [t EXCEPT !.pid[j] = e],
           NEW u, u = PutPIDs(t1, "ES_ECMPID", t.prog[p].ts, p, j, ecm, pids)
    PROVE  StreamPut(t, u, P, W, {}, OW, {}, p, j, ecm, nx)
<1>1. Shape(t) /\ Known(t, {}) /\ W \in [Names -> Seq(Nat)]
  BY DEF Layout, Placed
<1>2. j \in Nat /\ p \in Nat /\ t.prog[p] \in ProgRec /\ t.pid[j].type = "UNKNOWN"
  BY <1>1, ShapeFacts DEF Known
<1>3. PICK i \in Nat : i = t.prog[p].ts
  BY <1>2, Zenon DEF ProgRec
<1>4. PICK n : n = <<"ESPID", p>>
  OBVIOUS
<1>5. PICK c : c = <<"ES_ECMPID", j>>
  BY Zenon
<1>6. n \in Names /\ n[1] = "ESPID" /\ n[2] = p /\ Owned(t, n) /\ n \in OW
  BY <1>2, <1>4 DEF Names, Types, Owned
<1>7. c \in Names /\ c[1] = "ES_ECMPID" /\ c[2] = j /\ W[c] = << >> /\ c # n
  <2>1. t.pid[j].type # "ESPID"
    BY <1>2
  <2>2. c \in Names /\ W[c] = << >>
    BY <1>5, <2>1, NoECMs
  <2> QED BY <1>4, <1>5, <2>2
<1>8. e \in PIDRec /\ e.valid /\ e.type = "ESPID" /\ e.ts = i /\ e.prog = p /\ e.next = nx /\ e.esecm = ListAt(ecm)
  <2>1. ListAt(ecm) \in ListRec /\ NoList \in ListRec /\ INDEX_INVALID_VALUE \in Nat
    BY DEF ListAt, NoList, ListRec, INDEX_INVALID_VALUE
  <2>2. PICK l \in ListRec : l = ListAt(ecm)
    BY <2>1
  <2>3. PICK x : x = InitInputPID("ESPID", i, p, INDEX_INVALID_VALUE, pid)
    OBVIOUS
  <2>4. x \in PIDRec /\ x.valid /\ x.type = "ESPID" /\ x.ts = i /\ x.prog = p
    BY <1>2, <2>1, <2>3 DEF InitInputPID, PIDRec, Types
  <2>5. e = [x EXCEPT !.next = nx, !.esecm = l]
    BY <1>3, <2>2, <2>3
  <2>6. /\ e \in PIDRec /\ e.valid = x.valid /\ e.type = x.type /\ e.ts = x.ts /\ e.prog = x.prog /\ e.next = nx
        /\ e.esecm = l
    BY <2>4, <2>5, Zenon DEF PIDRec
  <2> QED BY <2>2, <2>4, <2>6, Zenon
<1>9. PutAt(t, t1, <<j>>) /\ t1.pid[j] = e
  BY <1>1, <1>8, OneIs
<1>10. t1.ts = t.ts /\ t1.prog = t.prog /\ Shape(t1) /\ DOMAIN t1.pid = DOMAIN t.pid
  BY <1>9 DEF PutAt
<1>m. \A x \in DOMAIN t.pid : x # j => t1.pid[x] = t.pid[x]
  <2>1. \A x : x # j => \A k \in 1 .. Len(<<j>>) : <<j>>[k] # x
    OBVIOUS
  <2> QED BY <1>9, <2>1 DEF PutAt
<1>11. PICK W1 : W1 = With(W, n, <<j>>)
  OBVIOUS
<1>12. PICK OC : OC = OW \cup {c}
  BY Zenon
<1>13. Layout(t1, P, W1, {}, OC, {})
  <2>1. PointsBack(t1, n, j)
    BY <1>3, <1>6, <1>8, <1>9, <1>10 DEF PointsBack
  <2>2. OW \subseteq OC /\ n \in OC /\ <<"ES_ECMPID", j>> \in OC
    BY <1>5, <1>6, <1>12
  <2>3. t1.pid[j].type = n[1] /\ t1.pid[j].valid
    BY <1>6, <1>8, <1>9
  <2>4. Len(W[n]) + 1 < MAX_INDEX_LIST_NUMBER
    BY <1>4
  <2>5. Layout(t1, P, With(W, n, <<j>>), {}, OC, Minus({}, <<j>>))
    BY <1>2, <1>6, <1>9, <2>1, <2>2, <2>3, <2>4, PutOne, Zenon
  <2>6. Minus({}, <<j>>) = {}
    BY DEF Minus
  <2> QED BY <1>11, <2>5, <2>6, Zenon
<1>14. W1[c] = << >>
  BY <1>1, <1>6, <1>7, <1>11 DEF With
<1>15. PutPIDsDone(t1, u, "ES_ECMPID", i, p, j, ecm)
  <2>1. "ES_ECMPID" \in Types
    BY DEF Types
  <2>2. \A k \in 1 .. Len(ecm) : ecm[k] \in DOMAIN t1.pid
    BY <1>10, Zenon
  <2> QED BY <1>2, <1>3, <1>10, <2>1, <2>2, PutPIDsAre, Zenon
<1>16. PutAt(t1, u, ecm)
  BY <1>15 DEF PutPIDsDone
<1>17. \A k \in 1 .. Len(ecm) : LET x == u.pid[ecm[k]] IN x.valid /\ x.type = "ES_ECMPID" /\ x.ts = i /\ x.prog = p /\ x.next = After(ecm, k)
  BY <1>15, Zenon DEF PutPIDsDone, NewEntry
<1>18. u.ts = t.ts /\ u.prog = t.prog /\ DOMAIN u.pid = DOMAIN t.pid /\ u.pid[j] = e
  <2>1. \A k \in 1 .. Len(ecm) : ecm[k] # j
    OBVIOUS
  <2>2. u.pid[j] = t1.pid[j]
    BY <1>10, <1>16, <2>1, Zenon DEF PutAt
  <2> QED BY <1>9, <1>10, <1>16, <2>2 DEF PutAt
<1>19. RunPut(t1, u, c, ecm)
  <2>1. ASSUME NEW k \in 1 .. Len(ecm)
        PROVE  /\ ecm[k] \in DOMAIN t1.pid /\ t1.pid[ecm[k]].type = "UNKNOWN"
               /\ u.pid[ecm[k]].type = c[1] /\ PointsBack(u, c, ecm[k])
    <3>1. t.pid[ecm[k]].type = "UNKNOWN" /\ t1.pid[ecm[k]] = t.pid[ecm[k]]
      BY <1>1, <1>m, Zenon DEF Known
    <3>2. PointsBack(u, c, ecm[k])
      <4>1. u.pid[c[2]].prog = p /\ u.prog[p].ts = i /\ c[1] = "ES_ECMPID"
        BY <1>3, <1>7, <1>8, <1>18, Zenon
      <4>2. u.pid[ecm[k]].prog = p /\ u.pid[ecm[k]].ts = i
        BY <1>17, Zenon
      <4> QED BY <4>1, <4>2, Zenon DEF PointsBack
    <3> QED BY <1>7, <1>10, <1>17, <3>1, <3>2, Zenon
  <2> QED BY <1>16, <2>1, Zenon DEF RunPut, PutAt
<1>20. Layout(u, P, With(W1, c, ecm), {}, OC, {})
  <2>1. Owned(t1, c)
    BY <1>7, <1>8, <1>9, <1>10 DEF Owned
  <2>2. Known(u, {})
    <3>1. Known(t1, {})
      BY <1>13 DEF Layout
    <3>2. \A k \in 1 .. Len(ecm) : u.pid[ecm[k]].valid /\ u.pid[ecm[k]].type # "UNKNOWN"
      BY <1>17, Zenon
    <3>3. Known(u, Minus({}, ecm))
      BY <1>16, <3>1, <3>2, KnownPut, Zenon
    <3>4. Minus({}, ecm) = {}
      BY DEF Minus
    <3> QED BY <3>3, <3>4, Zenon
  <2>3. OC \subseteq OC /\ c \in OC /\ c[1] # "ESPID"
    BY <1>7, <1>12
  <2>4. Len(W1[c]) + Len(ecm) < MAX_INDEX_LIST_NUMBER
    <3>1. Len(W1[c]) = 0
      BY <1>14
    <3>2. 0 + Len(ecm) = Len(ecm)
      OBVIOUS
    <3> QED BY <3>1, <3>2
  <2> QED BY <1>7, <1>13, <1>19, <2>1, <2>2, <2>3, <2>4, PutRun
<1>21. Strung(u, c, With(W1, c, ecm)[c])
  <2>1. With(W1, c, ecm)[c] = ecm
    <3>1. W1 \in [Names -> Seq(Nat)]
      BY <1>13 DEF Layout, Placed
    <3>2. With(W1, c, ecm)[c] = W1[c] \o ecm
      BY <1>7, <3>1 DEF With
    <3>3. << >> \o ecm = ecm
      OBVIOUS
    <3> QED BY <1>14, <3>2, <3>3
  <2>2. HeadRec(u, c) = ListAt(ecm)
    BY <1>7, <1>8, <1>18, Zenon DEF HeadRec
  <2>3. Chain(u.pid, ListAt(ecm), ecm)
    BY <1>17, Zenon DEF Chain, ListAt
  <2> QED BY <1>7, <2>1, <2>2, <2>3 DEF Strung
<1>22. Layout(u, P, With(W1, c, ecm), {}, OW, {})
  <2>1. \A m \in Names : Owned(u, m) /\ m \in OC \ OW => Strung(u, m, With(W1, c, ecm)[m])
    BY <1>12, <1>21
  <2>2. \A x \in DOMAIN u.ts : u.ts[x].valid /\ x \in {} \ {} => Chain(u.prog, u.ts[x].prog, P[x])
    OBVIOUS
  <2>3. PICK V : V = With(W1, c, ecm)
    OBVIOUS
  <2>4. Layout(u, P, V, {}, OW, {})
    BY <1>20, <2>1, <2>2, <2>3, Close, Zenon
  <2> QED BY <2>3, <2>4
<1>23. \A x \in DOMAIN t.pid : x # j /\ (\A k \in 1 .. Len(ecm) : ecm[k] # x) => u.pid[x] = t.pid[x]
  BY <1>10, <1>16, <1>m DEF PutAt
<1> QED BY <1>4, <1>5, <1>7, <1>8, <1>11, <1>18, <1>22, <1>23, Zenon DEF StreamPut

PutStreams(g, t, seq, p, mx, new, off, es) ==
    /\ g[0] = Ok(t)
    /\ \A k \in 1 .. Len(seq) :
        g[k] = IF g[k - 1].err = "SUCCESS" THEN Ok(PutStream(g[k - 1].t, p, mx, new, off, es, seq[k])) ELSE g[k - 1]

PutStreamsLoop(t, seq, p, mx, new, off, es) == ForEach(t, seq, LAMBDA u, k : Ok(PutStream(u, p, mx, new, off, es, k)))

\* The streams of a program in turn.
LEMMA PutStreamsDef ==
    ASSUME NEW t, NEW seq, Len(seq) \in Nat, NEW p, NEW mx, NEW new, NEW off, NEW es
    PROVE  \E g : /\ PutStreams(g, t, seq, p, mx, new, off, es)
                  /\ PutStreamsLoop(t, seq, p, mx, new, off, es) = g[Len(seq)]
<1> DEFINE n == Len(seq)
           Fit(g, m) == g = [k \in 0 .. m |->
               IF k = 0 THEN Ok(t)
               ELSE IF g[k - 1].err = "SUCCESS" THEN Ok(PutStream(g[k - 1].t, p, mx, new, off, es, seq[k])) ELSE g[k - 1]]
           G == {m \in 0 .. n : \E g : Fit(g, m)}
<1>0. n \in Nat
  OBVIOUS
<1>1. 0 \in G
  <2> DEFINE z == [k \in 0 .. 0 |-> Ok(t)]
  <2>1. Fit(z, 0)
    OBVIOUS
  <2> HIDE DEF z, Fit
  <2> QED BY <2>1
<1>2. ASSUME NEW m \in 1 .. n, m - 1 \in G PROVE m \in G
  <2>1. PICK g : Fit(g, m - 1)
    BY <1>2
  <2> DEFINE h == [k \in 0 .. m |->
               IF k = 0 THEN Ok(t)
               ELSE IF g[k - 1].err = "SUCCESS" THEN Ok(PutStream(g[k - 1].t, p, mx, new, off, es, seq[k])) ELSE g[k - 1]]
  <2>2. \A k \in 0 .. m - 1 : h[k] = g[k]
    BY <2>1
  <2>3. Fit(h, m)
    <3>1. \A k \in 0 .. m : k # 0 => k - 1 \in 0 .. m - 1
      OBVIOUS
    <3> QED BY <2>2, <3>1, ZenonT(30)
  <2> HIDE DEF h
  <2> QED BY <2>3
<1>3. n \in G
  <2> HIDE DEF G
  <2>1. G \in SUBSET (0 .. n)
    BY DEF G
  <2> HIDE DEF n
  <2>2. \A m \in 1 .. n : m - 1 \in G => m \in G
    BY <1>2
  <2>3. \A m \in 0 .. n : m \in G
    BY <1>0, <1>1, <2>1, <2>2, Upwards, Zenon
  <2> QED BY <1>0, <2>3
<1> DEFINE after == CHOOSE after : Fit(after, n)
<1>4. Fit(after, n)
  <2> HIDE DEF Fit
  <2> QED BY <1>3
<1>5. PutStreamsLoop(t, seq, p, mx, new, off, es) = after[n]
  BY Zenon DEF PutStreamsLoop, ForEach, Then
<1> HIDE DEF after
<1>6. PutStreams(after, t, seq, p, mx, new, off, es)
  BY <1>4 DEF PutStreams
<1> QED BY <1>5, <1>6

\* The positions of a sequence.
LEMMA NumbersFacts ==
    ASSUME NEW S, NEW s \in Seq(S)
    PROVE  Len(Numbers(s)) = Len(s) /\ \A k \in 1 .. Len(s) : Numbers(s)[k] = k
<1>1. DOMAIN s = 1 .. Len(s) /\ Len(s) \in Nat
  OBVIOUS
<1>2. Numbers(s) = [k \in 1 .. Len(s) |-> k]
  BY <1>1 DEF Numbers
<1> QED BY <1>1, <1>2

\* s is what new has from a to b.
Slice(s, new, a, b) ==
    /\ s \in Seq(Nat) /\ Len(s) = b - a + 1 /\ Distinct(s)
    /\ \A k \in 1 .. Len(s) : a + k - 1 \in a .. b /\ a + k - 1 \in 1 .. Len(new) /\ s[k] = new[a + k - 1]

\* A part of a sequence of different indices.
LEMMA SliceFacts ==
    ASSUME NEW new \in Seq(Nat), Distinct(new), NEW a \in Nat \ {0}, NEW b \in Nat, a <= b + 1, b <= Len(new)
    PROVE  Slice(SubSeq(new, a, b), new, a, b)
<1>1. PICK s : s = SubSeq(new, a, b)
  BY Zenon
<1>2. Len(new) \in Nat /\ \A i \in a .. b : new[i] \in Nat
  OBVIOUS
<1>3. /\ s \in Seq(Nat) /\ Len(s) = (IF a <= b THEN b - a + 1 ELSE 0)
      /\ \A i \in 1 .. b - a + 1 : s[i] = new[a + i - 1]
  BY <1>1, <1>2, SubSeqProperties
<1>4. Len(s) = b - a + 1
  BY <1>3
<1>5. \A k \in 1 .. Len(s) : a + k - 1 \in a .. b /\ a + k - 1 \in 1 .. Len(new) /\ s[k] = new[a + k - 1]
  BY <1>2, <1>3, <1>4
<1>6. Distinct(s)
  <2>1. ASSUME NEW k \in 1 .. Len(s), NEW l \in 1 .. Len(s), s[k] = s[l] PROVE k = l
    <3>1. new[a + k - 1] = new[a + l - 1]
      BY <1>5, <2>1
    <3>2. a + k - 1 = a + l - 1
      BY <1>5, <3>1, Zenon DEF Distinct
    <3> QED BY <3>2, <1>4
  <2> QED BY <2>1 DEF Distinct
<1>7. Slice(s, new, a, b)
  BY <1>3, <1>4, <1>5, <1>6 DEF Slice
<1> QED BY <1>1, <1>7

\* The lists of PIDs of program p.
Open(p) == {"PCRPID", "ESPID", "PS_ECMPID"} \X {p}

\* The first k streams of the program mx are in place.
PMTAt(t, u, P, W, V, p, new, off, es, k) ==
    /\ Layout(u, P, V, {}, Open(p), {}) /\ u.ts = t.ts /\ u.prog = t.prog /\ DOMAIN u.pid = DOMAIN t.pid
    /\ Len(V[<<"ESPID", p>>]) = k
    /\ \A x \in 1 .. k : V[<<"ESPID", p>>][x] = es[x] /\ u.pid[es[x]].next = After(es, x)
    /\ \A n \in Names : n # <<"ESPID", p>> /\ n[1] # "ES_ECMPID" => V[n] = W[n]
    /\ \A x \in 1 .. Len(new) : x > off[k] => ~u.pid[new[x]].valid

\* What PutPMT is called with.
PMTFor(t, p, mx, new, off, es) ==
    /\ p \in DOMAIN t.prog /\ t.prog[p].valid /\ mx \in AirProg /\ Offsets(mx, off)
    /\ new \in Seq(Nat) /\ Distinct(new) /\ \A k \in 1 .. Len(new) : new[k] \in DOMAIN t.pid
    /\ Len(new) = off[Len(mx.es)] + Len(mx.cas)
    /\ es \in Seq(Nat) /\ Len(es) = Len(mx.es) /\ \A k \in 1 .. Len(es) : es[k] = new[off[k - 1] + 1]
    /\ 1 + Len(mx.es) + Len(mx.cas) <= MAX_INDEX_LIST_NUMBER
    /\ \A k \in 1 .. Len(mx.es) : Len(mx.es[k].ecm) < MAX_INDEX_LIST_NUMBER

\* The k-th stream of a PMT takes its own part of the indices, which the streams before it have left free.
LEMMA PMTStep ==
    ASSUME NEW t, NEW P, NEW W, NEW p, NEW mx, NEW new, NEW off, NEW es, PMTFor(t, p, mx, new, off, es),
           NEW k \in 1 .. Len(mx.es), NEW u, NEW V, PMTAt(t, u, P, W, V, p, new, off, es, k - 1),
           NEW v, v = PutStream(u, p, mx, new, off, es, k)
    PROVE  \E V2 : PMTAt(t, v, P, W, V2, p, new, off, es, k)
<1> DEFINE n == <<"ESPID", p>>
           j == es[k]
           c == <<"ES_ECMPID", j>>
<1>1. /\ mx.es \in Seq(AirStream) /\ Len(mx.es) \in Nat /\ mx.es[k] \in AirStream /\ mx.cas \in Seq(Nat)
      /\ Len(mx.cas) \in Nat
  BY DEF PMTFor, AirProg
<1>2. mx.es[k].ecm \in Seq(Nat) /\ mx.es[k].pid \in Nat /\ Len(mx.es[k].ecm) \in Nat
  BY <1>1, SMTT(30) DEF AirStream
<1>3. /\ off[k - 1] \in Nat /\ off[k] \in Nat /\ off[k] = off[k - 1] + 1 + Len(mx.es[k].ecm)
      /\ off[k] <= Len(new) /\ Len(new) \in Nat
  <2>1. off[k - 1] \in Nat /\ off[k] = off[k - 1] + 1 + Len(mx.es[k].ecm)
    BY DEF PMTFor, Offsets
  <2>2. k \in 0 .. Len(mx.es) /\ Len(mx.es) \in 0 .. Len(mx.es)
    BY <1>1
  <2>3. off[k] \in Nat /\ off[k] <= off[Len(mx.es)] /\ off[Len(mx.es)] \in Nat
    BY <2>2, Zenon DEF PMTFor, Offsets
  <2>4. Len(new) = off[Len(mx.es)] + Len(mx.cas)
    BY DEF PMTFor
  <2> QED BY <1>1, <2>1, <2>3, <2>4
<1>4. PICK ecm : ecm = SubSeq(new, off[k - 1] + 2, off[k])
  BY Zenon
<1>5. Slice(ecm, new, off[k - 1] + 2, off[k])
  <2>1. new \in Seq(Nat) /\ Distinct(new)
    BY DEF PMTFor
  <2>2. off[k - 1] + 2 \in Nat \ {0} /\ off[k - 1] + 2 <= off[k] + 1
    <3>1. PICK a \in Nat, d \in Nat : a = off[k - 1] /\ d = Len(mx.es[k].ecm)
      BY <1>2, <1>3, Zenon
    <3>2. off[k] = a + 1 + d
      BY <1>3, <3>1
    <3> QED BY <3>1, <3>2, SMTT(30)
  <2> QED BY <1>3, <1>4, <2>1, <2>2, SliceFacts, Zenon
<1>6. ecm \in Seq(Nat) /\ Distinct(ecm) /\ Len(ecm) = Len(mx.es[k].ecm)
  <2>1. PICK a \in Nat, d \in Nat : a = off[k - 1] /\ d = Len(mx.es[k].ecm)
    BY <1>2, <1>3, Zenon
  <2>2. off[k] = a + 1 + d
    BY <1>3, <2>1
  <2>3. ecm \in Seq(Nat) /\ Distinct(ecm) /\ Len(ecm) = off[k] - (a + 2) + 1
    BY <1>5, <2>1 DEF Slice
  <2>4. Len(ecm) = (a + 1 + d) - (a + 2) + 1
    BY <2>2, <2>3
  <2>5. Len(ecm) = d
    BY <2>4
  <2> QED BY <2>1, <2>3, <2>5
<1>7. off[k - 1] + 1 \in 1 .. Len(new) /\ j = new[off[k - 1] + 1] /\ k \in 1 .. Len(es)
  <2>1. k \in 1 .. Len(es) /\ es[k] = new[off[k - 1] + 1]
    BY DEF PMTFor
  <2>2. off[k - 1] + 1 \in 1 .. Len(new)
    BY <1>2, <1>3, SMTT(30)
  <2> QED BY <2>1, <2>2
<1>8. j \in DOMAIN u.pid /\ ~u.pid[j].valid
  <2>1. j \in DOMAIN t.pid
    BY <1>7, Zenon DEF PMTFor
  <2>2. off[k - 1] + 1 > off[k - 1]
    BY <1>3
  <2> QED BY <1>7, <2>1, <2>2 DEF PMTAt
<1>9. ASSUME NEW x \in 1 .. Len(ecm) PROVE ecm[x] \in DOMAIN u.pid /\ ~u.pid[ecm[x]].valid /\ ecm[x] # j
  <2>1. PICK y \in 1 .. Len(new) : y = off[k - 1] + 2 + x - 1 /\ ecm[x] = new[y]
    BY <1>5, Zenon DEF Slice
  <2>2. y > off[k - 1] /\ y # off[k - 1] + 1
    BY <1>3, <2>1, SMTT(30)
  <2>3. new[y] # j
    BY <1>7, <2>1, <2>2, Zenon DEF PMTFor, Distinct
  <2>4. new[y] \in DOMAIN t.pid /\ ~u.pid[new[y]].valid
    BY <2>1, <2>2, Zenon DEF PMTAt, PMTFor
  <2> QED BY <2>1, <2>3, <2>4 DEF PMTAt
<1>10. /\ p \in DOMAIN u.prog /\ u.prog[p].valid /\ Layout(u, P, V, {}, Open(p), {}) /\ n \in Open(p)
       /\ Len(V[n]) = k - 1
  BY DEF PMTAt, PMTFor, Open
<1>11. Len(V[n]) + 1 < MAX_INDEX_LIST_NUMBER /\ Len(ecm) < MAX_INDEX_LIST_NUMBER
  <2>1. 1 + Len(mx.es) + Len(mx.cas) <= MAX_INDEX_LIST_NUMBER /\ MAX_INDEX_LIST_NUMBER \in Nat
    BY TableAssumption, Zenon DEF PMTFor
  <2>2. Len(mx.es[k].ecm) < MAX_INDEX_LIST_NUMBER
    BY DEF PMTFor
  <2>3. PICK z \in Nat, y \in Nat, x \in Nat : z = Len(mx.es) /\ y = Len(mx.cas) /\ x = MAX_INDEX_LIST_NUMBER
    BY <1>1, <2>1
  <2>4. k \in 1 .. z /\ 1 + z + y <= x
    BY <2>1, <2>3, Zenon
  <2>5. (k - 1) + 1 < x
    BY <2>4
  <2> QED BY <1>6, <1>10, <2>2, <2>3, <2>5
<1>12. After(es, k) \in Nat
  <2>1. es \in Seq(Nat)
    BY DEF PMTFor
  <2> QED BY <2>1 DEF After, INDEX_INVALID_VALUE
<1>13. PICK e : e = [InitInputPID("ESPID", u.prog[p].ts, p, INDEX_INVALID_VALUE, mx.es[k].pid)
                         EXCEPT !.next = After(es, k), !.esecm = ListAt(ecm)]
  OBVIOUS
<1>14. PICK t1 : t1 = [u EXCEPT !.pid[j] = e]
  BY Zenon
<1>15. v = PutPIDs(t1, "ES_ECMPID", u.prog[p].ts, p, j, ecm, mx.es[k].ecm)
  BY <1>4, <1>13, <1>14 DEF PutStream
<1>16. StreamPut(u, v, P, V, {}, Open(p), {}, p, j, ecm, After(es, k))
  <2> HIDE DEF j
  <2>1. PICK pid \in Nat : pid = mx.es[k].pid
    BY <1>2
  <2>2. PICK pids \in Seq(Nat) : pids = mx.es[k].ecm
    BY <1>2
  <2>3. PICK nx \in Nat : nx = After(es, k)
    BY <1>12
  <2>4. Len(pids) = Len(ecm)
    BY <1>6, <2>2
  <2>5. e = [InitInputPID("ESPID", u.prog[p].ts, p, INDEX_INVALID_VALUE, pid) EXCEPT !.next = nx, !.esecm = ListAt(ecm)]
    BY <1>13, <2>1, <2>3
  <2>6. v = PutPIDs(t1, "ES_ECMPID", u.prog[p].ts, p, j, ecm, pids)
    BY <1>15, <2>2
  <2>7. StreamPut(u, v, P, V, {}, Open(p), {}, p, j, ecm, nx)
    BY <1>6, <1>8, <1>9, <1>10, <1>11, <1>14, <2>4, <2>5, <2>6, PutStreamDone, Zenon
  <2> QED BY <2>3, <2>7
<1>17. PICK V2 : V2 = With(With(V, n, <<j>>), c, ecm)
  OBVIOUS
<1>18. V \in [Names -> Seq(Nat)] /\ p \in Nat /\ j \in Nat /\ Known(u, {})
  BY <1>8, <1>10, ShapeFacts, Zenon DEF Layout, Placed
<1>19. n \in Names /\ c \in Names /\ n # c
  BY <1>18 DEF Names, Types
<1>20. V2[n] = V[n] \o <<j>> /\ \A l \in Names : l # n /\ l # c => V2[l] = V[l]
  BY <1>17, <1>18, <1>19, Zenon DEF With
<1>21. Layout(v, P, V2, {}, Open(p), {}) /\ v.ts = t.ts /\ v.prog = t.prog /\ DOMAIN v.pid = DOMAIN t.pid
  BY <1>16, <1>17 DEF StreamPut, PMTAt
<1>22. Len(V2[n]) = k /\ V2[n][k] = j /\ \A x \in 1 .. k - 1 : V2[n][x] = V[n][x]
  <2>1. PICK s \in Seq(Nat) : s = V[n] /\ Len(s) = k - 1
    BY <1>10, <1>18, <1>19
  <2>2. Len(s \o <<j>>) = k /\ (s \o <<j>>)[k] = j /\ \A x \in 1 .. k - 1 : (s \o <<j>>)[x] = s[x]
    <3>1. PICK z \in Nat : z = j
      BY <1>18
    <3>2. Len(s \o <<z>>) = k /\ (s \o <<z>>)[k] = z
      BY <2>1
    <3>3. \A x \in 1 .. k - 1 : (s \o <<z>>)[x] = s[x]
      BY <2>1
    <3> QED BY <3>1, <3>2, <3>3
  <2> QED BY <1>20, <2>1, <2>2, Zenon
<1>23. ASSUME NEW x \in 1 .. k PROVE V2[n][x] = es[x] /\ v.pid[es[x]].next = After(es, x)
  <2>1. CASE x = k
    BY <1>16, <1>22, <2>1 DEF StreamPut
  <2>2. CASE x # k
    <3>1. x \in 1 .. k - 1
      BY <2>2
    <3>2. V[n][x] = es[x] /\ u.pid[es[x]].next = After(es, x) /\ x \in 1 .. Len(V[n])
      BY <1>10, <3>1, Zenon DEF PMTAt
    <3>3. es[x] \in DOMAIN u.pid /\ u.pid[es[x]].type = "ESPID"
      <4>1. V[n][x] \in DOMAIN u.pid /\ u.pid[V[n][x]].type = n[1]
        <5> HIDE DEF n
        <5>1. Placed(u, P, V) /\ Back(u, P, V)
          BY <1>10 DEF Layout
        <5> QED BY <1>19, <3>2, <5>1, Zenon DEF Placed, Back
      <4> QED BY <3>2, <4>1
    <3>4. u.pid[es[x]].valid
      BY <1>18, <3>3 DEF Known
    <3>5. es[x] # j /\ \A y \in 1 .. Len(ecm) : ecm[y] # es[x]
      BY <1>8, <1>9, <3>4
    <3>6. v.pid[es[x]] = u.pid[es[x]]
      BY <1>16, <3>3, <3>5 DEF StreamPut
    <3> QED BY <1>22, <3>1, <3>2, <3>6, Zenon
  <2> QED BY <2>1, <2>2
<1>24. \A l \in Names : l # n /\ l[1] # "ES_ECMPID" => V2[l] = W[l]
  <2>1. \A l \in Names : l # n /\ l[1] # "ES_ECMPID" => V[l] = W[l] /\ l # c
    BY DEF PMTAt
  <2> QED BY <1>20, <2>1
<1>25. ASSUME NEW x \in 1 .. Len(new), x > off[k] PROVE ~v.pid[new[x]].valid
  <2>1. x > off[k - 1] /\ x # off[k - 1] + 1
    BY <1>2, <1>3, <1>25, SMTT(30)
  <2>2. new[x] \in DOMAIN u.pid /\ ~u.pid[new[x]].valid
    BY <2>1 DEF PMTAt, PMTFor
  <2>3. new[x] # j
    BY <1>7, <2>1 DEF PMTFor, Distinct
  <2>4. ASSUME NEW y \in 1 .. Len(ecm) PROVE ecm[y] # new[x]
    <3>1. PICK z \in 1 .. Len(new) : z = off[k - 1] + 2 + y - 1 /\ ecm[y] = new[z] /\ z \in off[k - 1] + 2 .. off[k]
      BY <1>5, Zenon DEF Slice
    <3>2. z # x
      BY <1>3, <1>25, <3>1
    <3> QED BY <3>1, <3>2 DEF PMTFor, Distinct
  <2> QED BY <1>16, <2>2, <2>3, <2>4, Zenon DEF StreamPut
<1>26. PMTAt(t, v, P, W, V2, p, new, off, es, k)
  <2> HIDE DEF j, c
  <2> QED BY <1>21, <1>22, <1>23, <1>24, <1>25 DEF PMTAt
<1> QED BY <1>26

\* All streams of a PMT.
LEMMA PMTLoop ==
    ASSUME NEW t, NEW P, NEW W, NEW p, NEW mx, NEW new, NEW off, NEW es, PMTFor(t, p, mx, new, off, es),
           NEW t0, NEW V0, PMTAt(t, t0, P, W, V0, p, new, off, es, 0),
           NEW g, PutStreams(g, t0, Numbers(mx.es), p, mx, new, off, es)
    PROVE  /\ g[Len(mx.es)].err = "SUCCESS"
           /\ \E V : PMTAt(t, g[Len(mx.es)].t, P, W, V, p, new, off, es, Len(mx.es))
<1>1. mx.es \in Seq(AirStream) /\ Len(mx.es) \in Nat
  BY DEF PMTFor, AirProg
<1>2. Len(Numbers(mx.es)) = Len(mx.es) /\ \A k \in 1 .. Len(mx.es) : Numbers(mx.es)[k] = k
  BY <1>1, NumbersFacts
<1>3. PICK b \in Nat : b = Len(mx.es)
  BY <1>1
<1> DEFINE G == {k \in 0 .. b : g[k].err = "SUCCESS" /\ \E V : PMTAt(t, g[k].t, P, W, V, p, new, off, es, k)}
<1>4. 0 \in G
  <2>1. g[0] = Ok(t0)
    BY DEF PutStreams
  <2>2. g[0].err = "SUCCESS" /\ g[0].t = t0
    BY <2>1 DEF Ok
  <2>3. 0 \in 0 .. b
    BY <1>3
  <2> QED BY <2>2, <2>3
<1>5. ASSUME NEW k \in 1 .. b, k - 1 \in G PROVE k \in G
  <2>1. g[k - 1].err = "SUCCESS"
    BY <1>5
  <2>2. PICK V : PMTAt(t, g[k - 1].t, P, W, V, p, new, off, es, k - 1)
    BY <1>5
  <2>3. PICK v : v = PutStream(g[k - 1].t, p, mx, new, off, es, k)
    OBVIOUS
  <2>4. g[k] = Ok(v)
    <3>1. k \in 1 .. Len(Numbers(mx.es)) /\ Numbers(mx.es)[k] = k
      BY <1>2, <1>3
    <3>2. g[k] = IF g[k - 1].err = "SUCCESS"
                 THEN Ok(PutStream(g[k - 1].t, p, mx, new, off, es, Numbers(mx.es)[k])) ELSE g[k - 1]
      BY <3>1 DEF PutStreams
    <3> QED BY <2>1, <2>3, <3>1, <3>2
  <2>5. PICK u : u = g[k - 1].t
    OBVIOUS
  <2>6. k \in 1 .. Len(mx.es)
    BY <1>3
  <2>7. \E V2 : PMTAt(t, v, P, W, V2, p, new, off, es, k)
    BY <2>2, <2>3, <2>5, <2>6, PMTStep
  <2>8. g[k].err = "SUCCESS" /\ g[k].t = v
    BY <2>4 DEF Ok
  <2>9. k \in 0 .. b
    OBVIOUS
  <2> QED BY <2>7, <2>8, <2>9
<1>6. G \in SUBSET (0 .. b)
  OBVIOUS
<1> HIDE DEF G
<1>7. \A k \in 0 .. b : k \in G
  BY <1>4, <1>5, <1>6, Upwards
<1>8. b \in G
  BY <1>7
<1> QED BY <1>3, <1>8 DEF G

\* New entries for a list of PCRs or ECMs of program p.
LEMMA PutList ==
    ASSUME NEW t, NEW P, NEW W, NEW OW, Layout(t, P, W, {}, OW, {}),
           NEW p \in DOMAIN t.prog, t.prog[p].valid, NEW type \in {"PCRPID", "PS_ECMPID"}, <<type, p>> \in OW,
           NEW idx \in Seq(Nat), Distinct(idx),
           \A k \in 1 .. Len(idx) : idx[k] \in DOMAIN t.pid /\ ~t.pid[idx[k]].valid,
           Len(W[<<type, p>>]) + Len(idx) < MAX_INDEX_LIST_NUMBER,
           NEW u, PutPIDsDone(t, u, type, t.prog[p].ts, p, INDEX_INVALID_VALUE, idx)
    PROVE  Layout(u, P, With(W, <<type, p>>, idx), {}, OW, {})
<1>1. PICK n : n = <<type, p>>
  OBVIOUS
<1>2. p \in Nat /\ Shape(t) /\ Known(t, {})
  BY ShapeFacts DEF Layout
<1>3. n \in Names /\ n[1] = type /\ n[2] = p /\ Owned(t, n)
  BY <1>1, <1>2 DEF Names, Types, Owned
<1>4. PutAt(t, u, idx) /\ \A k \in 1 .. Len(idx) : LET x == u.pid[idx[k]] IN x.valid /\ x.type = type /\ x.ts = t.prog[p].ts /\ x.prog = p
  BY DEF PutPIDsDone, NewEntry
<1>5. RunPut(t, u, n, idx)
  <2>1. ASSUME NEW k \in 1 .. Len(idx)
        PROVE  /\ idx[k] \in DOMAIN t.pid /\ t.pid[idx[k]].type = "UNKNOWN"
               /\ u.pid[idx[k]].type = n[1] /\ PointsBack(u, n, idx[k])
    <3>1. t.pid[idx[k]].type = "UNKNOWN"
      BY <1>2 DEF Known
    <3>2. u.prog = t.prog
      BY <1>4 DEF PutAt
    <3>3. PointsBack(u, n, idx[k])
      BY <1>3, <1>4, <3>2 DEF PointsBack
    <3> QED BY <1>3, <1>4, <3>1, <3>3
  <2> QED BY <1>4, <2>1 DEF RunPut, PutAt
<1>6. Known(u, {})
  <2>1. \A k \in 1 .. Len(idx) : u.pid[idx[k]].valid /\ u.pid[idx[k]].type # "UNKNOWN"
    BY <1>4
  <2>2. Known(u, Minus({}, idx))
    BY <1>2, <1>4, <2>1, KnownPut
  <2>3. Minus({}, idx) = {}
    BY DEF Minus
  <2> QED BY <2>2, <2>3, Zenon
<1>7. Layout(u, P, With(W, n, idx), {}, OW, {})
  <2>1. n[1] # "ESPID" /\ n \in OW /\ OW \subseteq OW /\ Len(W[n]) + Len(idx) < MAX_INDEX_LIST_NUMBER
    BY <1>1, <1>3
  <2> QED BY <1>3, <1>5, <1>6, <2>1, PutRun
<1> QED BY <1>1, <1>7

\* The PCR of program p at the first of the indices new, or no PCR.
PCRDone(t, u, P, W, p, mx, new, pcr) ==
    /\ Layout(u, P, With(W, <<"PCRPID", p>>, pcr), {}, Open(p), {}) /\ PutAt(t, u, pcr)
    /\ Slice(pcr, new, 1, HasPCR(mx)) /\ HasPCR(mx) \in 0 .. 1

\* The PCR of a PMT, a list of one.
LEMMA PutPCR ==
    ASSUME NEW t, NEW P, NEW W, NEW p \in DOMAIN t.prog, Layout(t, P, W, {}, Open(p), {}),
           t.prog[p].valid, W[<<"PCRPID", p>>] = << >>,
           NEW mx \in AirProg, NEW new \in Seq(Nat), Distinct(new), HasPCR(mx) <= Len(new),
           \A k \in 1 .. Len(new) : new[k] \in DOMAIN t.pid /\ ~t.pid[new[k]].valid,
           NEW pcr, Slice(pcr, new, 1, HasPCR(mx)),
           NEW u, u = PutPIDs(t, "PCRPID", t.prog[p].ts, p, INDEX_INVALID_VALUE, pcr, <<mx.pcr>>)
    PROVE  PCRDone(t, u, P, W, p, mx, new, pcr)
<1>1. HasPCR(mx) \in 0 .. 1
  BY DEF HasPCR
<1>2. Slice(pcr, new, 1, HasPCR(mx))
  OBVIOUS
<1>3. pcr \in Seq(Nat) /\ Distinct(pcr) /\ Len(pcr) = HasPCR(mx) /\ \A k \in 1 .. Len(pcr) : pcr[k] \in DOMAIN t.pid /\ ~t.pid[pcr[k]].valid
  <2>1. pcr \in Seq(Nat) /\ Distinct(pcr) /\ Len(pcr) = HasPCR(mx) - 1 + 1
    BY <1>2 DEF Slice
  <2>2. \A k \in 1 .. Len(pcr) : pcr[k] \in DOMAIN t.pid /\ ~t.pid[pcr[k]].valid
    BY <1>2, Zenon DEF Slice
  <2> QED BY <1>1, <2>1, <2>2
<1>4. PICK n : n = <<"PCRPID", p>>
  OBVIOUS
<1>5. p \in Nat /\ n \in Names /\ W \in [Names -> Seq(Nat)] /\ t.prog[p].ts \in Nat /\ Shape(t)
  BY <1>4, ShapeFacts, Zenon DEF Layout, Placed, Names, Types, ProgRec
<1>6. CASE HasPCR(mx) = 0
  <2>1. pcr = << >>
    BY <1>3, <1>6
  <2>2. u = t
    <3>1. \A i : ~Contains(pcr, i)
      <4>1. Len(pcr) = 0
        BY <2>1
      <4> QED BY <4>1 DEF Contains
    <3>2. PICK f : f = [i \in DOMAIN t.pid |-> IF Contains(pcr, i)
              THEN NewPID("PCRPID", t.prog[p].ts, p, INDEX_INVALID_VALUE, pcr, <<mx.pcr>>, PosIn(pcr, i)) ELSE t.pid[i]]
      BY Zenon
    <3>3. f = [i \in DOMAIN t.pid |-> t.pid[i]]
      BY <3>1, <3>2
    <3>4. PICK a \in Nat, b \in Nat, c \in Nat : t \in Tables(a, b, c)
      BY <1>5 DEF Shape
    <3>5. f = t.pid
      BY <3>3, <3>4, Parts, Zenon
    <3>6. u = [t EXCEPT !.pid = f]
      BY <3>2 DEF PutPIDs
    <3> QED BY <3>4, <3>5, <3>6, Zenon DEF Tables
  <2>3. With(W, n, << >>) = W
    <3>1. W[n] \o << >> = W[n]
      BY <1>5
    <3> QED BY <1>5, <3>1 DEF With
  <2>4. PutAt(t, t, pcr)
    BY <1>5 DEF PutAt
  <2> QED BY <1>1, <1>2, <1>4, <2>1, <2>2, <2>3, <2>4 DEF PCRDone
<1>7. CASE HasPCR(mx) # 0
  <2>1. Len(pcr) = 1
    BY <1>1, <1>3, <1>7
  <2>2. PICK pids : pids = <<mx.pcr>>
    OBVIOUS
  <2>3. pids \in Seq(Nat) /\ Len(pids) = Len(pcr)
    <3>1. PICK x \in Nat : x = mx.pcr
      BY DEF AirProg
    <3>2. pids = <<x>>
      BY <2>2, <3>1
    <3>3. pids \in Seq(Nat) /\ Len(pids) = 1
      BY <3>2
    <3> QED BY <2>1, <3>3
  <2>4. "PCRPID" \in Types /\ INDEX_INVALID_VALUE \in Nat
    BY DEF Types, INDEX_INVALID_VALUE
  <2>5. PICK ts \in Nat : ts = t.prog[p].ts
    BY <1>5
  <2>6. u = PutPIDs(t, "PCRPID", ts, p, INDEX_INVALID_VALUE, pcr, pids)
    BY <2>2, <2>5
  <2>7. PutPIDsDone(t, u, "PCRPID", ts, p, INDEX_INVALID_VALUE, pcr)
    BY <1>3, <1>5, <2>3, <2>4, <2>6, PutPIDsAre, Zenon
  <2>8. Len(W[<<"PCRPID", p>>]) + Len(pcr) < MAX_INDEX_LIST_NUMBER
    <3>1. PICK w : w = W[<<"PCRPID", p>>]
      OBVIOUS
    <3>2. Len(w) = 0
      BY <3>1
    <3>3. MAX_INDEX_LIST_NUMBER \in Nat /\ MAX_INDEX_LIST_NUMBER > 1
      BY TableAssumption
    <3> QED BY <2>1, <3>1, <3>2, <3>3
  <2>9. <<"PCRPID", p>> \in Open(p)
    BY DEF Open
  <2>10. PutPIDsDone(t, u, "PCRPID", t.prog[p].ts, p, INDEX_INVALID_VALUE, pcr)
    BY <2>5, <2>7
  <2>11. Layout(u, P, With(W, <<"PCRPID", p>>, pcr), {}, Open(p), {})
    <3>1. PICK type : type = "PCRPID"
      OBVIOUS
    <3>2. type \in {"PCRPID", "PS_ECMPID"}
      BY <3>1
    <3>3. Layout(u, P, With(W, <<type, p>>, pcr), {}, Open(p), {})
      BY <1>3, <2>8, <2>9, <2>10, <3>1, <3>2, PutList, Zenon
    <3> QED BY <3>1, <3>3
  <2>12. PutAt(t, u, pcr)
    BY <2>10 DEF PutPIDsDone
  <2> QED BY <1>1, <1>2, <2>11, <2>12 DEF PCRDone
<1> QED BY <1>6, <1>7

\* The heads of the lists of program p.
SetHeads(t, p, pcr, es, cas) ==
    [t EXCEPT !.prog[p].pcr = ListAt(pcr).head, !.prog[p].es = ListAt(es), !.prog[p].psecm = ListAt(cas)]

\* The heads of the lists of a program are overwritten, and nothing else.
LEMMA SetHeadsFacts ==
    ASSUME NEW t, Shape(t), NEW p \in DOMAIN t.prog, NEW pcr \in Seq(Nat), NEW es \in Seq(Nat), NEW cas \in Seq(Nat),
           NEW u, u = SetHeads(t, p, pcr, es, cas)
    PROVE  /\ Shape(u) /\ u.ts = t.ts /\ u.pid = t.pid /\ DOMAIN u.prog = DOMAIN t.prog
           /\ \A q \in DOMAIN t.prog : q # p => u.prog[q] = t.prog[q]
           /\ u.prog[p].valid = t.prog[p].valid /\ u.prog[p].next = t.prog[p].next /\ u.prog[p].ts = t.prog[p].ts
           /\ u.prog[p].pcr = ListAt(pcr).head /\ u.prog[p].es = ListAt(es) /\ u.prog[p].psecm = ListAt(cas)
<1>1. PICK a \in Nat, b \in Nat, c \in Nat : t \in Tables(a, b, c)
  BY DEF Shape
<1>2. PICK h : h = ListAt(pcr).head
  OBVIOUS
<1>3. PICK l : l = ListAt(es)
  OBVIOUS
<1>4. PICK m : m = ListAt(cas)
  OBVIOUS
<1>5. h \in Nat /\ l \in ListRec /\ m \in ListRec
  BY <1>2, <1>3, <1>4, SMTT(30) DEF ListAt, ListRec, INDEX_INVALID_VALUE
<1>6. PICK x : x = t.prog[p]
  OBVIOUS
<1>7. x \in ProgRec /\ p \in 0 .. b - 1
  BY <1>1, <1>6, ShapeFacts, Parts
<1>8. PICK e : e = [x EXCEPT !.pcr = h, !.es = l, !.psecm = m]
  OBVIOUS
<1>9. /\ e \in ProgRec /\ e.valid = x.valid /\ e.next = x.next /\ e.ts = x.ts /\ e.pcr = h /\ e.es = l /\ e.psecm = m
  BY <1>5, <1>7, <1>8, Zenon DEF ProgRec
<1>10. u = [t EXCEPT !.prog[p] = e]
  BY <1>1, <1>2, <1>3, <1>4, <1>6, <1>7, <1>8, Zenon DEF SetHeads, Tables
<1>11. u \in Tables(a, b, c) /\ u.ts = t.ts /\ u.pid = t.pid /\ u.prog = [t.prog EXCEPT ![p] = e]
  BY <1>1, <1>7, <1>9, <1>10, Zenon DEF Tables
<1> QED BY <1>2, <1>3, <1>4, <1>6, <1>7, <1>9, <1>11 DEF Shape

\* The indices of the streams.
StreamsAt(mx, new, off) == [k \in 1 .. Len(mx.es) |-> new[off[k - 1] + 1]]

\* How PutPMT comes to its result.
LEMMA PutPMTRaw ==
    ASSUME NEW t, NEW p, NEW mx \in AirProg, NEW new, NEW off
    PROVE  \E g : /\ PutStreams(g, PutPIDs(t, "PCRPID", t.prog[p].ts, p, INDEX_INVALID_VALUE, SubSeq(new, 1, HasPCR(mx)), <<mx.pcr>>),
                               Numbers(mx.es), p, mx, new, off, StreamsAt(mx, new, off))
                  /\ PutPMT(t, p, mx, new, off) =
                        IF g[Len(mx.es)].err = "SUCCESS"
                        THEN Ok(SetHeads(PutPIDs(g[Len(mx.es)].t, "PS_ECMPID", t.prog[p].ts, p, INDEX_INVALID_VALUE,
                                                 SubSeq(new, off[Len(mx.es)] + 1, Len(new)), mx.cas),
                                         p, SubSeq(new, 1, HasPCR(mx)), StreamsAt(mx, new, off),
                                         SubSeq(new, off[Len(mx.es)] + 1, Len(new))))
                        ELSE g[Len(mx.es)]
<1>1. Len(Numbers(mx.es)) = Len(mx.es) /\ Len(mx.es) \in Nat
  BY NumbersFacts DEF AirProg
<1>2. PICK t0 : t0 = PutPIDs(t, "PCRPID", t.prog[p].ts, p, INDEX_INVALID_VALUE, SubSeq(new, 1, HasPCR(mx)), <<mx.pcr>>)
  OBVIOUS
<1>4. PICK g : /\ PutStreams(g, t0, Numbers(mx.es), p, mx, new, off, StreamsAt(mx, new, off))
               /\ PutStreamsLoop(t0, Numbers(mx.es), p, mx, new, off, StreamsAt(mx, new, off)) = g[Len(Numbers(mx.es))]
  <2>1. PICK seq : seq = Numbers(mx.es)
    OBVIOUS
  <2>2. Len(seq) \in Nat
    BY <1>1, <2>1
  <2>3. PICK es : es = StreamsAt(mx, new, off)
    OBVIOUS
  <2>4. PICK g : PutStreams(g, t0, seq, p, mx, new, off, es) /\ PutStreamsLoop(t0, seq, p, mx, new, off, es) = g[Len(seq)]
    BY <2>2, PutStreamsDef
  <2> QED BY Zenon, <2>1, <2>3, <2>4
<1>3. PutPMT(t, p, mx, new, off) =
        IF PutStreamsLoop(PutPIDs(t, "PCRPID", t.prog[p].ts, p, INDEX_INVALID_VALUE, SubSeq(new, 1, HasPCR(mx)), <<mx.pcr>>),
                    Numbers(mx.es), p, mx, new, off, StreamsAt(mx, new, off)).err = "SUCCESS"
        THEN Ok(SetHeads(PutPIDs(PutStreamsLoop(PutPIDs(t, "PCRPID", t.prog[p].ts, p, INDEX_INVALID_VALUE, SubSeq(new, 1, HasPCR(mx)), <<mx.pcr>>),
                    Numbers(mx.es), p, mx, new, off, StreamsAt(mx, new, off)).t,
                                 "PS_ECMPID", t.prog[p].ts, p, INDEX_INVALID_VALUE,
                                 SubSeq(new, off[Len(mx.es)] + 1, Len(new)), mx.cas),
                         p, SubSeq(new, 1, HasPCR(mx)), StreamsAt(mx, new, off),
                         SubSeq(new, off[Len(mx.es)] + 1, Len(new))))
        ELSE PutStreamsLoop(PutPIDs(t, "PCRPID", t.prog[p].ts, p, INDEX_INVALID_VALUE, SubSeq(new, 1, HasPCR(mx)), <<mx.pcr>>),
                    Numbers(mx.es), p, mx, new, off, StreamsAt(mx, new, off))
  BY Zenon DEF PutPMT, Then, SetHeads, StreamsAt, PutStreamsLoop
<1> QED BY Zenon, <1>1, <1>2, <1>3, <1>4

\* Which a layout with these lists open does not depend on.
LEMMA SetHeadsTouched ==
    ASSUME NEW t, NEW P, NEW W, NEW p \in DOMAIN t.prog, Layout(t, P, W, {}, Open(p), {}),
           NEW pcr \in Seq(Nat), NEW es \in Seq(Nat), NEW cas \in Seq(Nat),
           NEW u, u = SetHeads(t, p, pcr, es, cas)
    PROVE  Layout(u, P, W, {}, Open(p), {})
<1>1. Shape(t) /\ Placed(t, P, W)
  BY DEF Layout
<1>2. /\ Shape(u) /\ u.ts = t.ts /\ u.pid = t.pid /\ DOMAIN u.prog = DOMAIN t.prog
      /\ \A q \in DOMAIN t.prog : q # p => u.prog[q] = t.prog[q]
      /\ u.prog[p].valid = t.prog[p].valid /\ u.prog[p].next = t.prog[p].next /\ u.prog[p].ts = t.prog[p].ts
  BY <1>1, SetHeadsFacts
<1>3. \A q \in DOMAIN t.prog :
        u.prog[q].valid = t.prog[q].valid /\ u.prog[q].next = t.prog[q].next /\ u.prog[q].ts = t.prog[q].ts
  BY <1>2, Zenon
<1>4. \A i \in DOMAIN t.ts : \A k \in 1 .. Len(P[i]) : u.prog[P[i][k]].next = t.prog[P[i][k]].next
  <2>1. DOMAIN t.ts \subseteq Nat
    BY <1>1, ShapeFacts
  <2> QED BY <1>1, <1>3, <2>1, Zenon DEF Placed
<1>5. ASSUME NEW n \in Names, n \notin Open(p), Owned(u, n)
      PROVE  Owned(t, n) /\ HeadRec(u, n) = HeadRec(t, n)
  <2>1. Owned(t, n)
    BY <1>2, <1>3, <1>5 DEF Owned
  <2>2. PICK l1, l2 : n = <<l1, l2>> /\ l1 = n[1] /\ l2 = n[2]
    BY NameFacts
  <2>3. n[1] \in {"PCRPID", "ESPID", "PS_ECMPID"} => n[2] # p /\ n[2] \in DOMAIN t.prog
    <3>1. n[1] \in {"PCRPID", "ESPID", "PS_ECMPID"} => n[2] # p
      BY <1>5, <2>2 DEF Open
    <3> QED BY <2>1, <3>1 DEF Owned
  <2>4. n[1] \in Types \ {"UNKNOWN"}
    BY NameFacts
  <2>5. HeadRec(u, n) = HeadRec(t, n)
    <3>1. CASE n[1] \in {"PCRPID", "ESPID", "PS_ECMPID"}
      <4>1. u.prog[n[2]] = t.prog[n[2]]
        BY <1>2, <2>3, <3>1
      <4> QED BY <3>1, <4>1 DEF HeadRec
    <3>2. CASE n[1] \in {"EMMPID", "OTHERPID", "ES_ECMPID"}
      BY <1>2, <3>2 DEF HeadRec
    <3> QED BY <2>4, <3>1, <3>2 DEF Types
  <2> QED BY <2>1, <2>5
<1>6. ProgsTouched(t, u, P, {}, Open(p))
  BY <1>2, <1>3, <1>4, <1>5 DEF ProgsTouched
<1>7. {} \subseteq {} /\ Open(p) \subseteq Open(p)
  OBVIOUS
<1> QED BY <1>2, <1>6, <1>7, TouchProgs

\* The lists of program p are linked, with these heads.
LEMMA CloseProg ==
    ASSUME NEW t, NEW P, NEW W, NEW p \in DOMAIN t.prog, Layout(t, P, W, {}, Open(p), {}),
           (W[<<"PCRPID", p>>] = << >> /\ t.prog[p].pcr = INDEX_INVALID_VALUE) \/ W[<<"PCRPID", p>>] = <<t.prog[p].pcr>>,
           Chain(t.pid, t.prog[p].es, W[<<"ESPID", p>>]),
           Chain(t.pid, t.prog[p].psecm, W[<<"PS_ECMPID", p>>])
    PROVE  Layout(t, P, W, {}, {}, {})
<1>1. ASSUME NEW n \in Names, Owned(t, n), n \in Open(p)
      PROVE  Strung(t, n, W[n])
  <2>1. n = <<n[1], p>> /\ n[2] = p /\ n[1] \in {"PCRPID", "ESPID", "PS_ECMPID"}
    BY <1>1 DEF Open
  <2>2. CASE n[1] = "PCRPID"
    <3>1. W[n] = W[<<"PCRPID", p>>]
      BY <2>1, <2>2
    <3>2. HeadRec(t, n).head = t.prog[p].pcr
      BY <2>1, <2>2 DEF HeadRec
    <3> QED BY <2>2, <3>1, <3>2 DEF Strung
  <2>3. CASE n[1] = "ESPID"
    <3>1. W[n] = W[<<"ESPID", p>>]
      BY <2>1, <2>3
    <3>2. HeadRec(t, n) = t.prog[p].es
      BY <2>1, <2>3 DEF HeadRec
    <3> QED BY <2>3, <3>1, <3>2 DEF Strung
  <2>4. CASE n[1] = "PS_ECMPID"
    <3>1. W[n] = W[<<"PS_ECMPID", p>>]
      BY <2>1, <2>4
    <3>2. HeadRec(t, n) = t.prog[p].psecm
      BY <2>1, <2>4 DEF HeadRec
    <3> QED BY <2>4, <3>1, <3>2 DEF Strung
  <2> QED BY <2>1, <2>2, <2>3, <2>4
<1>2. \A n \in Names : Owned(t, n) /\ n \in Open(p) \ {} => Strung(t, n, W[n])
  BY <1>1
<1>3. \A i \in DOMAIN t.ts : t.ts[i].valid /\ i \in {} \ {} => Chain(t.prog, t.ts[i].prog, P[i])
  OBVIOUS
<1> QED BY <1>2, <1>3, Close

\* A list at its indices.
LEMMA ListAtFacts ==
    ASSUME NEW table, NEW s \in Seq(Nat), \A k \in 1 .. Len(s) : table[s[k]].next = After(s, k)
    PROVE  ListAt(s) \in ListRec /\ Chain(table, ListAt(s), s)
           /\ (s = << >> => ListAt(s).head = INDEX_INVALID_VALUE) /\ (s # << >> => ListAt(s).head = s[1])
<1>1. Len(s) \in Nat
  OBVIOUS
<1>2. s # << >> => s[1] \in Nat
  OBVIOUS
<1>3. ListAt(s).num = Len(s) /\ ListAt(s).head = IF s = << >> THEN INDEX_INVALID_VALUE ELSE s[1]
  BY DEF ListAt
<1>4. ListAt(s) \in ListRec
  BY <1>1, <1>2 DEF ListAt, ListRec, INDEX_INVALID_VALUE
<1>5. Chain(table, ListAt(s), s)
  BY <1>3 DEF Chain
<1> QED BY <1>3, <1>4, <1>5

\* The program mx was put in place as program p.
PMTDone(r, t, P, W, p, mx) ==
    r.err = "SUCCESS" =>
        /\ r.t.ts = t.ts /\ DOMAIN r.t.prog = DOMAIN t.prog
        /\ \A q \in DOMAIN t.prog : r.t.prog[q].valid = t.prog[q].valid
        /\ \E V : /\ Layout(r.t, P, V, {}, {}, {})
                  /\ Len(V[<<"ESPID", p>>]) = Len(mx.es) /\ Len(V[<<"PS_ECMPID", p>>]) = Len(mx.cas)
                  /\ \A n \in Names : n \notin Open(p) /\ n[1] # "ES_ECMPID" => V[n] = W[n]

NoLists(W, p) == W[<<"PCRPID", p>>] = << >> /\ W[<<"ESPID", p>>] = << >> /\ W[<<"PS_ECMPID", p>>] = << >>

\* What the first step of PutPMT leaves.
LEMMA PMTStart ==
    ASSUME NEW t, NEW P, NEW W, Layout(t, P, W, {}, {}, {}), NEW p \in DOMAIN t.prog, t.prog[p].valid, NoLists(W, p),
           NEW mx \in AirProg, PMTFits(mx), NEW off, Offsets(mx, off),
           NEW new, Fresh(t.pid, new, off[Len(mx.es)] + Len(mx.cas)),
           NEW pcr, pcr = SubSeq(new, 1, HasPCR(mx)), NEW es, es = StreamsAt(mx, new, off),
           NEW u, u = PutPIDs(t, "PCRPID", t.prog[p].ts, p, INDEX_INVALID_VALUE, pcr, <<mx.pcr>>)
    PROVE  /\ PCRDone(t, u, P, W, p, mx, new, pcr) /\ PMTFor(t, p, mx, new, off, es)
           /\ PMTAt(t, u, P, With(W, <<"PCRPID", p>>, pcr), With(W, <<"PCRPID", p>>, pcr), p, new, off, es, 0)
<1>1. Layout(t, P, W, {}, Open(p), {})
  <2>1. \A i \in DOMAIN t.ts : t.ts[i].valid /\ i \in {} \ {} => Chain(t.prog, t.ts[i].prog, P[i])
    OBVIOUS
  <2>2. \A n \in Names : Owned(t, n) /\ n \in {} \ Open(p) => Strung(t, n, W[n])
    OBVIOUS
  <2> QED BY <2>1, <2>2, Close
<1>2. PICK a \in Nat, b \in Nat, c \in Nat : a = Len(mx.es) /\ b = off[a] /\ c = Len(mx.cas)
  <2>1. Len(mx.es) \in Nat /\ Len(mx.cas) \in Nat
    BY DEF AirProg
  <2>2. Len(mx.es) \in 0 .. Len(mx.es)
    BY <2>1
  <2>3. off[Len(mx.es)] \in Nat
    BY <2>2 DEF Offsets
  <2> QED BY <2>1, <2>3
<1>3. HasPCR(mx) \in 0 .. 1 /\ HasPCR(mx) <= b /\ off[0] = HasPCR(mx)
  <2>1. 0 \in 0 .. a
    BY <1>2
  <2> QED BY <1>2, <2>1 DEF HasPCR, Offsets
<1>4. /\ new \in Seq(Nat) /\ Len(new) = b + c /\ Distinct(new)
      /\ \A k \in 1 .. Len(new) : new[k] \in DOMAIN t.pid /\ ~t.pid[new[k]].valid
  <2>1. Fresh(t.pid, new, b + c)
    BY <1>2
  <2> QED BY <2>1, Zenon DEF Fresh, Distinct
<1>5. PICK h \in Nat : h = HasPCR(mx)
  BY <1>3
<1>6. Slice(pcr, new, 1, HasPCR(mx)) /\ HasPCR(mx) <= Len(new)
  <2>1. 1 \in Nat \ {0} /\ 1 <= h + 1 /\ h <= Len(new)
    BY <1>3, <1>4, <1>5
  <2>2. Slice(SubSeq(new, 1, h), new, 1, h)
    BY <1>4, <2>1, SliceFacts
  <2> QED BY <1>5, <2>1, <2>2
<1>7. PCRDone(t, u, P, W, p, mx, new, pcr)
  <2>1. W[<<"PCRPID", p>>] = << >>
    BY DEF NoLists
  <2> QED BY <1>1, <1>4, <1>6, <2>1, PutPCR, Zenon
<1>8. PMTFor(t, p, mx, new, off, es)
  <2>1. es = [k \in 1 .. a |-> new[off[k - 1] + 1]]
    BY <1>2 DEF StreamsAt
  <2>2. ASSUME NEW k \in 1 .. a PROVE off[k - 1] + 1 \in 1 .. Len(new)
    <3>1. off[k - 1] \in Nat /\ off[k] = off[k - 1] + 1 + Len(mx.es[k].ecm) /\ off[k] <= off[a] /\ off[k] \in Nat
      <4>1. k \in 1 .. Len(mx.es) /\ k \in 0 .. Len(mx.es)
        BY <1>2
      <4> QED BY <1>2, <4>1 DEF Offsets
    <3>2. Len(mx.es[k].ecm) \in Nat
      BY <1>2 DEF AirProg, AirStream
    <3>3. PICK x \in Nat, y \in Nat, z \in Nat : x = off[k - 1] /\ y = off[k] /\ z = Len(mx.es[k].ecm)
      BY <3>1, <3>2, Zenon
    <3>4. y = x + 1 + z /\ y <= b
      BY <1>2, <3>1, <3>3
    <3>5. x + 1 \in 1 .. (b + c)
      BY <3>4
    <3>6. Len(new) = b + c
      BY <1>4
    <3> QED BY <3>3, <3>5, <3>6
  <2>3. es \in Seq(Nat) /\ Len(es) = a /\ \A k \in 1 .. a : es[k] = new[off[k - 1] + 1]
    <3>1. \A k \in 1 .. a : new[off[k - 1] + 1] \in Nat
      BY <1>4, <2>2
    <3> QED BY <2>1, <3>1
  <2>4. Len(new) = off[Len(mx.es)] + Len(mx.cas)
    BY <1>2, <1>4
  <2>5. \A k \in 1 .. Len(new) : new[k] \in DOMAIN t.pid
    BY <1>4
  <2>6. Len(es) = Len(mx.es) /\ \A k \in 1 .. Len(es) : es[k] = new[off[k - 1] + 1]
    BY <1>2, <2>3
  <2> QED BY <1>4, <2>3, <2>4, <2>5, <2>6, Zenon DEF PMTFor, PMTFits
<1>9. PMTAt(t, u, P, With(W, <<"PCRPID", p>>, pcr), With(W, <<"PCRPID", p>>, pcr), p, new, off, es, 0)
  <2>1. Layout(u, P, With(W, <<"PCRPID", p>>, pcr), {}, Open(p), {}) /\ PutAt(t, u, pcr)
    BY <1>7 DEF PCRDone
  <2>2. Len(With(W, <<"PCRPID", p>>, pcr)[<<"ESPID", p>>]) = 0
    <3>1. W \in [Names -> Seq(Nat)] /\ DOMAIN t.prog \subseteq Nat
      BY <1>1, ShapeFacts, Zenon DEF Layout, Placed
    <3>2. <<"ESPID", p>> \in Names
      BY <3>1 DEF Names, Types
    <3>3. <<"ESPID", p>> # <<"PCRPID", p>>
      OBVIOUS
    <3>4. With(W, <<"PCRPID", p>>, pcr)[<<"ESPID", p>>] = W[<<"ESPID", p>>]
      BY <3>1, <3>2, <3>3 DEF With
    <3>5. With(W, <<"PCRPID", p>>, pcr)[<<"ESPID", p>>] = << >>
      BY <3>4 DEF NoLists
    <3> QED BY <3>5
  <2>3. ASSUME NEW x \in 1 .. Len(new), x > off[0] PROVE ~u.pid[new[x]].valid
    <3>1. ASSUME NEW k \in 1 .. Len(pcr) PROVE pcr[k] # new[x]
      <4>1. 1 + k - 1 \in 1 .. h /\ 1 + k - 1 \in 1 .. Len(new) /\ pcr[k] = new[1 + k - 1]
        BY <1>5, <1>6 DEF Slice
      <4>2. 1 + k - 1 = k /\ k <= h
        BY <4>1
      <4>3. k # x
        BY <1>3, <1>5, <2>3, <4>2
      <4> QED BY <1>4, <4>1, <4>2, <4>3, Zenon DEF Distinct
    <3>2. u.pid[new[x]] = t.pid[new[x]]
      BY <1>4, <2>1, <3>1, Zenon DEF PutAt
    <3> QED BY <1>4, <3>2
  <2>4. \A x \in 1 .. Len(new) : x > off[0] => ~u.pid[new[x]].valid
    BY <2>3
  <2>5. u.ts = t.ts /\ u.prog = t.prog /\ DOMAIN u.pid = DOMAIN t.pid
    BY <2>1 DEF PutAt
  <2>6. \A x \in 1 .. 0 : FALSE
    OBVIOUS
  <2> QED BY <2>1, <2>2, <2>4, <2>5, <2>6 DEF PMTAt
<1> QED BY <1>7, <1>8, <1>9

\* The lists of a program.
LEMMA ProgNames ==
    ASSUME NEW p \in Nat
    PROVE  <<"PCRPID", p>> \in Names /\ <<"ESPID", p>> \in Names /\ <<"PS_ECMPID", p>> \in Names
BY DEF Names, Types

\* One list is put behind what was there, the others are as they were.
LEMMA WithFacts ==
    ASSUME NEW W \in [Names -> Seq(Nat)], NEW n \in Names, NEW s \in Seq(Nat)
    PROVE  /\ With(W, n, s) \in [Names -> Seq(Nat)] /\ With(W, n, s)[n] = W[n] \o s
           /\ (W[n] = << >> => With(W, n, s)[n] = s)
           /\ \A m \in Names : m # n => With(W, n, s)[m] = W[m]
<1>1. W[n] \in Seq(Nat)
  OBVIOUS
<1>2. PICK q \in Seq(Nat) : q = W[n]
  BY <1>1
<1>3. q \o s \in Seq(Nat) /\ (q = << >> => q \o s = s)
  OBVIOUS
<1>4. With(W, n, s) \in [Names -> Seq(Nat)]
  BY <1>2, <1>3 DEF With
<1>5. With(W, n, s)[n] = W[n] \o s /\ \A m \in Names : m # n => With(W, n, s)[m] = W[m]
  BY Zenon DEF With
<1> QED BY <1>2, <1>3, <1>4, <1>5

\* Sequences with the same members are the same.
LEMMA SameSequence ==
    ASSUME NEW a \in Seq(Nat), NEW b \in Seq(Nat), Len(a) = Len(b), \A k \in 1 .. Len(a) : a[k] = b[k]
    PROVE  a = b
OBVIOUS

\* A sequence of length one.
LEMMA SingleSequence ==
    ASSUME NEW a \in Seq(Nat), Len(a) = 1
    PROVE  a # << >> /\ a = <<a[1]>>
<1>1. a[1] \in Nat
  <2>1. 1 \in 1 .. Len(a)
    OBVIOUS
  <2> QED BY Zenon, <2>1, ElementOfSeq
<1>2. PICK x \in Nat : x = a[1]
  BY <1>1
<1>3. PICK b : b = <<x>>
  BY Zenon
<1>4. b \in Seq(Nat) /\ Len(b) = 1 /\ b[1] = x
  BY <1>3
<1>5. \A k \in 1 .. Len(a) : a[k] = b[k]
  BY <1>2, <1>4
<1>6. a = b
  BY <1>4, <1>5, SameSequence
<1>7. a # << >>
  <2>1. Len(<< >>) = 0
    OBVIOUS
  <2>2. Len(a) # 0
    OBVIOUS
  <2> QED BY Zenon, <2>1, <2>2
<1> QED BY <1>2, <1>3, <1>6, <1>7

\* The program's own ECMs are in place.
CasDone(t, w, P, V, p, mx, es, cas) ==
    /\ Layout(w, P, V, {}, Open(p), {})
    /\ cas \in Seq(Nat) /\ Len(cas) = Len(mx.cas) /\ w.ts = t.ts /\ w.prog = t.prog
    /\ \A k \in 1 .. Len(es) : w.pid[es[k]].next = After(es, k)
    /\ \A k \in 1 .. Len(cas) : w.pid[cas[k]].next = After(cas, k)

\* The ECMs of the program itself take the last part of the indices.
LEMMA PMTCas ==
    ASSUME NEW t, NEW P, NEW W, NEW p, NEW mx, NEW new, NEW off, NEW es, PMTFor(t, p, mx, new, off, es),
           NEW v, NEW V, PMTAt(t, v, P, W, V, p, new, off, es, Len(mx.es)), W[<<"PS_ECMPID", p>>] = << >>,
           NEW cas, Slice(cas, new, off[Len(mx.es)] + 1, Len(new)),
           NEW w, w = PutPIDs(v, "PS_ECMPID", t.prog[p].ts, p, INDEX_INVALID_VALUE, cas, mx.cas)
    PROVE  CasDone(t, w, P, With(V, <<"PS_ECMPID", p>>, cas), p, mx, es, cas)
<1>1. PICK a \in Nat, b \in Nat, c \in Nat : a = Len(mx.es) /\ b = off[a] /\ c = Len(mx.cas)
  <2>1. Len(mx.es) \in Nat /\ Len(mx.cas) \in Nat
    BY DEF PMTFor, AirProg
  <2>2. Len(mx.es) \in 0 .. Len(mx.es)
    BY <2>1
  <2>3. off[Len(mx.es)] \in Nat
    BY <2>2 DEF PMTFor, Offsets
  <2> QED BY <2>1, <2>3, Zenon
<1>2. /\ new \in Seq(Nat) /\ Distinct(new) /\ Len(new) = b + c
      /\ \A k \in 1 .. Len(new) : new[k] \in DOMAIN t.pid
  BY <1>1 DEF PMTFor
<1>3. Slice(cas, new, b + 1, b + c)
  BY <1>1, <1>2
<1>4. cas \in Seq(Nat) /\ Len(cas) = c /\ Distinct(cas)
  <2>1. Len(cas) = (b + c) - (b + 1) + 1
    BY <1>3 DEF Slice
  <2> QED BY <1>3, <2>1 DEF Slice
<1>5. ASSUME NEW k \in 1 .. Len(cas)
      PROVE  cas[k] = new[b + k] /\ b + k \in 1 .. Len(new) /\ b + k > b
  <2>1. (b + 1) + k - 1 = b + k /\ b + k > b
    BY <1>4
  <2> QED BY <1>3, <2>1 DEF Slice
<1>6. Layout(v, P, V, {}, Open(p), {}) /\ v.ts = t.ts /\ v.prog = t.prog /\ DOMAIN v.pid = DOMAIN t.pid
  BY DEF PMTAt
<1>7. p \in DOMAIN v.prog /\ v.prog[p].valid /\ Shape(v) /\ p \in Nat /\ v.prog[p].ts \in Nat
  <2>1. p \in DOMAIN v.prog /\ v.prog[p].valid /\ Shape(v)
    BY <1>6 DEF PMTFor, Layout
  <2> QED BY <2>1, ShapeFacts DEF ProgRec
<1>8. \A k \in 1 .. Len(cas) : cas[k] \in DOMAIN v.pid /\ ~v.pid[cas[k]].valid
  <2>1. \A x \in 1 .. Len(new) : x > b => ~v.pid[new[x]].valid
    BY <1>1, Zenon DEF PMTAt
  <2> QED BY <1>2, <1>5, <1>6, <2>1, Zenon
<1>9. PutPIDsDone(v, w, "PS_ECMPID", v.prog[p].ts, p, INDEX_INVALID_VALUE, cas)
  <2>1. "PS_ECMPID" \in Types /\ INDEX_INVALID_VALUE \in Nat
    BY DEF Types, INDEX_INVALID_VALUE
  <2>2. mx.cas \in Seq(Nat) /\ Len(mx.cas) = Len(cas)
    BY <1>1, <1>4 DEF PMTFor, AirProg
  <2>3. PICK ts \in Nat : ts = v.prog[p].ts
    BY <1>7
  <2>4. w = PutPIDs(v, "PS_ECMPID", ts, p, INDEX_INVALID_VALUE, cas, mx.cas)
    BY <1>6, <2>3
  <2>5. PutPIDsDone(v, w, "PS_ECMPID", ts, p, INDEX_INVALID_VALUE, cas)
    BY <1>4, <1>7, <1>8, <2>1, <2>2, <2>4, PutPIDsAre, ZenonT(60)
  <2> QED BY <2>3, <2>5
<1>10. <<"PS_ECMPID", p>> \in Open(p)
  BY DEF Open
<1>11. V[<<"PS_ECMPID", p>>] = << >>
  <2>1. <<"PS_ECMPID", p>> \in Names /\ <<"PS_ECMPID", p>> # <<"ESPID", p>> /\ <<"PS_ECMPID", p>>[1] # "ES_ECMPID"
    BY <1>7, ProgNames, Zenon
  <2>2. V[<<"PS_ECMPID", p>>] = W[<<"PS_ECMPID", p>>]
    BY <2>1 DEF PMTAt
  <2> QED BY <2>2
<1>12. Len(V[<<"PS_ECMPID", p>>]) + Len(cas) < MAX_INDEX_LIST_NUMBER
  <2>1. Len(V[<<"PS_ECMPID", p>>]) = 0
    BY <1>11
  <2>2. 1 + a + c <= MAX_INDEX_LIST_NUMBER
    BY <1>1, Zenon DEF PMTFor
  <2>3. MAX_INDEX_LIST_NUMBER \in Nat
    BY TableAssumption
  <2> QED BY <1>4, <2>1, <2>2, <2>3
<1>13. Layout(w, P, With(V, <<"PS_ECMPID", p>>, cas), {}, Open(p), {})
  <2>1. "PS_ECMPID" \in {"PCRPID", "PS_ECMPID"}
    OBVIOUS
  <2> QED BY <1>4, <1>6, <1>7, <1>8, <1>9, <1>10, <1>12, <2>1, PutList, Zenon
<1>14. w.ts = t.ts /\ w.prog = t.prog /\ \A k \in 1 .. Len(cas) : w.pid[cas[k]].next = After(cas, k)
  BY <1>6, <1>9, Zenon DEF PutPIDsDone, PutAt, NewEntry
<1>15. ASSUME NEW k \in 1 .. Len(es) PROVE w.pid[es[k]].next = After(es, k)
  <2>1. Len(es) = a /\ es[k] = new[off[k - 1] + 1] /\ k \in 1 .. Len(mx.es)
    BY <1>1 DEF PMTFor
  <2>2. PICK x \in Nat : x = off[k - 1] /\ x + 1 <= b
    <3>1. off[k - 1] \in Nat /\ off[k] = off[k - 1] + 1 + Len(mx.es[k].ecm) /\ off[k] <= off[a] /\ off[k] \in Nat
      <4>1. k \in 1 .. Len(mx.es) /\ k \in 0 .. Len(mx.es)
        BY <1>1, <2>1
      <4> QED BY <1>1, <4>1 DEF PMTFor, Offsets
    <3>2. Len(mx.es[k].ecm) \in Nat
      <4>1. mx.es \in Seq(AirStream)
        BY DEF PMTFor, AirProg
      <4>2. mx.es[k] \in AirStream
        BY <2>1, <4>1
      <4> QED BY <4>2 DEF AirStream
    <3>3. PICK x \in Nat, y \in Nat, z \in Nat : x = off[k - 1] /\ y = off[k] /\ z = Len(mx.es[k].ecm)
      BY <3>1, <3>2, Zenon
    <3>4. y = x + 1 + z /\ y <= b
      BY <1>1, <3>1, <3>3
    <3>5. x + 1 <= b
      BY <3>4
    <3> QED BY <3>3, <3>5, Zenon
  <2>3. x + 1 \in 1 .. Len(new)
    BY <1>2, <2>2, SMTT(30)
  <2>4. v.pid[es[k]].next = After(es, k)
    <3>1. k \in 1 .. Len(mx.es)
      BY <2>1
    <3> QED BY <3>1 DEF PMTAt
  <2>5. ASSUME NEW m \in 1 .. Len(cas) PROVE cas[m] # es[k]
    <3>1. cas[m] = new[b + m] /\ b + m \in 1 .. Len(new) /\ b + m > b
      BY <1>5
    <3>2. b + m # x + 1
      BY <2>2, <3>1
    <3> QED BY <1>2, <2>1, <2>2, <2>3, <3>1, <3>2, Zenon DEF Distinct
  <2>6. es[k] \in DOMAIN v.pid
    BY <1>2, <1>6, <2>1, <2>2, <2>3, Zenon
  <2>7. w.pid[es[k]] = v.pid[es[k]]
    BY <1>9, <2>5, <2>6 DEF PutPIDsDone, PutAt
  <2> QED BY <2>4, <2>7
<1> QED BY <1>1, <1>4, <1>13, <1>14, <1>15 DEF CasDone

\* The PCR, the streams with their ECMs and the ECMs of a program, linked and headed: its lists are closed.
LEMMA PutPMTDone ==
    ASSUME NEW t, NEW P, NEW W, Layout(t, P, W, {}, {}, {}), NEW p \in DOMAIN t.prog, t.prog[p].valid, NoLists(W, p),
           NEW mx \in AirProg, PMTFits(mx), NEW off, Offsets(mx, off),
           NEW new, Fresh(t.pid, new, off[Len(mx.es)] + Len(mx.cas))
    PROVE  PMTDone(PutPMT(t, p, mx, new, off), t, P, W, p, mx)
<1>1. PICK pcr, es, cas : pcr = SubSeq(new, 1, HasPCR(mx)) /\ es = StreamsAt(mx, new, off)
                          /\ cas = SubSeq(new, off[Len(mx.es)] + 1, Len(new))
  BY Zenon
<1>2. PICK t0 : t0 = PutPIDs(t, "PCRPID", t.prog[p].ts, p, INDEX_INVALID_VALUE, pcr, <<mx.pcr>>)
  OBVIOUS
<1>3. PICK g : /\ PutStreams(g, t0, Numbers(mx.es), p, mx, new, off, es)
               /\ PutPMT(t, p, mx, new, off) =
                    IF g[Len(mx.es)].err = "SUCCESS"
                    THEN Ok(SetHeads(PutPIDs(g[Len(mx.es)].t, "PS_ECMPID", t.prog[p].ts, p, INDEX_INVALID_VALUE, cas, mx.cas),
                                     p, pcr, es, cas))
                    ELSE g[Len(mx.es)]
  BY Zenon, <1>1, <1>2, PutPMTRaw
<1>4. PICK W0 : W0 = With(W, <<"PCRPID", p>>, pcr)
  OBVIOUS
<1>5. PCRDone(t, t0, P, W, p, mx, new, pcr) /\ PMTFor(t, p, mx, new, off, es) /\ PMTAt(t, t0, P, W0, W0, p, new, off, es, 0)
  BY <1>1, <1>2, <1>4, PMTStart, Zenon
<1>6. PICK v : v = g[Len(mx.es)].t
  OBVIOUS
<1>7. g[Len(mx.es)].err = "SUCCESS" /\ \E V : PMTAt(t, v, P, W0, V, p, new, off, es, Len(mx.es))
  BY <1>3, <1>5, <1>6, PMTLoop, Zenon
<1>8. PICK V : PMTAt(t, v, P, W0, V, p, new, off, es, Len(mx.es))
  BY <1>7
<1>9. PICK w : w = PutPIDs(v, "PS_ECMPID", t.prog[p].ts, p, INDEX_INVALID_VALUE, cas, mx.cas)
  OBVIOUS
<1>10. PICK u : u = SetHeads(w, p, pcr, es, cas)
  OBVIOUS
<1>11. PutPMT(t, p, mx, new, off) = Ok(u)
  BY <1>3, <1>6, <1>7, <1>9, <1>10
<1>12. W \in [Names -> Seq(Nat)] /\ p \in Nat
  BY ShapeFacts, Zenon DEF Layout, Placed
<1>13. pcr \in Seq(Nat)
  BY <1>5 DEF PCRDone, Slice
<1>14. W0[<<"PS_ECMPID", p>>] = << >> /\ W0[<<"PCRPID", p>>] = pcr /\ W0[<<"ESPID", p>>] = << >>
       /\ W0 \in [Names -> Seq(Nat)]
       /\ \A n \in Names : n # <<"PCRPID", p>> => W0[n] = W[n]
  <2>1. <<"PCRPID", p>> # <<"PS_ECMPID", p>> /\ <<"PCRPID", p>> # <<"ESPID", p>>
    OBVIOUS
  <2>2. W0 \in [Names -> Seq(Nat)] /\ \A n \in Names : n # <<"PCRPID", p>> => W0[n] = W[n]
    BY <1>4, <1>12, <1>13, ProgNames, WithFacts, ZenonT(60)
  <2>3. W0[<<"PCRPID", p>>] = pcr
    BY <1>4, <1>12, <1>13, ProgNames, WithFacts, Zenon DEF NoLists
  <2> QED BY <1>12, <2>1, <2>2, <2>3, ProgNames DEF NoLists
<1>15. Slice(cas, new, off[Len(mx.es)] + 1, Len(new))
  <2>1. PICK b \in Nat, c \in Nat : b = off[Len(mx.es)] /\ c = Len(mx.cas)
    <3>1. Len(mx.es) \in Nat /\ Len(mx.cas) \in Nat
      BY DEF AirProg
    <3>2. Len(mx.es) \in 0 .. Len(mx.es)
      BY <3>1
    <3>3. off[Len(mx.es)] \in Nat
      BY <3>2 DEF Offsets
    <3> QED BY <3>1, <3>3
  <2>2. new \in Seq(Nat) /\ Len(new) = b + c /\ Distinct(new)
    BY <1>5, <2>1 DEF PMTFor
  <2>3. b + 1 \in Nat \ {0} /\ Len(new) \in Nat /\ b + 1 <= Len(new) + 1 /\ Len(new) <= Len(new)
    BY <2>2
  <2>4. Slice(SubSeq(new, b + 1, Len(new)), new, b + 1, Len(new))
    BY <2>2, <2>3, SliceFacts
  <2> QED BY <1>1, <2>1, <2>4
<1>16. PICK V2 : V2 = With(V, <<"PS_ECMPID", p>>, cas)
  OBVIOUS
<1>17. /\ Layout(w, P, V2, {}, Open(p), {})
       /\ cas \in Seq(Nat) /\ Len(cas) = Len(mx.cas) /\ w.ts = t.ts /\ w.prog = t.prog
       /\ \A k \in 1 .. Len(es) : w.pid[es[k]].next = After(es, k)
       /\ \A k \in 1 .. Len(cas) : w.pid[cas[k]].next = After(cas, k)
  <2>1. CasDone(t, w, P, V2, p, mx, es, cas)
    BY <1>5, <1>8, <1>9, <1>14, <1>15, <1>16, PMTCas, Zenon
  <2> QED BY <2>1 DEF CasDone
<1>18. es \in Seq(Nat) /\ Len(es) = Len(mx.es)
  BY <1>5 DEF PMTFor
<1>19. Layout(v, P, V, {}, Open(p), {}) /\ V \in [Names -> Seq(Nat)]
  BY <1>8, Zenon DEF PMTAt, Layout, Placed
<1>20. /\ V2[<<"PCRPID", p>>] = pcr /\ V2[<<"ESPID", p>>] = es /\ V2[<<"PS_ECMPID", p>>] = cas
       /\ \A n \in Names : n \notin Open(p) /\ n[1] # "ES_ECMPID" => V2[n] = W[n]
  <2>1. V[<<"PCRPID", p>>] = pcr /\ V[<<"PS_ECMPID", p>>] = << >>
    <3>1. \A n \in Names : n # <<"ESPID", p>> /\ n[1] # "ES_ECMPID" => V[n] = W0[n]
      BY <1>8 DEF PMTAt
    <3>2. <<"PCRPID", p>>[1] = "PCRPID" /\ <<"PS_ECMPID", p>>[1] = "PS_ECMPID"
      OBVIOUS
    <3> QED BY <1>12, <1>14, <3>1, <3>2, ProgNames, Zenon
  <2>2. V[<<"ESPID", p>>] = es
    <3>1. V[<<"ESPID", p>>] \in Seq(Nat)
      BY <1>12, <1>19, ProgNames, Zenon
    <3>2. Len(V[<<"ESPID", p>>]) = Len(mx.es) /\ \A x \in 1 .. Len(mx.es) : V[<<"ESPID", p>>][x] = es[x]
      BY <1>8 DEF PMTAt
    <3> QED BY <1>18, <3>1, <3>2, SameSequence, Zenon
  <2>3. <<"PCRPID", p>> # <<"PS_ECMPID", p>> /\ <<"ESPID", p>> # <<"PS_ECMPID", p>>
    OBVIOUS
  <2>4. V2[<<"PS_ECMPID", p>>] = cas /\ \A n \in Names : n # <<"PS_ECMPID", p>> => V2[n] = V[n]
    <3>1. PICK n : n = <<"PS_ECMPID", p>>
      BY Zenon
    <3>2. n \in Names /\ V[n] = << >> /\ V2 = With(V, n, cas)
      BY <1>12, <1>16, <2>1, <3>1, ProgNames, Zenon
    <3>3. With(V, n, cas)[n] = cas /\ \A m \in Names : m # n => With(V, n, cas)[m] = V[m]
      BY <1>17, <1>19, <3>2, WithFacts, Zenon
    <3> QED BY <3>1, <3>2, <3>3
  <2>5. ASSUME NEW n \in Names, n \notin Open(p), n[1] # "ES_ECMPID" PROVE V2[n] = W[n]
    <3>1. n # <<"PS_ECMPID", p>> /\ n # <<"ESPID", p>> /\ n # <<"PCRPID", p>>
      BY <2>5 DEF Open
    <3>2. V2[n] = V[n] /\ V[n] = W0[n] /\ W0[n] = W[n]
      BY <1>8, <1>14, <2>4, <2>5, <3>1 DEF PMTAt
    <3> QED BY <3>2
  <2> QED BY <1>12, <2>1, <2>2, <2>3, <2>4, <2>5, ProgNames, Zenon
<1>21. Shape(w) /\ p \in DOMAIN w.prog
  BY <1>17 DEF Layout
<1>22. /\ Shape(u) /\ u.ts = w.ts /\ u.pid = w.pid /\ DOMAIN u.prog = DOMAIN w.prog
       /\ \A q \in DOMAIN w.prog : q # p => u.prog[q] = w.prog[q]
       /\ u.prog[p].valid = w.prog[p].valid
       /\ u.prog[p].pcr = ListAt(pcr).head /\ u.prog[p].es = ListAt(es) /\ u.prog[p].psecm = ListAt(cas)
  BY <1>10, <1>13, <1>17, <1>18, <1>21, SetHeadsFacts
<1>23. Layout(u, P, V2, {}, Open(p), {})
  BY <1>10, <1>13, <1>17, <1>18, <1>21, SetHeadsTouched
<1>24. Layout(u, P, V2, {}, {}, {})
  <2>1. Chain(u.pid, u.prog[p].es, V2[<<"ESPID", p>>])
    <3>1. \A k \in 1 .. Len(es) : u.pid[es[k]].next = After(es, k)
      BY <1>17, <1>22
    <3>2. Chain(u.pid, ListAt(es), es)
      BY <1>18, <3>1, ListAtFacts
    <3> QED BY <1>20, <1>22, <3>2
  <2>2. Chain(u.pid, u.prog[p].psecm, V2[<<"PS_ECMPID", p>>])
    <3>1. \A k \in 1 .. Len(cas) : u.pid[cas[k]].next = After(cas, k)
      BY <1>17, <1>22
    <3>2. Chain(u.pid, ListAt(cas), cas)
      BY <1>17, <3>1, ListAtFacts
    <3> QED BY <1>20, <1>22, <3>2
  <2>3. (pcr = << >> /\ ListAt(pcr).head = INDEX_INVALID_VALUE) \/ pcr = <<ListAt(pcr).head>>
    <3>1. Len(pcr) \in 0 .. 1
      <4>1. Len(pcr) = HasPCR(mx) - 1 + 1 /\ HasPCR(mx) \in 0 .. 1
        BY <1>5 DEF PCRDone, Slice
      <4> QED BY <4>1
    <3>2. ListAt(pcr).head = IF pcr = << >> THEN INDEX_INVALID_VALUE ELSE pcr[1]
      BY DEF ListAt
    <3>3. CASE Len(pcr) = 0
      <4>1. pcr = << >>
        BY <1>13, <3>3
      <4> QED BY <3>2, <4>1
    <3>4. CASE Len(pcr) = 1
      <4>1. pcr # << >> /\ pcr = <<pcr[1]>>
        BY <1>13, <3>4, SingleSequence
      <4> QED BY <3>2, <4>1
    <3> QED BY <3>1, <3>3, <3>4
  <2>4. (V2[<<"PCRPID", p>>] = << >> /\ u.prog[p].pcr = INDEX_INVALID_VALUE) \/ V2[<<"PCRPID", p>>] = <<u.prog[p].pcr>>
    BY <1>20, <1>22, <2>3
  <2>5. p \in DOMAIN u.prog
    BY <1>21, <1>22
  <2> QED BY <1>23, <2>1, <2>2, <2>4, <2>5, CloseProg
<1>25. \A q \in DOMAIN t.prog : u.prog[q].valid = t.prog[q].valid
  BY <1>17, <1>22
<1>26. PICK r : r = PutPMT(t, p, mx, new, off)
  OBVIOUS
<1>27. r.t = u
  BY <1>11, <1>26 DEF Ok
<1>28. /\ Len(V2[<<"ESPID", p>>]) = Len(mx.es) /\ Len(V2[<<"PS_ECMPID", p>>]) = Len(mx.cas)
       /\ u.ts = t.ts /\ DOMAIN u.prog = DOMAIN t.prog
  BY <1>17, <1>18, <1>20, <1>22
<1> QED BY <1>20, <1>24, <1>25, <1>26, <1>27, <1>28 DEF PMTDone

\* More room changes nothing.
LEMMA PMTGrown ==
    ASSUME NEW t, NEW u, u.ts = t.ts, u.prog = t.prog, NEW r, NEW P, NEW W, NEW p, NEW mx, PMTDone(r, u, P, W, p, mx)
    PROVE  PMTDone(r, t, P, W, p, mx)
BY DEF PMTDone

\* SetInputPMTInfo: the program has the lists of its PMT, or none and an error.
LEMMA PMTInfo ==
    ASSUME NEW t, NEW P, NEW W, Layout(t, P, W, {}, {}, {}), NEW p \in DOMAIN t.prog, t.prog[p].valid, NoLists(W, p),
           NEW mx \in AirProg, PMTFits(mx)
    PROVE  PMTDone(SetInputPMTInfo(t, p, mx), t, P, W, p, mx)
<1>1. PICK need : need = Offset(mx)[Len(mx.es)] + Len(mx.cas)
  OBVIOUS
<1>2. PICK off : off = Offset(mx)
  OBVIOUS
<1>3. Offsets(mx, off)
  BY <1>2, OffsetFacts
<1>4. need \in Nat
  <2>1. Len(mx.es) \in Nat /\ Len(mx.cas) \in Nat
    BY DEF AirProg
  <2>2. Len(mx.es) \in 0 .. Len(mx.es)
    BY <2>1
  <2>3. off[Len(mx.es)] \in Nat
    BY <1>3, <2>2 DEF Offsets
  <2> QED BY <1>1, <1>2, <2>1, <2>3
<1>5. PICK a : a = UnusedPIDs(t, need)
  OBVIOUS
<1>6. PICK r : r = SetInputPMTInfo(t, p, mx)
  OBVIOUS
<1>7. r = IF a.err = "SUCCESS" THEN PutPMT(a.t, p, mx, a.list, off) ELSE Err(a.err, a.t)
  <2>1. SetInputPMTInfo(t, p, mx) =
          IF UnusedPIDs(t, Offset(mx)[Len(mx.es)] + Len(mx.cas)).err = "SUCCESS"
          THEN PutPMT(UnusedPIDs(t, Offset(mx)[Len(mx.es)] + Len(mx.cas)).t, p, mx,
                      UnusedPIDs(t, Offset(mx)[Len(mx.es)] + Len(mx.cas)).list, Offset(mx))
          ELSE Err(UnusedPIDs(t, Offset(mx)[Len(mx.es)] + Len(mx.cas)).err,
                   UnusedPIDs(t, Offset(mx)[Len(mx.es)] + Len(mx.cas)).t)
    BY Zenon DEF SetInputPMTInfo, Using
  <2> QED BY <1>1, <1>2, <1>5, <1>6, <2>1
<1>8. CASE a.err # "SUCCESS"
  <2>1. r.err # "SUCCESS"
    BY <1>7, <1>8 DEF Err
  <2> QED BY <1>6, <2>1 DEF PMTDone
<1>9. CASE a.err = "SUCCESS"
  <2>1. need <= MAX_INDEX_LIST_NUMBER
    <3>1. MAX_INDEX_LIST_NUMBER \in Nat
      BY TableAssumption
    <3>2. need > MAX_INDEX_LIST_NUMBER => a.err = "INPUT_PARAM"
      BY <1>5 DEF UnusedPIDs
    <3> QED BY <1>4, <1>9, <3>1, <3>2
  <2>2. Shape(t)
    BY DEF Layout
  <2>3. GrowsPIDs(t, a, need)
    BY <1>4, <1>5, <2>1, <2>2, NewPIDs
  <2>4. Grows(t, a.t) /\ a.t.prog = t.prog /\ Fresh(a.t.pid, a.list, need) /\ a.t.ts = t.ts
    BY <2>3 DEF GrowsPIDs, Grows
  <2>5. PICK u, new : u = a.t /\ new = a.list
    OBVIOUS
  <2>6. Layout(u, P, W, {}, {}, {})
    <3>1. \A j \in {} : j \in DOMAIN t.pid
      OBVIOUS
    <3> QED BY <2>4, <2>5, <3>1, MorePIDs
  <2>7. p \in DOMAIN u.prog /\ u.prog[p].valid
    BY <2>4, <2>5
  <2>8. Fresh(u.pid, new, off[Len(mx.es)] + Len(mx.cas))
    BY <1>1, <1>2, <2>4, <2>5
  <2>9. PMTDone(PutPMT(u, p, mx, new, off), u, P, W, p, mx)
    BY <1>3, <2>6, <2>7, <2>8, PutPMTDone
  <2>10. PMTDone(r, u, P, W, p, mx)
    BY <1>7, <1>9, <2>5, <2>9
  <2>11. u.ts = t.ts /\ u.prog = t.prog
    BY <2>4, <2>5
  <2> QED BY <1>6, <2>10, <2>11, PMTGrown
<1> QED BY <1>8, <1>9

\* One round of the loop over the programs.
OnePMT(u, progs, mult, k) == IF mult.progs[k].pmt THEN SetInputPMTInfo(u, progs[k], mult.progs[k]) ELSE Ok(u)

PMTs(g, t, seq, progs, mult) ==
    /\ g[0] = Ok(t)
    /\ \A k \in 1 .. Len(seq) :
        g[k] = IF g[k - 1].err = "SUCCESS" THEN OnePMT(g[k - 1].t, progs, mult, seq[k]) ELSE g[k - 1]

PMTsLoop(t, seq, progs, mult) == ForEach(t, seq, LAMBDA u, k : OnePMT(u, progs, mult, k))

\* The PMTs in turn.
LEMMA PMTsDef ==
    ASSUME NEW t, NEW seq, Len(seq) \in Nat, NEW progs, NEW mult
    PROVE  \E g : /\ PMTs(g, t, seq, progs, mult)
                  /\ PMTsLoop(t, seq, progs, mult) = g[Len(seq)]
<1> DEFINE n == Len(seq)
           Fit(g, m) == g = [k \in 0 .. m |->
               IF k = 0 THEN Ok(t)
               ELSE IF g[k - 1].err = "SUCCESS" THEN OnePMT(g[k - 1].t, progs, mult, seq[k]) ELSE g[k - 1]]
           G == {m \in 0 .. n : \E g : Fit(g, m)}
<1>0. n \in Nat
  OBVIOUS
<1>1. 0 \in G
  <2> DEFINE z == [k \in 0 .. 0 |-> Ok(t)]
  <2>1. Fit(z, 0)
    OBVIOUS
  <2> HIDE DEF z, Fit
  <2> QED BY <2>1
<1>2. ASSUME NEW m \in 1 .. n, m - 1 \in G PROVE m \in G
  <2>1. PICK g : Fit(g, m - 1)
    BY <1>2
  <2> DEFINE h == [k \in 0 .. m |->
               IF k = 0 THEN Ok(t)
               ELSE IF g[k - 1].err = "SUCCESS" THEN OnePMT(g[k - 1].t, progs, mult, seq[k]) ELSE g[k - 1]]
  <2>2. \A k \in 0 .. m - 1 : h[k] = g[k]
    BY <2>1
  <2>3. Fit(h, m)
    <3>1. \A k \in 0 .. m : k # 0 => k - 1 \in 0 .. m - 1
      OBVIOUS
    <3> QED BY <2>2, <3>1, ZenonT(30)
  <2> HIDE DEF h
  <2> QED BY <2>3
<1>3. n \in G
  <2> HIDE DEF G
  <2>1. G \in SUBSET (0 .. n)
    BY DEF G
  <2> HIDE DEF n
  <2>2. \A m \in 1 .. n : m - 1 \in G => m \in G
    BY <1>2
  <2>3. \A m \in 0 .. n : m \in G
    BY <1>0, <1>1, <2>1, <2>2, Upwards, Zenon
  <2> QED BY <1>0, <2>3
<1> DEFINE after == CHOOSE after : Fit(after, n)
<1>4. Fit(after, n)
  <2> HIDE DEF Fit
  <2> QED BY <1>3
<1>5. PMTsLoop(t, seq, progs, mult) = after[n]
  BY Zenon DEF PMTsLoop, ForEach, Then
<1> HIDE DEF after
<1>6. PMTs(after, t, seq, progs, mult)
  BY <1>4 DEF PMTs
<1> QED BY <1>5, <1>6

\* A program whose lists can be copied.
ProgFits(V, p) == 1 + Len(V[<<"ESPID", p>>]) + Len(V[<<"PS_ECMPID", p>>]) <= MAX_INDEX_LIST_NUMBER

\* The programs at the first k of the indices s are in place.
ProgsAt(t, u, P, W, s, k) ==
    /\ u.ts = t.ts /\ DOMAIN u.prog = DOMAIN t.prog
    /\ \A q \in DOMAIN t.prog : u.prog[q].valid = t.prog[q].valid
    /\ \E V : /\ Layout(u, P, V, {}, {}, {})
              /\ \A x \in 1 .. k : ProgFits(V, s[x])
              /\ \A x \in 1 .. Len(s) : x > k => NoLists(V, s[x])
              /\ \A n \in Names : n[1] \in TSType => V[n] = W[n]

\* The k-th program gets its lists, those before it keep theirs.
LEMMA OnePMTDone ==
    ASSUME NEW t, NEW P, NEW W, NEW s \in Seq(Nat), Distinct(s), \A k \in 1 .. Len(s) : s[k] \in DOMAIN t.prog /\ t.prog[s[k]].valid,
           NEW mult, ScanFits(mult), Len(s) <= Len(mult.progs),
           NEW k \in 1 .. Len(s), NEW u, ProgsAt(t, u, P, W, s, k - 1), NEW r, r = OnePMT(u, s, mult, k), r.err = "SUCCESS"
    PROVE  ProgsAt(t, r.t, P, W, s, k)
<1>1. PICK V : /\ Layout(u, P, V, {}, {}, {})
               /\ \A x \in 1 .. k - 1 : ProgFits(V, s[x])
               /\ \A x \in 1 .. Len(s) : x > k - 1 => NoLists(V, s[x])
               /\ \A n \in Names : n[1] \in TSType => V[n] = W[n]
  BY DEF ProgsAt
<1>2. /\ u.ts = t.ts /\ DOMAIN u.prog = DOMAIN t.prog
      /\ \A q \in DOMAIN t.prog : u.prog[q].valid = t.prog[q].valid
  BY DEF ProgsAt
<1>3. PICK p \in Nat : p = s[k]
  OBVIOUS
<1>4. p \in DOMAIN u.prog /\ u.prog[p].valid /\ NoLists(V, p)
  BY <1>1, <1>2, <1>3
<1>5. PICK mx : mx = mult.progs[k]
  OBVIOUS
<1>6. mx \in AirProg /\ PMTFits(mx)
  <2>1. k \in 1 .. Len(mult.progs)
    <3>1. PICK a \in Nat, b \in Nat : a = Len(s) /\ b = Len(mult.progs)
      BY DEF ScanFits, Multiplex
    <3> QED BY <3>1
  <2>2. mult.progs \in Seq(AirProg)
    BY DEF ScanFits, Multiplex
  <2> QED BY <1>5, <2>1, <2>2 DEF ScanFits
<1>7. V \in [Names -> Seq(Nat)]
  BY <1>1 DEF Layout, Placed
<1>8. \A x \in 1 .. Len(s) : x > k => x > k - 1 /\ s[x] # p
  BY <1>3 DEF Distinct
<1>9. CASE mx.pmt
  <2>1. r = SetInputPMTInfo(u, p, mx)
    BY <1>3, <1>5, <1>9 DEF OnePMT
  <2>2. PMTDone(r, u, P, V, p, mx)
    BY <1>1, <1>4, <1>6, <2>1, PMTInfo
  <2>3. /\ r.t.ts = u.ts /\ DOMAIN r.t.prog = DOMAIN u.prog
        /\ \A q \in DOMAIN u.prog : r.t.prog[q].valid = u.prog[q].valid
    BY <2>2 DEF PMTDone
  <2>4. PICK V2 : /\ Layout(r.t, P, V2, {}, {}, {})
                  /\ Len(V2[<<"ESPID", p>>]) = Len(mx.es) /\ Len(V2[<<"PS_ECMPID", p>>]) = Len(mx.cas)
                  /\ \A n \in Names : n \notin Open(p) /\ n[1] # "ES_ECMPID" => V2[n] = V[n]
    BY <2>2, Zenon DEF PMTDone
  <2>5. ASSUME NEW q \in Nat, q # p
        PROVE  /\ V2[<<"PCRPID", q>>] = V[<<"PCRPID", q>>] /\ V2[<<"ESPID", q>>] = V[<<"ESPID", q>>]
               /\ V2[<<"PS_ECMPID", q>>] = V[<<"PS_ECMPID", q>>]
    <3>1. <<"PCRPID", q>> \notin Open(p) /\ <<"ESPID", q>> \notin Open(p) /\ <<"PS_ECMPID", q>> \notin Open(p)
      BY <2>5 DEF Open
    <3>2. <<"PCRPID", q>> \in Names /\ <<"ESPID", q>> \in Names /\ <<"PS_ECMPID", q>> \in Names
      BY ProgNames
    <3> QED BY <2>4, <3>1, <3>2, Zenon
  <2>6. ASSUME NEW x \in 1 .. k PROVE ProgFits(V2, s[x])
    <3>1. CASE x = k
      <4>1. ProgFits(V2, p)
        BY <1>6, <2>4, Zenon DEF ProgFits, PMTFits
      <4> QED BY <1>3, <3>1, <4>1
    <3>2. CASE x # k
      <4>1. x \in 1 .. k - 1 /\ x \in 1 .. Len(s)
        BY <3>2
      <4>2. PICK q \in Nat : q = s[x]
        BY <4>1
      <4>3. q # p
        BY <1>3, <3>2, <4>1, <4>2 DEF Distinct
      <4>4. ProgFits(V, q)
        BY <1>1, <4>1, <4>2
      <4>5. ProgFits(V2, q)
        BY <2>5, <4>3, <4>4, Zenon DEF ProgFits
      <4> QED BY <4>2, <4>5
    <3> QED BY <3>1, <3>2
  <2>7. ASSUME NEW x \in 1 .. Len(s), x > k PROVE NoLists(V2, s[x])
    <3>1. PICK q \in Nat : q = s[x]
      OBVIOUS
    <3>2. q # p /\ NoLists(V, q)
      BY <1>1, <1>8, <2>7, <3>1
    <3>3. NoLists(V2, q)
      BY <2>5, <3>2, Zenon DEF NoLists
    <3> QED BY <3>1, <3>3
  <2>8. ASSUME NEW n \in Names, n[1] \in TSType PROVE V2[n] = W[n]
    <3>1. n \notin Open(p) /\ n[1] # "ES_ECMPID"
      BY <2>8 DEF Open, TSType
    <3> QED BY <1>1, <2>4, <2>8, <3>1
  <2>9. \E Z : /\ Layout(r.t, P, Z, {}, {}, {})
               /\ \A x \in 1 .. k : ProgFits(Z, s[x])
               /\ \A x \in 1 .. Len(s) : x > k => NoLists(Z, s[x])
               /\ \A n \in Names : n[1] \in TSType => Z[n] = W[n]
    BY <2>4, <2>6, <2>7, <2>8, Zenon
  <2>10. r.t.ts = t.ts /\ DOMAIN r.t.prog = DOMAIN t.prog
    BY <1>2, <2>3
  <2>11. \A q \in DOMAIN t.prog : r.t.prog[q].valid = t.prog[q].valid
    BY <1>2, <2>3
  <2> QED BY <2>9, <2>10, <2>11 DEF ProgsAt
<1>10. CASE ~mx.pmt
  <2>1. r = Ok(u)
    BY <1>5, <1>10 DEF OnePMT
  <2>2. r.t = u
    BY <2>1 DEF Ok
  <2>3. ProgFits(V, p)
    <3>1. Len(V[<<"ESPID", p>>]) = 0 /\ Len(V[<<"PS_ECMPID", p>>]) = 0
      BY <1>4 DEF NoLists
    <3> QED BY <3>1, TableAssumption DEF ProgFits
  <2>4. \A x \in 1 .. k : ProgFits(V, s[x])
    <3>1. \A x \in 1 .. k : x = k \/ x \in 1 .. k - 1
      OBVIOUS
    <3> QED BY <1>1, <1>3, <2>3, <3>1
  <2>5. \A x \in 1 .. Len(s) : x > k => NoLists(V, s[x])
    BY <1>1, <1>8
  <2> QED BY <1>1, <1>2, <2>2, <2>4, <2>5 DEF ProgsAt
<1> QED BY <1>9, <1>10

\* The PMTs of all programs.
LEMMA PMTsLoopDone ==
    ASSUME NEW t, NEW P, NEW W, NEW s \in Seq(Nat), Distinct(s), \A k \in 1 .. Len(s) : s[k] \in DOMAIN t.prog /\ t.prog[s[k]].valid,
           NEW mult, ScanFits(mult), Len(s) <= Len(mult.progs), ProgsAt(t, t, P, W, s, 0),
           NEW r, r = PMTsLoop(t, Numbers(s), s, mult)
    PROVE  r.err = "SUCCESS" => ProgsAt(t, r.t, P, W, s, Len(s))
<1>1. PICK b \in Nat : b = Len(s)
  OBVIOUS
<1>2. PICK seq : seq = Numbers(s)
  OBVIOUS
<1>3. Len(seq) = b /\ \A k \in 1 .. b : seq[k] = k
  BY <1>1, <1>2, NumbersFacts
<1>4. PICK g : PMTs(g, t, seq, s, mult) /\ PMTsLoop(t, seq, s, mult) = g[Len(seq)]
  <2>1. Len(seq) \in Nat
    BY <1>3
  <2> QED BY <2>1, PMTsDef
<1> DEFINE G == {k \in 0 .. b : g[k].err = "SUCCESS" => ProgsAt(t, g[k].t, P, W, s, k)}
<1>5. 0 \in G
  <2>1. g[0] = Ok(t)
    BY <1>4 DEF PMTs
  <2>2. g[0].t = t
    BY <2>1 DEF Ok
  <2> QED BY <2>2
<1>6. ASSUME NEW k \in 1 .. b, k - 1 \in G PROVE k \in G
  <2>1. g[k] = IF g[k - 1].err = "SUCCESS" THEN OnePMT(g[k - 1].t, s, mult, k) ELSE g[k - 1]
    <3>1. k \in 1 .. Len(seq) /\ seq[k] = k
      BY <1>3
    <3> QED BY <1>4, <3>1 DEF PMTs
  <2>2. PICK u, q : u = g[k - 1].t /\ q = g[k]
    OBVIOUS
  <2>3. CASE q.err # "SUCCESS"
    BY <2>2, <2>3
  <2>4. CASE q.err = "SUCCESS"
    <3>1. g[k - 1].err = "SUCCESS" /\ q = OnePMT(u, s, mult, k)
      BY <2>1, <2>2, <2>4
    <3>2. ProgsAt(t, u, P, W, s, k - 1)
      BY <1>6, <2>2, <3>1
    <3>3. k \in 1 .. Len(s)
      BY <1>1
    <3>4. ProgsAt(t, q.t, P, W, s, k)
      BY <2>4, <3>1, <3>2, <3>3, OnePMTDone
    <3> QED BY <2>2, <3>4
  <2> QED BY <2>3, <2>4
<1>7. G \in SUBSET (0 .. b)
  OBVIOUS
<1> HIDE DEF G
<1>8. \A k \in 0 .. b : k \in G
  BY <1>5, <1>6, <1>7, Upwards, Zenon
<1>9. b \in G
  BY <1>8
<1>10. r = g[b]
  BY <1>2, <1>3, <1>4
<1> QED BY <1>1, <1>9, <1>10 DEF G

\* The PMTs of the programs P[0] of a scan, which have no lists so far.
LEMMA ParsePMTsDone ==
    ASSUME NEW t, NEW P, NEW W, Layout(t, P, W, {}, {}, {}), NEW ch, Scan(t, ch),
           \A k \in 1 .. Len(P[0]) : NoLists(W, P[0][k]),
           NEW mult, ScanFits(mult), Len(P[0]) <= Len(mult.progs), NEW r, r = ParsePMTs(t, mult)
    PROVE  r.err = "SUCCESS" => ProgsAt(t, r.t, P, W, P[0], Len(P[0]))
<1>1. PICK s : s = P[0]
  OBVIOUS
<1>2. 0 \in Nat /\ 0 \in DOMAIN t.ts /\ t.ts[0].valid
  BY DEF Scan
<1>3. s \in Seq(Nat) /\ \A k \in 1 .. Len(s) : s[k] \in DOMAIN t.prog
  BY <1>1, <1>2, Zenon DEF Layout, Placed
<1>4. Distinct(s)
  BY <1>1, <1>2 DEF Layout, Once, Distinct
<1>5. \A k \in 1 .. Len(s) : t.prog[s[k]].valid
  BY <1>1, <1>2 DEF Layout, Back
<1>6. PICK l : l = InTSProgIndexList(t, 0)
  OBVIOUS
<1>7. l = IndexList(t.prog, t.ts[0].prog)
  BY <1>2, <1>6 DEF InTSProgIndexList
<1>8. r = IF l.err = "SUCCESS" THEN PMTsLoop(t, Numbers(l.list), l.list, mult) ELSE Err(l.err, t)
  <2>1. ParsePMTs(t, mult) = IF InTSProgIndexList(t, 0).err = "SUCCESS"
                             THEN PMTsLoop(t, Numbers(InTSProgIndexList(t, 0).list), InTSProgIndexList(t, 0).list, mult)
                             ELSE Err(InTSProgIndexList(t, 0).err, t)
    BY Zenon DEF ParsePMTs, OnList, PMTsLoop, OnePMT
  <2> QED BY <1>6, <2>1
<1>9. CASE l.err # "SUCCESS"
  BY <1>8, <1>9 DEF Err
<1>10. CASE l.err = "SUCCESS"
  <2>1. Chain(t.prog, t.ts[0].prog, s)
    BY <1>1, <1>2 DEF Layout, Linked
  <2>2. s \in Seq(DOMAIN t.prog)
    BY <1>3, SeqIn, Zenon
  <2>3. l = Found(s)
    BY <1>7, <1>10, <2>1, <2>2, IndexListFinds
  <2>4. l.list = s
    BY <2>3 DEF Found
  <2>5. r = PMTsLoop(t, Numbers(s), s, mult)
    BY <1>8, <1>10, <2>4
  <2>6. ProgsAt(t, t, P, W, s, 0)
    <3>1. \A x \in 1 .. 0 : ProgFits(W, s[x])
      OBVIOUS
    <3>2. \A x \in 1 .. Len(s) : x > 0 => NoLists(W, s[x])
      BY <1>1
    <3>3. \A n \in Names : n[1] \in TSType => W[n] = W[n]
      OBVIOUS
    <3> QED BY <3>1, <3>2, <3>3 DEF ProgsAt
  <2>7. Len(s) <= Len(mult.progs)
    BY <1>1
  <2>8. r.err = "SUCCESS" => ProgsAt(t, r.t, P, W, s, Len(s))
    BY <1>3, <1>4, <1>5, <2>5, <2>6, <2>7, PMTsLoopDone
  <2> QED BY <1>1, <2>8
<1> QED BY <1>9, <1>10

Others(g, t, seq) ==
    /\ g[0] = Ok(t)
    /\ \A k \in 1 .. Len(seq) :
        g[k] = IF g[k - 1].err = "SUCCESS" THEN SetInputOtherPIDInfo(g[k - 1].t, 0, seq[k]) ELSE g[k - 1]

OthersLoop(t, seq) == ForEach(t, seq, LAMBDA v, pid : SetInputOtherPIDInfo(v, 0, pid))

\* The other PIDs in turn.
LEMMA OthersDef ==
    ASSUME NEW t, NEW seq, Len(seq) \in Nat
    PROVE  \E g : /\ Others(g, t, seq)
                  /\ OthersLoop(t, seq) = g[Len(seq)]
<1> DEFINE n == Len(seq)
           Fit(g, m) == g = [k \in 0 .. m |->
               IF k = 0 THEN Ok(t)
               ELSE IF g[k - 1].err = "SUCCESS" THEN SetInputOtherPIDInfo(g[k - 1].t, 0, seq[k]) ELSE g[k - 1]]
           G == {m \in 0 .. n : \E g : Fit(g, m)}
<1>0. n \in Nat
  OBVIOUS
<1>1. 0 \in G
  <2> DEFINE z == [k \in 0 .. 0 |-> Ok(t)]
  <2>1. Fit(z, 0)
    OBVIOUS
  <2> HIDE DEF z, Fit
  <2> QED BY <2>1
<1>2. ASSUME NEW m \in 1 .. n, m - 1 \in G PROVE m \in G
  <2>1. PICK g : Fit(g, m - 1)
    BY <1>2
  <2> DEFINE h == [k \in 0 .. m |->
               IF k = 0 THEN Ok(t)
               ELSE IF g[k - 1].err = "SUCCESS" THEN SetInputOtherPIDInfo(g[k - 1].t, 0, seq[k]) ELSE g[k - 1]]
  <2>2. \A k \in 0 .. m - 1 : h[k] = g[k]
    BY <2>1
  <2>3. Fit(h, m)
    <3>1. \A k \in 0 .. m : k # 0 => k - 1 \in 0 .. m - 1
      OBVIOUS
    <3> QED BY <2>2, <3>1, ZenonT(30)
  <2> HIDE DEF h
  <2> QED BY <2>3, SMTT(30)
<1>3. n \in G
  <2> HIDE DEF G
  <2>1. G \in SUBSET (0 .. n)
    BY DEF G
  <2> HIDE DEF n
  <2>2. \A m \in 1 .. n : m - 1 \in G => m \in G
    BY <1>2
  <2>3. \A m \in 0 .. n : m \in G
    BY <1>0, <1>1, <2>1, <2>2, Upwards, Zenon
  <2> QED BY <1>0, <2>3
<1> DEFINE after == CHOOSE after : Fit(after, n)
<1>4. Fit(after, n)
  <2> HIDE DEF Fit
  <2> QED BY <1>3
<1>5. OthersLoop(t, seq) = after[n]
  BY Zenon DEF OthersLoop, ForEach, Then
<1> HIDE DEF after
<1>6. Others(after, t, seq)
  BY <1>4 DEF Others
<1> QED BY <1>5, <1>6

\* k PIDs were added to the stream's other PIDs.
OthersAt(u, ch, P, W, k) ==
    /\ Scan(u, ch)
    /\ \E V : /\ Layout(u, P, V, {}, {}, {}) /\ Len(V[<<"OTHERPID", 0>>]) = Len(W[<<"OTHERPID", 0>>]) + k
              /\ \A n \in Names : n # <<"OTHERPID", 0>> => V[n] = W[n]

\* All other PIDs.
LEMMA OthersDone ==
    ASSUME NEW t, NEW P, NEW W, Layout(t, P, W, {}, {}, {}), NEW ch, Scan(t, ch),
           NEW s \in Seq(Nat), Len(W[<<"OTHERPID", 0>>]) + Len(s) < MAX_INDEX_LIST_NUMBER,
           NEW r, r = OthersLoop(t, s)
    PROVE  r.err = "SUCCESS" => OthersAt(r.t, ch, P, W, Len(s))
<1>1. PICK b \in Nat : b = Len(s)
  OBVIOUS
<1>2. PICK g : Others(g, t, s) /\ OthersLoop(t, s) = g[Len(s)]
  <2>1. Len(s) \in Nat
    OBVIOUS
  <2> QED BY <2>1, OthersDef
<1>3. PICK a \in Nat : a = Len(W[<<"OTHERPID", 0>>])
  <2>1. <<"OTHERPID", 0>> \in Names
    BY DEF Names, Types
  <2> QED BY <2>1 DEF Layout, Placed
<1> DEFINE G == {k \in 0 .. b : g[k].err = "SUCCESS" => OthersAt(g[k].t, ch, P, W, k)}
<1>4. 0 \in G
  <2>1. g[0] = Ok(t)
    BY <1>2 DEF Others
  <2>2. g[0].t = t
    BY <2>1 DEF Ok
  <2>3. OthersAt(t, ch, P, W, 0)
    <3>1. Len(W[<<"OTHERPID", 0>>]) = Len(W[<<"OTHERPID", 0>>]) + 0
      BY <1>3
    <3> QED BY <3>1 DEF OthersAt
  <2> QED BY <2>2, <2>3
<1>5. ASSUME NEW k \in 1 .. b, k - 1 \in G PROVE k \in G
  <2>1. g[k] = IF g[k - 1].err = "SUCCESS" THEN SetInputOtherPIDInfo(g[k - 1].t, 0, s[k]) ELSE g[k - 1]
    BY <1>1, <1>2 DEF Others
  <2>2. PICK u, q, pid : u = g[k - 1].t /\ q = g[k] /\ pid = s[k]
    OBVIOUS
  <2>3. CASE q.err # "SUCCESS"
    BY <2>2, <2>3
  <2>4. CASE q.err = "SUCCESS"
    <3>1. g[k - 1].err = "SUCCESS" /\ q = SetInputOtherPIDInfo(u, 0, pid) /\ pid \in Nat
      BY <1>1, <2>1, <2>2, <2>4
    <3>2. OthersAt(u, ch, P, W, k - 1)
      BY <1>5, <2>2, <3>1
    <3>3. Scan(u, ch)
      BY <3>2 DEF OthersAt
    <3>4. PICK V : /\ Layout(u, P, V, {}, {}, {}) /\ Len(V[<<"OTHERPID", 0>>]) = Len(W[<<"OTHERPID", 0>>]) + (k - 1)
                   /\ \A n \in Names : n # <<"OTHERPID", 0>> => V[n] = W[n]
      BY <3>2 DEF OthersAt
    <3>5. Len(V[<<"OTHERPID", 0>>]) = a + (k - 1) /\ a + b < MAX_INDEX_LIST_NUMBER
      BY <1>1, <1>3, <3>4
    <3>6. Len(V[<<"OTHERPID", 0>>]) + 1 < MAX_INDEX_LIST_NUMBER
      BY <3>5, TableAssumption
    <3>7. TSListDone(q, ch, P, V, "OTHERPID", 1)
      BY <3>1, <3>3, <3>4, <3>6, OtherStep
    <3>8. Scan(q.t, ch)
      BY <2>4, <3>7 DEF TSListDone
    <3>9. PICK Z : /\ Layout(q.t, P, Z, {}, {}, {}) /\ Len(Z[<<"OTHERPID", 0>>]) = Len(V[<<"OTHERPID", 0>>]) + 1
                   /\ \A n \in Names : n # <<"OTHERPID", 0>> => Z[n] = V[n]
      BY <2>4, <3>7 DEF TSListDone
    <3>10. Len(Z[<<"OTHERPID", 0>>]) = Len(W[<<"OTHERPID", 0>>]) + k
      <4>1. (a + (k - 1)) + 1 = a + k
        OBVIOUS
      <4> QED BY <1>3, <3>5, <3>9, <4>1
    <3>11. \A n \in Names : n # <<"OTHERPID", 0>> => Z[n] = W[n]
      BY <3>4, <3>9
    <3>12. OthersAt(q.t, ch, P, W, k)
      BY <3>8, <3>9, <3>10, <3>11 DEF OthersAt
    <3> QED BY <2>2, <3>12
  <2> QED BY <2>3, <2>4
<1>6. G \in SUBSET (0 .. b)
  OBVIOUS
<1> HIDE DEF G
<1>7. \A k \in 0 .. b : k \in G
  BY <1>4, <1>5, <1>6, Upwards, Zenon
<1>8. b \in G
  BY <1>7
<1>9. r = g[b]
  BY <1>1, <1>2
<1> QED BY <1>1, <1>8, <1>9 DEF G

\* The PAT and the CAT of m are in place.
PATAt(t, ch, m) ==
    /\ Scan(t, ch)
    /\ \E P, W : /\ Layout(t, P, W, {}, {}, {}) /\ Len(P[0]) <= Len(m.progs)
                 /\ \A n \in Names : n # <<"EMMPID", 0>> => W[n] = << >>
                 /\ Len(W[<<"EMMPID", 0>>]) <= Len(m.emm)

\* No list has anything in it.
LEMMA NothingIn ==
    \A n \in Names : Nothing(Names)[n] = << >> /\ Len(Nothing(Names)[n]) = 0
BY DEF Nothing

\* A stream without a PAT gives tables with a stream and no programs.
LEMMA ParseNoPAT ==
    ASSUME NEW ch \in Nat, NEW m, ScanFits(m)
    PROVE  PATAt(ScanTable(ch), ch, m)
<1>1. PICK t : t = ScanTable(ch)
  OBVIOUS
<1>2. Bare(t) /\ Scan(t, ch)
  BY <1>1, ScanTableBare DEF Scan
<1>3. PICK P, W : P = Nothing(Nat) /\ W = Nothing(Names)
  OBVIOUS
<1>4. Layout(t, P, W, {}, {}, {})
  BY <1>2, <1>3, BareLayout
<1>5. <<"EMMPID", 0>> \in Names /\ 0 \in Nat
  BY DEF Names, Types
<1>6. Len(P[0]) = 0 /\ Len(W[<<"EMMPID", 0>>]) = 0 /\ \A n \in Names : W[n] = << >>
  <2>1. P[0] = << >>
    BY <1>3, <1>5 DEF Nothing
  <2>2. Len(P[0]) = 0
    BY <2>1
  <2> QED BY <1>3, <1>5, <2>2, NothingIn
<1>7. Len(m.progs) \in Nat /\ Len(m.emm) \in Nat
  BY DEF ScanFits, Multiplex
<1>8. Len(P[0]) <= Len(m.progs) /\ Len(W[<<"EMMPID", 0>>]) <= Len(m.emm)
  BY <1>6, <1>7
<1> QED BY <1>1, <1>2, <1>4, <1>6, <1>8 DEF PATAt

\* The PAT and its PMTs give tables with the programs and their lists.
LEMMA ParsePATDone ==
    ASSUME NEW ch \in Nat, NEW m, ScanFits(m), NEW r, r = ParsePAT(ScanTable(ch), m), r.err = "SUCCESS"
    PROVE  PATAt(r.t, ch, m)
<1>1. PICK t : t = ScanTable(ch)
  OBVIOUS
<1>2. Bare(t) /\ Scan(t, ch)
  BY <1>1, ScanTableBare DEF Scan
<1>3. Layout(t, Nothing(Nat), Nothing(Names), {}, {}, {})
  BY <1>2, BareLayout
<1>4. PICK sids : sids = [k \in DOMAIN m.progs |-> m.progs[k].sid]
  BY Zenon
<1>5. sids \in Seq(Nat) /\ Len(sids) = Len(m.progs) /\ Len(sids) < MAX_INDEX_LIST_NUMBER
  <2>1. m.progs \in Seq(AirProg)
    BY DEF ScanFits, Multiplex
  <2>2. PICK s \in Seq(AirProg) : s = m.progs
    BY <2>1
  <2>3. \A k \in 1 .. Len(s) : s[k].sid \in Nat
    <3>1. \A k \in 1 .. Len(s) : s[k] \in AirProg
      OBVIOUS
    <3> QED BY <3>1, Zenon DEF AirProg
  <2>4. Len(s) \in Nat /\ DOMAIN s = 1 .. Len(s)
    OBVIOUS
  <2>5. sids = [k \in 1 .. Len(s) |-> s[k].sid]
    BY <1>4, <2>2, <2>4
  <2>6. sids \in Seq(Nat) /\ Len(sids) = Len(s)
    BY <2>3, <2>4, <2>5
  <2> QED BY <2>2, <2>6 DEF ScanFits
<1>6. PICK a : a = SetInputPATInfo(t, 0, sids)
  OBVIOUS
<1>7. r = IF a.err = "SUCCESS" THEN SetInputCATInfo(a.t, 0, m.emm) ELSE a
  <2>1. ParsePAT(ScanTable(ch), m) =
          IF SetInputPATInfo(ScanTable(ch), 0, [k \in DOMAIN m.progs |-> m.progs[k].sid]).err = "SUCCESS"
          THEN SetInputCATInfo(SetInputPATInfo(ScanTable(ch), 0, [k \in DOMAIN m.progs |-> m.progs[k].sid]).t, 0, m.emm)
          ELSE SetInputPATInfo(ScanTable(ch), 0, [k \in DOMAIN m.progs |-> m.progs[k].sid])
    BY Zenon DEF ParsePAT, Then
  <2> QED BY <1>1, <1>4, <1>6, <2>1
<1>8. a.err = "SUCCESS"
  BY <1>7
<1>9. PATDone(a, ch, Len(sids))
  BY <1>2, <1>3, <1>5, <1>6, PATInfo
<1>10. PICK u : u = a.t
  OBVIOUS
<1>11. Scan(u, ch)
  BY <1>8, <1>9, <1>10 DEF PATDone
<1>12. PICK P : Layout(u, P, Nothing(Names), {}, {}, {}) /\ Len(P[0]) = Len(sids)
  BY <1>8, <1>9, <1>10 DEF PATDone
<1>13. PICK W : W = Nothing(Names)
  OBVIOUS
<1>14. \A n \in Names : W[n] = << >> /\ Len(W[n]) = 0
  BY <1>13, NothingIn
<1>15. <<"EMMPID", 0>> \in Names
  BY DEF Names, Types
<1>16. Len(P[0]) <= Len(m.progs)
  BY <1>5, <1>12 DEF ScanFits, Multiplex
<1>17. PICK emms \in Seq(Nat) : emms = m.emm
  BY DEF ScanFits, Multiplex
<1>18. r = SetInputCATInfo(u, 0, emms)
  BY <1>7, <1>8, <1>10, <1>17
<1>19. CASE emms = << >>
  <2>1. r.t = u
    <3>1. SetInputCATInfo(u, 0, << >>) = Ok(u)
      BY Zenon DEF SetInputCATInfo
    <3>2. r = Ok(u)
      BY <1>18, <1>19, <3>1
    <3> QED BY <3>2 DEF Ok
  <2>2. Len(W[<<"EMMPID", 0>>]) <= Len(m.emm)
    BY <1>14, <1>15, <1>17
  <2> QED BY <1>11, <1>12, <1>13, <1>14, <1>16, <2>1, <2>2, Zenon DEF PATAt
<1>20. CASE emms # << >>
  <2>1. Len(W[<<"EMMPID", 0>>]) + Len(emms) < MAX_INDEX_LIST_NUMBER
    <3>1. Len(m.emm) + Len(m.other) < MAX_INDEX_LIST_NUMBER /\ Len(m.other) \in Nat
      BY DEF ScanFits, Multiplex
    <3>2. PICK x \in Nat, y \in Nat : x = Len(emms) /\ y = Len(m.other)
      BY <3>1
    <3>3. x + y < MAX_INDEX_LIST_NUMBER /\ MAX_INDEX_LIST_NUMBER \in Nat
      BY <1>17, <3>1, <3>2, TableAssumption, Zenon
    <3>4. 0 + x < MAX_INDEX_LIST_NUMBER
      BY <3>3
    <3>5. Len(W[<<"EMMPID", 0>>]) = 0
      BY <1>14, <1>15
    <3> QED BY <3>2, <3>4, <3>5
  <2>2. Layout(u, P, W, {}, {}, {})
    BY <1>12, <1>13
  <2>3. TSListDone(r, ch, P, W, "EMMPID", Len(emms))
    BY <1>11, <1>18, <1>20, <2>1, <2>2, CATStep
  <2>4. PICK V : /\ Layout(r.t, P, V, {}, {}, {}) /\ Len(V[<<"EMMPID", 0>>]) = Len(W[<<"EMMPID", 0>>]) + Len(emms)
                 /\ \A n \in Names : n # <<"EMMPID", 0>> => V[n] = W[n]
    BY <2>3 DEF TSListDone
  <2>5. Len(V[<<"EMMPID", 0>>]) <= Len(m.emm)
    <3>1. PICK x \in Nat : x = Len(emms)
      OBVIOUS
    <3>2. Len(W[<<"EMMPID", 0>>]) = 0
      BY <1>14, <1>15
    <3>3. Len(V[<<"EMMPID", 0>>]) = 0 + x
      BY <2>4, <3>1, <3>2
    <3> QED BY <1>17, <3>1, <3>3
  <2>6. \A n \in Names : n # <<"EMMPID", 0>> => V[n] = << >>
    BY <1>14, <2>4
  <2>7. Scan(r.t, ch)
    BY <2>3 DEF TSListDone
  <2> QED BY <1>16, <2>4, <2>5, <2>6, <2>7 DEF PATAt
<1> QED BY <1>19, <1>20

\* What a scan of channel ch leaves in its tables.
TempOK(t, ch) ==
    /\ Scan(t, ch)
    /\ \E P, W : /\ Layout(t, P, W, {}, {}, {})
                 /\ \A k \in 1 .. Len(P[0]) : ProgFits(W, P[0][k])
                 /\ Len(W[<<"EMMPID", 0>>]) + Len(W[<<"OTHERPID", 0>>]) <= MAX_INDEX_LIST_NUMBER

\* What ParseSI has put into the tables of a scan is laid out like the shared tables, in the stream 0.
LEMMA ParseSIDone ==
    ASSUME NEW ch \in Nat, NEW m, ScanFits(m), NEW r, r = ParseSI(ch, m), r.err = "SUCCESS"
    PROVE  TempOK(r.t, ch)
<1>1. PICK a : a = IF m.pat THEN ParsePAT(ScanTable(ch), m) ELSE Ok(ScanTable(ch))
  OBVIOUS
<1>2. PICK b : b = IF a.err = "SUCCESS" THEN ParsePMTs(a.t, m) ELSE a
  OBVIOUS
<1>3. r = IF b.err = "SUCCESS" THEN OthersLoop(b.t, m.other) ELSE b
  <2>1. PICK T : T = ScanTable(ch)
    OBVIOUS
  <2>2. ParseSI(ch, m) = Then(Then(IF m.pat THEN ParsePAT(ScanTable(ch), m) ELSE Ok(ScanTable(ch)), LAMBDA u : ParsePMTs(u, m)),
                              LAMBDA u : OthersLoop(u, m.other))
    BY Zenon DEF ParseSI, OthersLoop, ScanTable
  <2>3. Then(Then(IF m.pat THEN ParsePAT(ScanTable(ch), m) ELSE Ok(ScanTable(ch)), LAMBDA u : ParsePMTs(u, m)),
             LAMBDA u : OthersLoop(u, m.other))
        = IF (IF (IF m.pat THEN ParsePAT(ScanTable(ch), m) ELSE Ok(ScanTable(ch))).err = "SUCCESS"
              THEN ParsePMTs((IF m.pat THEN ParsePAT(ScanTable(ch), m) ELSE Ok(ScanTable(ch))).t, m)
              ELSE (IF m.pat THEN ParsePAT(ScanTable(ch), m) ELSE Ok(ScanTable(ch)))).err = "SUCCESS"
          THEN OthersLoop((IF (IF m.pat THEN ParsePAT(ScanTable(ch), m) ELSE Ok(ScanTable(ch))).err = "SUCCESS"
              THEN ParsePMTs((IF m.pat THEN ParsePAT(ScanTable(ch), m) ELSE Ok(ScanTable(ch))).t, m)
              ELSE (IF m.pat THEN ParsePAT(ScanTable(ch), m) ELSE Ok(ScanTable(ch)))).t, m.other)
          ELSE (IF (IF m.pat THEN ParsePAT(ScanTable(ch), m) ELSE Ok(ScanTable(ch))).err = "SUCCESS"
              THEN ParsePMTs((IF m.pat THEN ParsePAT(ScanTable(ch), m) ELSE Ok(ScanTable(ch))).t, m)
              ELSE (IF m.pat THEN ParsePAT(ScanTable(ch), m) ELSE Ok(ScanTable(ch))))
    BY Zenon DEF Then
  <2> QED BY Zenon, <1>1, <1>2, <2>2, <2>3
<1>4. b.err = "SUCCESS" /\ r = OthersLoop(b.t, m.other)
  BY <1>3
<1>5. a.err = "SUCCESS" /\ b = ParsePMTs(a.t, m)
  BY <1>2, <1>4
<1>6. PATAt(a.t, ch, m)
  <2>1. CASE m.pat
    BY <1>1, <1>5, <2>1, ParsePATDone
  <2>2. CASE ~m.pat
    <3>1. a.t = ScanTable(ch)
      BY <1>1, <2>2 DEF Ok
    <3> QED BY <3>1, ParseNoPAT
  <2> QED BY <2>1, <2>2
<1>7. PICK t : t = a.t
  OBVIOUS
<1>8. Scan(t, ch)
  BY <1>6, <1>7 DEF PATAt
<1>9. PICK P, W : /\ Layout(t, P, W, {}, {}, {}) /\ Len(P[0]) <= Len(m.progs)
                  /\ \A n \in Names : n # <<"EMMPID", 0>> => W[n] = << >>
                  /\ Len(W[<<"EMMPID", 0>>]) <= Len(m.emm)
  BY <1>6, <1>7 DEF PATAt
<1>10. P \in [Nat -> Seq(Nat)] /\ W \in [Names -> Seq(Nat)] /\ 0 \in Nat
  BY <1>9, Zenon DEF Layout, Placed
<1>11. PICK s \in Seq(Nat) : s = P[0]
  BY <1>10
<1>12. \A k \in 1 .. Len(P[0]) : NoLists(W, P[0][k])
  <2>1. ASSUME NEW k \in 1 .. Len(s) PROVE NoLists(W, s[k])
    <3>1. PICK q \in Nat : q = s[k]
      OBVIOUS
    <3>2. <<"PCRPID", q>> # <<"EMMPID", 0>> /\ <<"ESPID", q>> # <<"EMMPID", 0>> /\ <<"PS_ECMPID", q>> # <<"EMMPID", 0>>
      OBVIOUS
    <3>3. NoLists(W, q)
      BY <1>9, <3>2, ProgNames, Zenon DEF NoLists
    <3> QED BY <3>1, <3>3
  <2> QED BY <1>11, <2>1
<1>13. ProgsAt(t, b.t, P, W, P[0], Len(P[0]))
  BY <1>4, <1>5, <1>7, <1>8, <1>9, <1>12, ParsePMTsDone
<1>14. PICK v : v = b.t
  OBVIOUS
<1>15. Scan(v, ch)
  BY <1>8, <1>13, <1>14 DEF ProgsAt, Scan
<1>16. PICK V : /\ Layout(v, P, V, {}, {}, {})
                /\ \A x \in 1 .. Len(P[0]) : ProgFits(V, P[0][x])
                /\ \A n \in Names : n[1] \in TSType => V[n] = W[n]
  BY <1>13, <1>14 DEF ProgsAt
<1>17. <<"EMMPID", 0>> \in Names /\ <<"OTHERPID", 0>> \in Names /\ <<"OTHERPID", 0>> # <<"EMMPID", 0>>
       /\ <<"EMMPID", 0>>[1] \in TSType /\ <<"OTHERPID", 0>>[1] \in TSType
  BY DEF Names, Types, TSType
<1>18. PICK a1 \in Nat, a2 \in Nat, a3 \in Nat : a1 = Len(V[<<"EMMPID", 0>>]) /\ a2 = Len(m.emm) /\ a3 = Len(m.other)
  <2>1. V[<<"EMMPID", 0>>] \in Seq(Nat)
    BY <1>16, <1>17 DEF Layout, Placed
  <2>2. Len(V[<<"EMMPID", 0>>]) \in Nat
    BY <2>1
  <2>3. Len(m.emm) \in Nat /\ Len(m.other) \in Nat
    BY DEF ScanFits, Multiplex
  <2> QED BY <2>2, <2>3, Zenon
<1>19. a1 <= a2 /\ a2 + a3 < MAX_INDEX_LIST_NUMBER
  BY <1>9, <1>16, <1>17, <1>18, Zenon DEF ScanFits
<1>20. Len(V[<<"OTHERPID", 0>>]) = 0
  <2>1. V[<<"OTHERPID", 0>>] = << >>
    BY <1>9, <1>16, <1>17
  <2> QED BY <2>1
<1>21. OthersAt(r.t, ch, P, V, a3)
  <2>1. m.other \in Seq(Nat)
    BY DEF ScanFits, Multiplex
  <2>2. Len(V[<<"OTHERPID", 0>>]) + Len(m.other) < MAX_INDEX_LIST_NUMBER
    <3>1. 0 + a3 < MAX_INDEX_LIST_NUMBER
      <4>1. MAX_INDEX_LIST_NUMBER \in Nat
        BY TableAssumption
      <4> QED BY <1>19, <4>1
    <3> QED BY <1>18, <1>20, <3>1
  <2>3. r = OthersLoop(v, m.other)
    BY <1>4, <1>14
  <2> QED BY <1>15, <1>16, <1>18, <2>1, <2>2, <2>3, OthersDone, Zenon
<1>22. PICK Z : /\ Layout(r.t, P, Z, {}, {}, {}) /\ Len(Z[<<"OTHERPID", 0>>]) = Len(V[<<"OTHERPID", 0>>]) + a3
                /\ \A n \in Names : n # <<"OTHERPID", 0>> => Z[n] = V[n]
  BY <1>21 DEF OthersAt
<1>23. Len(Z[<<"EMMPID", 0>>]) + Len(Z[<<"OTHERPID", 0>>]) <= MAX_INDEX_LIST_NUMBER
  <2>1. Len(Z[<<"EMMPID", 0>>]) = a1 /\ Len(Z[<<"OTHERPID", 0>>]) = a3
    BY <1>17, <1>18, <1>20, <1>22
  <2> QED BY <1>19, <2>1, TableAssumption
<1>24. ASSUME NEW k \in 1 .. Len(s) PROVE ProgFits(Z, s[k])
  <2>1. PICK q \in Nat : q = s[k]
    OBVIOUS
  <2>2. ProgFits(V, q)
    BY <1>11, <1>16, <2>1
  <2>3. <<"ESPID", q>> # <<"OTHERPID", 0>> /\ <<"PS_ECMPID", q>> # <<"OTHERPID", 0>>
    OBVIOUS
  <2>4. Z[<<"ESPID", q>>] = V[<<"ESPID", q>>] /\ Z[<<"PS_ECMPID", q>>] = V[<<"PS_ECMPID", q>>]
    BY <1>22, <2>3, ProgNames, Zenon
  <2>5. ProgFits(Z, q)
    BY <2>2, <2>4, Zenon DEF ProgFits
  <2> QED BY <2>1, <2>5
<1>25. \A k \in 1 .. Len(P[0]) : ProgFits(Z, P[0][k])
  BY <1>11, <1>24
<1>26. Scan(r.t, ch)
  BY <1>21 DEF OthersAt
<1> QED BY <1>22, <1>23, <1>25, <1>26, Zenon DEF TempOK

=============================================================================
