---------------------------- MODULE ScanTS_proofs -----------------------------
(***************************************************************************)
(* Machine-checked facts about ScanTS, for every set of channels and       *)
(* tuners, size of the arrays and number of events: what a scan has found  *)
(* is copied list by list into the shared tables (State: a layout with     *)
(* lists still open and entries reserved), and so every step keeps the     *)
(* tables sound.                                                           *)
(***************************************************************************)
EXTENDS ParseSI_proofs, ScanTS

-----------------------------------------------------------------------------
(* Copying what a scanner found.                                           *)

\* The list of PIDs of a scan is src.
TempList(found, list, src, type) ==
    /\ src \in Seq(Nat) /\ Len(src) = list.num /\ Follow(found.pid, list.head, list.num) = src
    /\ \A k \in 1 .. Len(src) : src[k] \in DOMAIN found.pid /\ found.pid[src[k]].type = type

TempECMs(found) ==
    \A j \in DOMAIN found.pid : found.pid[j].type = "ESPID" =>
        /\ found.pid[j].esecm.num < MAX_INDEX_LIST_NUMBER
        /\ \E src : TempList(found, found.pid[j].esecm, src, "ES_ECMPID")

TempProg(found, q) ==
    /\ q \in DOMAIN found.prog /\ found.prog[q].valid
    /\ 1 + found.prog[q].es.num + found.prog[q].psecm.num <= MAX_INDEX_LIST_NUMBER
    /\ \E src : TempList(found, found.prog[q].es, src, "ESPID")
    /\ \E src : TempList(found, found.prog[q].psecm, src, "PS_ECMPID")
    /\ found.prog[q].pcr # INDEX_INVALID_VALUE =>
        found.prog[q].pcr \in DOMAIN found.pid /\ found.pid[found.prog[q].pcr].type = "PCRPID"

TempProgs(found, list, src) ==
    /\ src \in Seq(Nat) /\ Len(src) = list.num /\ Follow(found.prog, list.head, list.num) = src
    /\ Len(src) < MAX_INDEX_LIST_NUMBER
    /\ \A k \in 1 .. Len(src) : TempProg(found, src[k])

TempTS(found) ==
    /\ found.ts[0].emm.num < MAX_INDEX_LIST_NUMBER /\ found.ts[0].other.num < MAX_INDEX_LIST_NUMBER
    /\ found.ts[0].emm.num + found.ts[0].other.num <= MAX_INDEX_LIST_NUMBER
    /\ \E src : TempList(found, found.ts[0].emm, src, "EMMPID")
    /\ \E src : TempList(found, found.ts[0].other, src, "OTHERPID")

\* What the copy needs to know of a scan.
Copyable(found, ch) ==
    /\ Shape(found) /\ Scan(found, ch) /\ TempECMs(found) /\ TempTS(found)
    /\ \E src : TempProgs(found, found.ts[0].prog, src)

\* The copy walks a list of the scan's tables to its end.
LEMMA TempListOf ==
    ASSUME NEW t, NEW P, NEW W, Layout(t, P, W, {}, {}, {}), NEW n \in Names, n[1] # "PCRPID", Owned(t, n)
    PROVE  /\ TempList(t, HeadRec(t, n), W[n], n[1])
           /\ HeadRec(t, n).num < MAX_INDEX_LIST_NUMBER /\ HeadRec(t, n).num = Len(W[n])
<1>1. W[n] \in Seq(Nat) /\ \A k \in 1 .. Len(W[n]) : W[n][k] \in DOMAIN t.pid
  BY DEF Layout, Placed
<1>2. W[n] \in Seq(DOMAIN t.pid)
  BY <1>1, SeqIn, Zenon
<1>3. Chain(t.pid, HeadRec(t, n), W[n])
  BY DEF Layout, Linked, Strung
<1>4. Len(W[n]) = HeadRec(t, n).num
  BY <1>3 DEF Chain
<1>5. Follow(t.pid, HeadRec(t, n).head, HeadRec(t, n).num) = W[n]
  BY <1>2, <1>3, FollowChain
<1>6. \A k \in 1 .. Len(W[n]) : t.pid[W[n][k]].type = n[1]
  BY DEF Layout, Back
<1>7. Len(W[n]) < MAX_INDEX_LIST_NUMBER
  BY DEF Layout, Short
<1> QED BY <1>1, <1>4, <1>5, <1>6, <1>7 DEF TempList

\* So everything a scan has found can be copied.
LEMMA ScanCopyable ==
    ASSUME NEW t, NEW ch, TempOK(t, ch)
    PROVE  Copyable(t, ch)
<1>1. PICK P, W : /\ Layout(t, P, W, {}, {}, {})
                  /\ \A k \in 1 .. Len(P[0]) : ProgFits(W, P[0][k])
                  /\ Len(W[<<"EMMPID", 0>>]) + Len(W[<<"OTHERPID", 0>>]) <= MAX_INDEX_LIST_NUMBER
  BY Zenon DEF TempOK
<1>2. Scan(t, ch) /\ Shape(t) /\ DOMAIN t.prog \subseteq Nat /\ DOMAIN t.pid \subseteq Nat
  BY <1>1, ShapeFacts DEF TempOK, Layout
<1>3. 0 \in Nat /\ 0 \in DOMAIN t.ts /\ t.ts[0].valid
  BY <1>2 DEF Scan
<1>4. ASSUME NEW j \in DOMAIN t.pid, t.pid[j].type = "ESPID"
      PROVE  /\ t.pid[j].esecm.num < MAX_INDEX_LIST_NUMBER
             /\ \E src : TempList(t, t.pid[j].esecm, src, "ES_ECMPID")
  <2>1. PICK n : n = <<"ES_ECMPID", j>>
    BY Zenon
  <2>2. n \in Names /\ n[1] = "ES_ECMPID" /\ n[2] = j
    BY <1>2, <2>1 DEF Names, Types
  <2>3. Owned(t, n) /\ HeadRec(t, n) = t.pid[j].esecm
    BY <1>4, <2>2 DEF Owned, HeadRec
  <2>4. TempList(t, HeadRec(t, n), W[n], n[1]) /\ HeadRec(t, n).num < MAX_INDEX_LIST_NUMBER
    BY <1>1, <2>2, <2>3, TempListOf
  <2> QED BY <2>2, <2>3, <2>4
<1>5. TempECMs(t)
  BY <1>4 DEF TempECMs
<1>6. TempTS(t)
  <2>1. PICK n, m : n = <<"EMMPID", 0>> /\ m = <<"OTHERPID", 0>>
    BY Zenon
  <2>2. n \in Names /\ n[1] = "EMMPID" /\ n[2] = 0 /\ m \in Names /\ m[1] = "OTHERPID" /\ m[2] = 0
    BY <2>1 DEF Names, Types
  <2>3. Owned(t, n) /\ HeadRec(t, n) = t.ts[0].emm /\ Owned(t, m) /\ HeadRec(t, m) = t.ts[0].other
    BY <1>3, <2>2 DEF Owned, HeadRec
  <2>4. TempList(t, HeadRec(t, n), W[n], n[1]) /\ HeadRec(t, n).num < MAX_INDEX_LIST_NUMBER /\ HeadRec(t, n).num = Len(W[n])
    BY <1>1, <2>2, <2>3, TempListOf
  <2>5. TempList(t, HeadRec(t, m), W[m], m[1]) /\ HeadRec(t, m).num < MAX_INDEX_LIST_NUMBER /\ HeadRec(t, m).num = Len(W[m])
    BY <1>1, <2>2, <2>3, TempListOf
  <2>6. Len(W[n]) + Len(W[m]) <= MAX_INDEX_LIST_NUMBER
    BY <1>1, <2>1, Zenon
  <2> QED BY <2>2, <2>3, <2>4, <2>5, <2>6, Zenon DEF TempTS
<1>7. PICK s \in Seq(Nat) : s = P[0]
  BY <1>1, <1>3 DEF Layout, Placed
<1>8. ASSUME NEW k \in 1 .. Len(s) PROVE TempProg(t, s[k])
  <2>1. PICK q \in Nat : q = s[k]
    OBVIOUS
  <2>2. q \in DOMAIN t.prog /\ t.prog[q].valid
    BY <1>1, <1>3, <1>7, <2>1, Zenon DEF Layout, Placed, Back
  <2>3. ProgFits(W, q)
    BY <1>1, <1>7, <2>1
  <2>4. PICK l, n, m : l = <<"PCRPID", q>> /\ n = <<"ESPID", q>> /\ m = <<"PS_ECMPID", q>>
    BY Zenon
  <2>5. l \in Names /\ n \in Names /\ m \in Names
    BY <2>4, ProgNames
  <2>6. l[1] = "PCRPID" /\ l[2] = q /\ n[1] = "ESPID" /\ n[2] = q /\ m[1] = "PS_ECMPID" /\ m[2] = q
    BY <2>4
  <2>7. Owned(t, l) /\ Owned(t, n) /\ Owned(t, m)
    BY <2>2, <2>6 DEF Owned
  <2>8. HeadRec(t, l).head = t.prog[q].pcr /\ HeadRec(t, n) = t.prog[q].es /\ HeadRec(t, m) = t.prog[q].psecm
    BY <2>6 DEF HeadRec
  <2>9. TempList(t, HeadRec(t, n), W[n], n[1]) /\ HeadRec(t, n).num = Len(W[n])
    BY <1>1, <2>5, <2>6, <2>7, TempListOf
  <2>10. TempList(t, HeadRec(t, m), W[m], m[1]) /\ HeadRec(t, m).num = Len(W[m])
    BY <1>1, <2>5, <2>6, <2>7, TempListOf
  <2>11. 1 + t.prog[q].es.num + t.prog[q].psecm.num <= MAX_INDEX_LIST_NUMBER
    BY <2>3, <2>4, <2>8, <2>9, <2>10, Zenon DEF ProgFits
  <2>12. ASSUME t.prog[q].pcr # INDEX_INVALID_VALUE
         PROVE  t.prog[q].pcr \in DOMAIN t.pid /\ t.pid[t.prog[q].pcr].type = "PCRPID"
    <3>1. Strung(t, l, W[l])
      BY <1>1, <2>5, <2>7 DEF Layout, Linked
    <3>2. PICK x : x = t.prog[q].pcr
      OBVIOUS
    <3>3. W[l] = <<x>>
      BY <2>6, <2>8, <2>12, <3>1, <3>2 DEF Strung
    <3>4. 1 \in 1 .. Len(W[l]) /\ W[l][1] = x
      BY <3>3
    <3>5. x \in DOMAIN t.pid /\ t.pid[x].type = l[1]
      BY <1>1, <2>5, <3>4, Zenon DEF Layout, Placed, Back
    <3> QED BY <2>6, <3>2, <3>5
  <2>13. TempProg(t, q)
    BY <2>2, <2>6, <2>8, <2>9, <2>10, <2>11, <2>12, Zenon DEF TempProg
  <2> QED BY <2>1, <2>13
<1>9. TempProgs(t, t.ts[0].prog, s)
  <2>1. Chain(t.prog, t.ts[0].prog, s)
    BY <1>1, <1>3, <1>7 DEF Layout, Linked
  <2>2. \A k \in 1 .. Len(s) : s[k] \in DOMAIN t.prog
    BY <1>8 DEF TempProg
  <2>3. s \in Seq(DOMAIN t.prog)
    BY <2>2, SeqIn, Zenon
  <2>4. Follow(t.prog, t.ts[0].prog.head, t.ts[0].prog.num) = s
    BY <2>1, <2>3, FollowChain
  <2>5. Len(s) = t.ts[0].prog.num
    BY <2>1 DEF Chain
  <2>6. Len(s) < MAX_INDEX_LIST_NUMBER
    BY <1>1, <1>3, <1>7 DEF Layout, Short
  <2> QED BY <1>8, <2>4, <2>5, <2>6 DEF TempProgs
<1> QED BY <1>2, <1>5, <1>6, <1>9 DEF Copyable

\* The entries reserved for what comes.
Reserved(t, R) == \A j \in R : j \in DOMAIN t.pid /\ t.pid[j].valid /\ t.pid[j].type = "UNKNOWN"
\* The ECMs of elementary streams point to no owner.
Unowned(t) == \A j \in DOMAIN t.pid : t.pid[j].type = "ES_ECMPID" => t.pid[j].owner = INDEX_INVALID_VALUE
State(t, P, W, OP, OW, R) == Layout(t, P, W, OP, OW, R) /\ Reserved(t, R) /\ Unowned(t)

\* No PID that has a type is changed, and no program in use.
PIDsStay(t, u) == \A j \in DOMAIN t.pid : t.pid[j].type # "UNKNOWN" => j \in DOMAIN u.pid /\ u.pid[j] = t.pid[j]
ProgsStay(t, u) == \A p \in DOMAIN t.prog : t.prog[p].valid => p \in DOMAIN u.prog /\ u.prog[p] = t.prog[p]

\* What stays in one step and in the next stays.
LEMMA PIDsStayOn ==
    ASSUME NEW t, NEW u, NEW v, PIDsStay(t, u), PIDsStay(u, v)
    PROVE  PIDsStay(t, v)
BY DEF PIDsStay

\* A copy of the entry e.
CopyEntry(e, ts, prog) ==
    [e EXCEPT !.valid = TRUE, !.ts = ts, !.prog = prog, !.owner = INDEX_INVALID_VALUE]

\* The entry of a PID is copied with another stream and program, and without an owner.
LEMMA CopyEntryFacts ==
    ASSUME NEW e \in PIDRec, NEW ts \in Nat, NEW prog \in Nat, NEW c, c = CopyEntry(e, ts, prog)
    PROVE  /\ c \in PIDRec /\ c.valid /\ c.ts = ts /\ c.prog = prog /\ c.owner = INDEX_INVALID_VALUE
           /\ c.type = e.type /\ c.esecm = e.esecm /\ c.next = e.next
<1>1. INDEX_INVALID_VALUE \in Nat
  BY DEF INDEX_INVALID_VALUE
<1> QED BY <1>1, Zenon DEF CopyEntry, PIDRec

\* What a PID of the list n says of its stream and program.
Right(t, n, ts, prog) ==
    IF n[1] \in TSType THEN ts = n[2] ELSE prog = n[2] /\ ts = t.prog[n[2]].ts

OneCopied(t, u, P, V, OP, NW, R, j, e) ==
    State(u, P, V, OP, NW, R) /\ PutAt(t, u, <<j>>) /\ u.pid[j] = e

\* One entry copied to a reserved index becomes the last of its list, which is open.
LEMMA CopyOne ==
    ASSUME NEW t, NEW P, NEW W, NEW OP, NEW OW, NEW R, State(t, P, W, OP, OW, R),
           NEW e \in PIDRec, NEW n \in Names, e.type = n[1], n[1] # "ES_ECMPID", Owned(t, n), n \in OW,
           NEW j \in DOMAIN t.pid, t.pid[j].type = "UNKNOWN", Len(W[n]) + 1 < MAX_INDEX_LIST_NUMBER,
           NEW ts \in Nat, NEW prog \in Nat, Right(t, n, ts, prog), NEW c, c = CopyEntry(e, ts, prog),
           NEW u, u = [t EXCEPT !.pid[j] = c],
           NEW NW, OW \subseteq NW, n[1] = "ESPID" => <<"ES_ECMPID", j>> \in NW
    PROVE  OneCopied(t, u, P, With(W, n, <<j>>), OP, NW, Minus(R, <<j>>), j, c)
<1>1. Layout(t, P, W, OP, OW, R) /\ Shape(t)
  BY DEF State, Layout
<1>2. /\ c \in PIDRec /\ c.valid /\ c.ts = ts /\ c.prog = prog /\ c.type = n[1]
  BY CopyEntryFacts
<1>3. PutAt(t, u, <<j>>) /\ u.pid[j] = c
  BY <1>1, <1>2, OneIs
<1>4. u.prog = t.prog
  BY <1>3 DEF PutAt
<1>5. PointsBack(u, n, j)
  <2>1. n[1] \in Types \ {"UNKNOWN"}
    BY NameFacts
  <2>2. CASE n[1] \in TSType
    BY <1>2, <1>3, <2>2 DEF PointsBack, TSType, Right
  <2>3. CASE n[1] \notin TSType
    BY <1>2, <1>3, <1>4, <2>3 DEF PointsBack, TSType, Right
  <2> QED BY <2>2, <2>3
<1>6. n \in NW
  OBVIOUS
<1>7. Layout(u, P, With(W, n, <<j>>), OP, NW, Minus(R, <<j>>))
  BY <1>1, <1>2, <1>3, <1>5, <1>6, PutOne, Zenon
<1>8. \A x \in DOMAIN t.pid : x # j => u.pid[x] = t.pid[x]
  <2>1. PICK s : s = <<j>>
    BY Zenon
  <2>2. \A k \in 1 .. Len(s) : s[k] = j
    BY <2>1
  <2> QED BY <1>3, <2>1, <2>2 DEF PutAt
<1>9. Reserved(u, Minus(R, <<j>>))
  <2>1. ASSUME NEW x \in Minus(R, <<j>>) PROVE x \in R /\ x # j
    <3>1. PICK s : s = <<j>>
      OBVIOUS
    <3>2. 1 \in 1 .. Len(s) /\ s[1] = j
      BY <3>1
    <3>3. x \in Minus(R, s)
      BY <2>1, <3>1
    <3> QED BY <3>2, <3>3 DEF Minus
  <2>2. DOMAIN u.pid = DOMAIN t.pid
    BY <1>3 DEF PutAt
  <2> QED BY <1>8, <2>1, <2>2 DEF Reserved, State
<1>10. Unowned(u)
  <2>1. DOMAIN u.pid = DOMAIN t.pid
    BY <1>3 DEF PutAt
  <2>2. u.pid[j].type # "ES_ECMPID"
    BY <1>2, <1>3
  <2> QED BY <1>8, <2>1, <2>2 DEF Unowned, State
<1> QED BY <1>3, <1>7, <1>9, <1>10 DEF OneCopied, State

\* Nothing but the link of the PID j has changed.
Relinked(t, u, j, x) ==
    /\ Shape(u) /\ u.ts = t.ts /\ u.prog = t.prog /\ DOMAIN u.pid = DOMAIN t.pid
    /\ \A y \in DOMAIN t.pid : y # j => u.pid[y] = t.pid[y]
    /\ u.pid[j].next = x /\ u.pid[j].valid = t.pid[j].valid /\ u.pid[j].type = t.pid[j].type
    /\ u.pid[j].ts = t.pid[j].ts /\ u.pid[j].prog = t.pid[j].prog
    /\ u.pid[j].owner = t.pid[j].owner /\ u.pid[j].esecm = t.pid[j].esecm

\* A link is overwritten, and nothing else.
LEMMA RelinkFacts ==
    ASSUME NEW t, Shape(t), NEW j \in DOMAIN t.pid, NEW x \in Nat, NEW u, u = [t EXCEPT !.pid[j].next = x]
    PROVE  Relinked(t, u, j, x)
<1>1. PICK e : e = t.pid[j]
  OBVIOUS
<1>2. e \in PIDRec
  BY <1>1, ShapeFacts
<1>3. PICK f : f = [e EXCEPT !.next = x]
  BY Zenon
<1>4. /\ f \in PIDRec /\ f.next = x /\ f.valid = e.valid /\ f.type = e.type /\ f.ts = e.ts /\ f.prog = e.prog
      /\ f.owner = e.owner /\ f.esecm = e.esecm
  BY <1>2, <1>3 DEF PIDRec
<1>5. u = [t EXCEPT !.pid[j] = f]
  BY <1>1, <1>3
<1>6. PutAt(t, u, <<j>>) /\ u.pid[j] = f
  <2>1. PICK w : w = [t EXCEPT !.pid[j] = f]
    BY Zenon
  <2>2. PutAt(t, w, <<j>>) /\ w.pid[j] = f
    BY <1>4, <2>1, OneIs
  <2>3. u = w
    BY <1>5, <2>1
  <2> QED BY <2>2, <2>3, Zenon
<1>7. \A y \in DOMAIN t.pid : y # j => u.pid[y] = t.pid[y]
  <2>1. PICK s : s = <<j>>
    BY Zenon
  <2>2. \A k \in 1 .. Len(s) : s[k] = j
    BY <2>1
  <2> QED BY <1>6, <2>1, <2>2 DEF PutAt
<1> QED BY <1>1, <1>4, <1>6, <1>7 DEF Relinked, PutAt

\* A layout does not depend on the links of an open list.
LEMMA LinkNext ==
    ASSUME NEW t, NEW P, NEW W, NEW OP, NEW OW, NEW R, State(t, P, W, OP, OW, R),
           NEW n \in Names, n \in OW, NEW k \in 1 .. Len(W[n]), NEW j, j = W[n][k],
           NEW x, NEW u, Relinked(t, u, j, x)
    PROVE  State(u, P, W, OP, OW, R)
<1>1. Layout(t, P, W, OP, OW, R) /\ Shape(t) /\ Placed(t, P, W) /\ Once(Names, W) /\ Known(t, R)
  BY DEF State, Layout
<1>2. j \in DOMAIN t.pid
  BY <1>1 DEF Placed
<1>3. \A y \in DOMAIN t.pid : /\ u.pid[y].type = t.pid[y].type /\ u.pid[y].ts = t.pid[y].ts
                              /\ u.pid[y].prog = t.pid[y].prog /\ u.pid[y].valid = t.pid[y].valid
                              /\ u.pid[y].owner = t.pid[y].owner /\ u.pid[y].esecm = t.pid[y].esecm
  BY DEF Relinked
<1>4. Shape(u) /\ u.ts = t.ts /\ u.prog = t.prog /\ DOMAIN u.pid = DOMAIN t.pid
  BY DEF Relinked
<1>5. Known(u, R)
  BY <1>1, <1>3, <1>4 DEF Known
<1>6. ASSUME NEW m \in Names, m \notin OW
      PROVE  /\ \A y \in 1 .. Len(W[m]) : u.pid[W[m][y]].next = t.pid[W[m][y]].next
             /\ Owned(u, m) => HeadRec(u, m) = HeadRec(t, m)
  <2>1. ASSUME NEW y \in 1 .. Len(W[m]) PROVE u.pid[W[m][y]].next = t.pid[W[m][y]].next
    <3>1. m # n
      BY <1>6
    <3>2. W[m][y] # j
      BY <1>1, <3>1 DEF Once
    <3>3. W[m][y] \in DOMAIN t.pid
      BY <1>1 DEF Placed
    <3> QED BY <3>2, <3>3 DEF Relinked
  <2>2. Owned(u, m) => HeadRec(u, m) = HeadRec(t, m)
    BY <1>3, <1>4 DEF Owned, HeadRec
  <2> QED BY <2>1, <2>2
<1>7. SameEntries(t, u)
  BY <1>4 DEF SameEntries
<1>8. PIDsTouched(t, u, W, OW)
  BY <1>3, <1>4, <1>6, <1>7 DEF PIDsTouched
<1>9. Layout(u, P, W, OP, OW, R)
  <2>1. OW \subseteq OW
    OBVIOUS
  <2> QED BY <1>1, <1>4, <1>5, <1>8, <2>1, TouchPIDs
<1>10. Reserved(u, R)
  BY <1>3, <1>4 DEF Reserved, State
<1>11. Unowned(u)
  BY <1>3, <1>4 DEF Unowned, State
<1> QED BY <1>9, <1>10, <1>11 DEF State

\* The entries that CopyECMs copies.
ECMsAre(t, v, ts, prog, new, found, src) ==
    /\ PutAt(t, v, new)
    /\ \A k \in 1 .. Len(new) :
        /\ v.pid[new[k]].valid /\ v.pid[new[k]].type = found.pid[src[k]].type
        /\ v.pid[new[k]].ts = ts /\ v.pid[new[k]].prog = prog /\ v.pid[new[k]].owner = INDEX_INVALID_VALUE
        /\ v.pid[new[k]].next = After(new, k)

\* CopyECMs fills the entries new, linked in this order, and no other.
LEMMA CopyECMsFacts ==
    ASSUME NEW t, Shape(t), NEW ts \in Nat, NEW prog \in Nat, NEW new \in Seq(Nat), Distinct(new),
           \A k \in 1 .. Len(new) : new[k] \in DOMAIN t.pid,
           NEW found, NEW src, \A k \in 1 .. Len(new) : found.pid[src[k]] \in PIDRec,
           NEW v, v = CopyECMs(t, ts, prog, new, found, src)
    PROVE  ECMsAre(t, v, ts, prog, new, found, src)
<1> DEFINE E(k) == [found.pid[src[k]] EXCEPT !.valid = TRUE, !.ts = ts, !.prog = prog,
                        !.owner = INDEX_INVALID_VALUE, !.next = After(new, k)]
<1>1. ASSUME NEW k \in 1 .. Len(new)
      PROVE  /\ E(k) \in PIDRec /\ E(k).valid /\ E(k).type = found.pid[src[k]].type /\ E(k).ts = ts
             /\ E(k).prog = prog /\ E(k).owner = INDEX_INVALID_VALUE /\ E(k).next = After(new, k)
  <2>1. PICK x : x = After(new, k)
    OBVIOUS
  <2>2. x \in Nat
    <3>1. CASE k < Len(new)
      <4>1. k + 1 \in 1 .. Len(new)
        BY <3>1
      <4>2. new[k + 1] \in Nat
        BY <4>1
      <4> QED BY <2>1, <3>1, <4>2 DEF After
    <3>2. CASE ~(k < Len(new))
      BY <2>1, <3>2 DEF After, INDEX_INVALID_VALUE
    <3> QED BY <3>1, <3>2
  <2>3. PICK e \in PIDRec : e = found.pid[src[k]]
    OBVIOUS
  <2>4. PICK f : f = [e EXCEPT !.valid = TRUE, !.ts = ts, !.prog = prog, !.owner = INDEX_INVALID_VALUE, !.next = x]
    OBVIOUS
  <2>5. INDEX_INVALID_VALUE \in Nat
    BY DEF INDEX_INVALID_VALUE
  <2>6. f \in PIDRec /\ f.valid /\ f.type = e.type /\ f.ts = ts /\ f.prog = prog /\ f.owner = INDEX_INVALID_VALUE /\ f.next = x
    BY <2>2, <2>4, <2>5, Zenon DEF PIDRec
  <2>7. E(k) = f
    BY <2>1, <2>3, <2>4
  <2> QED BY <2>1, <2>3, <2>6, <2>7
<1>2. PICK f : f = [i \in DOMAIN t.pid |-> IF Contains(new, i) THEN E(PosIn(new, i)) ELSE t.pid[i]]
  BY Zenon
<1>3. v = [t EXCEPT !.pid = f]
  BY <1>2, Zenon DEF CopyECMs
<1> HIDE DEF E
<1>4. \A i : Contains(new, i) => PosIn(new, i) \in 1 .. Len(new) /\ new[PosIn(new, i)] = i
  BY PosFacts DEF Distinct
<1>5. \A k \in 1 .. Len(new) : Contains(new, new[k]) /\ PosIn(new, new[k]) = k
  BY PosFacts DEF Distinct
<1>6. f = [i \in DOMAIN t.pid |-> f[i]] /\ \A i \in DOMAIN t.pid : f[i] \in PIDRec
  <2>1. ASSUME NEW i \in DOMAIN t.pid PROVE f[i] \in PIDRec
    <3>1. t.pid[i] \in PIDRec
      BY ShapeFacts
    <3>2. Contains(new, i) => E(PosIn(new, i)) \in PIDRec
      BY <1>1, <1>4
    <3> QED BY <1>2, <3>1, <3>2
  <2>2. f = [i \in DOMAIN t.pid |-> f[i]]
    BY <1>2
  <2> QED BY <2>1, <2>2, Zenon
<1>7. Shape(v) /\ v.ts = t.ts /\ v.prog = t.prog /\ v.pid = f
  BY <1>3, <1>6, SetPIDs
<1>8. \A j \in DOMAIN t.pid : (\A k \in 1 .. Len(new) : new[k] # j) => v.pid[j] = t.pid[j]
  <2>1. ASSUME NEW j \in DOMAIN t.pid, \A k \in 1 .. Len(new) : new[k] # j PROVE v.pid[j] = t.pid[j]
    <3>1. ~Contains(new, j)
      BY <1>4, <2>1
    <3> QED BY <1>2, <1>7, <3>1
  <2> QED BY <2>1, Zenon
<1>9. DOMAIN v.pid = DOMAIN t.pid
  BY <1>2, <1>7
<1>10. PutAt(t, v, new)
  BY <1>7, <1>8, <1>9 DEF PutAt
<1>11. \A k \in 1 .. Len(new) : v.pid[new[k]] = E(k)
  BY <1>2, <1>5, <1>7
<1> QED BY <1>1, <1>10, <1>11 DEF ECMsAre

\* Nothing of R is among the new indices.
LEMMA MinusNone ==
    ASSUME NEW R, NEW s, \A k \in 1 .. Len(s) : s[k] \notin R
    PROVE  Minus(R, s) = R
BY DEF Minus

ECMsCopied(t, v, P, V, OP, NW, R, new) ==
    /\ State(v, P, V, OP, NW, R) /\ PutAt(t, v, new)
    /\ \A k \in 1 .. Len(new) : v.pid[new[k]].next = After(new, k)

\* The ECMs of a stream are copied to the list of the copy.
LEMMA CopyECMsDone ==
    ASSUME NEW t, NEW P, NEW W, NEW OP, NEW NW, NEW R, State(t, P, W, OP, NW, R),
           NEW j \in DOMAIN t.pid, t.pid[j].type = "ESPID", NEW n, n = <<"ES_ECMPID", j>>, n \in Names, W[n] = << >>, n \in NW,
           NEW ts \in Nat, NEW p \in Nat, t.pid[j].prog = p, ts = t.prog[p].ts,
           NEW new, Fresh(t.pid, new, Len(new)), Len(new) < MAX_INDEX_LIST_NUMBER,
           NEW found, NEW src, \A k \in 1 .. Len(new) : found.pid[src[k]] \in PIDRec /\ found.pid[src[k]].type = "ES_ECMPID",
           NEW v, v = CopyECMs(t, ts, p, new, found, src)
    PROVE  ECMsCopied(t, v, P, With(W, n, new), OP, NW, R, new)
<1>1. Layout(t, P, W, OP, NW, R) /\ Shape(t) /\ Known(t, R) /\ Reserved(t, R) /\ Unowned(t)
  BY DEF State, Layout
<1>2. /\ new \in Seq(Nat) /\ Distinct(new)
      /\ \A k \in 1 .. Len(new) : new[k] \in DOMAIN t.pid /\ ~t.pid[new[k]].valid
  BY DEF Fresh, Distinct
<1>3. ECMsAre(t, v, ts, p, new, found, src)
  BY <1>1, <1>2, CopyECMsFacts, Zenon
<1>4. PutAt(t, v, new) /\ \A k \in 1 .. Len(new) :
        /\ v.pid[new[k]].valid /\ v.pid[new[k]].type = "ES_ECMPID" /\ v.pid[new[k]].ts = ts
        /\ v.pid[new[k]].prog = p /\ v.pid[new[k]].owner = INDEX_INVALID_VALUE /\ v.pid[new[k]].next = After(new, k)
  BY <1>3 DEF ECMsAre
<1>5. \A k \in 1 .. Len(new) : t.pid[new[k]].type = "UNKNOWN" /\ new[k] \notin R
  BY <1>1, <1>2, Zenon DEF Known, Reserved
<1>6. n[1] = "ES_ECMPID" /\ n[2] = j
  OBVIOUS
<1>7. v.ts = t.ts /\ v.prog = t.prog /\ DOMAIN v.pid = DOMAIN t.pid /\ Shape(v)
  BY <1>4 DEF PutAt
<1>8. v.pid[j] = t.pid[j]
  <2>1. \A k \in 1 .. Len(new) : new[k] # j
    BY <1>5
  <2> QED BY <1>4, <2>1 DEF PutAt
<1>9. RunPut(t, v, n, new)
  <2>1. ASSUME NEW k \in 1 .. Len(new)
        PROVE  v.pid[new[k]].type = n[1] /\ PointsBack(v, n, new[k])
    <3>1. v.pid[n[2]].prog = p /\ v.prog[p].ts = ts
      BY <1>6, <1>7, <1>8
    <3>2. v.pid[new[k]].prog = p /\ v.pid[new[k]].ts = ts /\ v.pid[new[k]].type = "ES_ECMPID"
      BY <1>4
    <3>3. PointsBack(v, n, new[k])
      BY <1>6, <3>1, <3>2 DEF PointsBack
    <3> QED BY <1>6, <3>2, <3>3
  <2>2. \A k \in 1 .. Len(new) :
        /\ new[k] \in DOMAIN t.pid /\ t.pid[new[k]].type = "UNKNOWN"
        /\ v.pid[new[k]].type = n[1] /\ PointsBack(v, n, new[k])
    BY <1>2, <1>5, <2>1, Zenon
  <2> QED BY <1>2, <1>4, <1>7, <2>2, Zenon DEF RunPut, PutAt
<1>10. Known(v, R)
  <2>1. Known(v, Minus(R, new))
    <3>1. \A k \in 1 .. Len(new) : v.pid[new[k]].valid /\ v.pid[new[k]].type # "UNKNOWN"
      BY <1>4
    <3> QED BY <1>1, <1>4, <3>1, KnownPut
  <2>2. Minus(R, new) = R
    BY <1>5, MinusNone
  <2> QED BY <2>1, <2>2
<1>11. Owned(t, n)
  BY <1>6 DEF Owned
<1>12. Len(W[n]) + Len(new) < MAX_INDEX_LIST_NUMBER
  <2>1. PICK a \in Nat : a = Len(new)
    BY <1>2
  <2>2. 0 + a < MAX_INDEX_LIST_NUMBER
    BY <2>1, TableAssumption
  <2>3. Len(W[n]) = 0
    <3>1. PICK w : w = W[n]
      OBVIOUS
    <3>2. w = << >>
      BY <3>1
    <3>3. Len(w) = 0
      BY <3>2
    <3> QED BY <3>1, <3>3
  <2> QED BY <2>1, <2>2, <2>3
<1>13. Layout(v, P, With(W, n, new), OP, NW, R)
  <2>1. NW \subseteq NW /\ n[1] # "ESPID"
    BY <1>6
  <2> QED BY <1>1, <1>9, <1>10, <1>11, <1>12, <2>1, PutRun
<1>14. Reserved(v, R)
  <2>1. ASSUME NEW x \in R PROVE v.pid[x] = t.pid[x] /\ x \in DOMAIN t.pid
    <3>1. \A k \in 1 .. Len(new) : new[k] # x
      BY <1>5
    <3> QED BY <1>1, <1>4, <3>1 DEF PutAt, Reserved
  <2> QED BY <1>1, <1>7, <2>1 DEF Reserved
<1>15. Unowned(v)
  <2>1. ASSUME NEW x \in DOMAIN v.pid, v.pid[x].type = "ES_ECMPID" PROVE v.pid[x].owner = INDEX_INVALID_VALUE
    <3>1. CASE \E k \in 1 .. Len(new) : new[k] = x
      BY <1>4, <3>1, SMTT(30)
    <3>2. CASE \A k \in 1 .. Len(new) : new[k] # x
      <4>1. v.pid[x] = t.pid[x] /\ x \in DOMAIN t.pid
        BY <1>4, <1>7, <3>2 DEF PutAt
      <4> QED BY <1>1, <2>1, <4>1 DEF Unowned
    <3> QED BY <3>1, <3>2
  <2> QED BY <2>1 DEF Unowned
<1> QED BY <1>4, <1>13, <1>14, <1>15 DEF ECMsCopied, State

\* A layout of a larger array of PIDs, with the same ones reserved.
LEMMA GrowState ==
    ASSUME NEW t, NEW P, NEW W, NEW OP, NEW OW, NEW R, State(t, P, W, OP, OW, R),
           NEW u, Grows(t, u), u.prog = t.prog
    PROVE  State(u, P, W, OP, OW, R)
<1>1. Layout(u, P, W, OP, OW, R)
  BY MorePIDs DEF State, Reserved
<1>2. Reserved(u, R)
  BY DEF Reserved, Grows, State
<1>3. Unowned(u)
  BY DEF Unowned, Grows, State, ZeroPID
<1> QED BY <1>1, <1>2, <1>3 DEF State

\* A list that is linked from its head to its end need not be open any more.
LEMMA CloseList ==
    ASSUME NEW t, NEW P, NEW W, NEW OP, NEW OW, NEW R, NEW n \in Names, State(t, P, W, OP, OW \cup {n}, R),
           Strung(t, n, W[n])
    PROVE  State(t, P, W, OP, OW, R)
<1>1. \A i \in DOMAIN t.ts : t.ts[i].valid /\ i \in OP \ OP => Chain(t.prog, t.ts[i].prog, P[i])
  OBVIOUS
<1>2. \A m \in Names : Owned(t, m) /\ m \in (OW \cup {n}) \ OW => Strung(t, m, W[m])
  OBVIOUS
<1>3. Layout(t, P, W, OP, OW \cup {n}, R)
  BY DEF State
<1> QED BY <1>1, <1>2, <1>3, Close DEF State

\* Nothing but the head of the ECMs of the PID j has changed.
Reheaded(t, u, j, x) ==
    /\ Shape(u) /\ u.ts = t.ts /\ u.prog = t.prog /\ DOMAIN u.pid = DOMAIN t.pid
    /\ \A y \in DOMAIN t.pid : y # j => u.pid[y] = t.pid[y]
    /\ u.pid[j].next = t.pid[j].next /\ u.pid[j].valid = t.pid[j].valid /\ u.pid[j].type = t.pid[j].type
    /\ u.pid[j].ts = t.pid[j].ts /\ u.pid[j].prog = t.pid[j].prog
    /\ u.pid[j].owner = t.pid[j].owner /\ u.pid[j].esecm.head = x /\ u.pid[j].esecm.num = t.pid[j].esecm.num

\* The head of the list of a stream's ECMs is overwritten, and nothing else.
LEMMA ReheadFacts ==
    ASSUME NEW t, Shape(t), NEW j \in DOMAIN t.pid, NEW x \in Nat, NEW u, u = [t EXCEPT !.pid[j].esecm.head = x]
    PROVE  Reheaded(t, u, j, x)
<1>1. PICK e : e = t.pid[j]
  OBVIOUS
<1>2. e \in PIDRec
  BY <1>1, ShapeFacts
<1>3. PICK f : f = [e EXCEPT !.esecm.head = x]
  BY Zenon
<1>4. /\ f \in PIDRec /\ f.next = e.next /\ f.valid = e.valid /\ f.type = e.type /\ f.ts = e.ts /\ f.prog = e.prog
      /\ f.owner = e.owner /\ f.esecm.head = x /\ f.esecm.num = e.esecm.num
  BY <1>2, <1>3 DEF PIDRec, ListRec
<1>5. u = [t EXCEPT !.pid[j] = f]
  BY <1>1, <1>3
<1>6. PutAt(t, u, <<j>>) /\ u.pid[j] = f
  <2>1. PICK w : w = [t EXCEPT !.pid[j] = f]
    BY Zenon
  <2>2. PutAt(t, w, <<j>>) /\ w.pid[j] = f
    BY <1>4, <2>1, OneIs
  <2>3. u = w
    BY <1>5, <2>1
  <2> QED BY <2>2, <2>3, Zenon
<1>7. \A y \in DOMAIN t.pid : y # j => u.pid[y] = t.pid[y]
  <2>1. PICK s : s = <<j>>
    BY Zenon
  <2>2. \A k \in 1 .. Len(s) : s[k] = j
    BY <2>1
  <2> QED BY <1>6, <2>1, <2>2 DEF PutAt
<1> QED BY <1>1, <1>4, <1>6, <1>7 DEF Reheaded, PutAt

\* A layout does not depend on the head of an open list.
LEMMA HeadECMs ==
    ASSUME NEW t, NEW P, NEW W, NEW OP, NEW OW, NEW R, State(t, P, W, OP, OW, R),
           NEW j, <<"ES_ECMPID", j>> \in OW, j \in DOMAIN t.pid, NEW x, NEW u, Reheaded(t, u, j, x)
    PROVE  State(u, P, W, OP, OW, R)
<1>1. Layout(t, P, W, OP, OW, R) /\ Shape(t) /\ Placed(t, P, W) /\ Known(t, R)
  BY DEF State, Layout
<1>2. \A y \in DOMAIN t.pid : /\ u.pid[y].type = t.pid[y].type /\ u.pid[y].ts = t.pid[y].ts
                              /\ u.pid[y].prog = t.pid[y].prog /\ u.pid[y].valid = t.pid[y].valid
                              /\ u.pid[y].owner = t.pid[y].owner /\ u.pid[y].next = t.pid[y].next
  BY DEF Reheaded
<1>3. Shape(u) /\ u.ts = t.ts /\ u.prog = t.prog /\ DOMAIN u.pid = DOMAIN t.pid
  BY DEF Reheaded
<1>4. Known(u, R)
  BY <1>1, <1>2, <1>3 DEF Known
<1>5. ASSUME NEW m \in Names, m \notin OW
      PROVE  /\ \A y \in 1 .. Len(W[m]) : u.pid[W[m][y]].next = t.pid[W[m][y]].next
             /\ Owned(u, m) => HeadRec(u, m) = HeadRec(t, m)
  <2>1. \A y \in 1 .. Len(W[m]) : u.pid[W[m][y]].next = t.pid[W[m][y]].next
    BY <1>1, <1>2, Zenon DEF Placed
  <2>2. ASSUME Owned(u, m) PROVE HeadRec(u, m) = HeadRec(t, m)
    <3>1. CASE m[1] = "ES_ECMPID"
      <4>1. m = <<m[1], m[2]>>
        BY NameFacts
      <4>2. m[2] # j
        BY <1>5, <3>1, <4>1
      <4>3. m[2] \in DOMAIN t.pid
        BY <1>3, <2>2, <3>1 DEF Owned
      <4>4. u.pid[m[2]] = t.pid[m[2]]
        BY <4>2, <4>3 DEF Reheaded
      <4> QED BY <3>1, <4>4 DEF HeadRec
    <3>2. CASE m[1] # "ES_ECMPID"
      BY <1>3, <3>2 DEF HeadRec
    <3> QED BY <3>1, <3>2
  <2> QED BY <2>1, <2>2
<1>6. SameEntries(t, u)
  BY <1>3 DEF SameEntries
<1>7. PIDsTouched(t, u, W, OW)
  BY <1>2, <1>3, <1>5, <1>6 DEF PIDsTouched
<1>8. Layout(u, P, W, OP, OW, R)
  <2>1. OW \subseteq OW
    OBVIOUS
  <2> QED BY <1>1, <1>3, <1>4, <1>7, <2>1, TouchPIDs
<1>9. Reserved(u, R)
  BY <1>2, <1>3 DEF Reserved, State
<1>10. Unowned(u)
  BY <1>2, <1>3 DEF Unowned, State
<1> QED BY <1>8, <1>9, <1>10 DEF State

\* The ECMs of an elementary stream are copied to the indices new.
ECMsTo(u, ts, prog, new, found, list, j) ==
    IF new = << >> THEN Ok(u)
    ELSE Ok([CopyECMs(u, ts, prog, new, found, Follow(found.pid, list.head, list.num)) EXCEPT !.pid[j].esecm.head = new[1]])

Copies(t, ts, prog, j, e) == [t EXCEPT !.pid[j] = CopyEntry(e, ts, prog)]

ECMsRoom(a, ts, prog, found, list, j) ==
    IF a.err = "SUCCESS" THEN ECMsTo(a.t, ts, prog, a.list, found, list, j) ELSE Err(a.err, a.t)

\* CopyInputPID in two parts: the entry, and for a stream of a program its ECMs.
LEMMA CopyPIDRaw ==
    ASSUME NEW t, NEW ts, NEW prog, NEW j, NEW found, NEW x
    PROVE  CopyInputPID(t, ts, prog, j, found, x) =
             IF found.pid[x].type # "ESPID" THEN Ok(Copies(t, ts, prog, j, found.pid[x]))
             ELSE ECMsRoom(UnusedPIDs(Copies(t, ts, prog, j, found.pid[x]), found.pid[x].esecm.num), ts, prog, found,
                           found.pid[x].esecm, j)
BY Zenon DEF CopyInputPID, Using, ECMsTo, ECMsRoom, CopyEntry, Copies

\* The ECMs of the stream j are copied.
ECMsRoomDone(t, r, P, W, OP, OW, R, j) ==
    /\ r.err = "SUCCESS" /\ r.t.ts = t.ts /\ r.t.prog = t.prog /\ DOMAIN t.pid \subseteq DOMAIN r.t.pid
    /\ \A x \in DOMAIN t.pid : x # j /\ t.pid[x].valid => r.t.pid[x] = t.pid[x]
    /\ \E V : State(r.t, P, V, OP, OW, R) /\ \A m \in Names : m[1] # "ES_ECMPID" => V[m] = W[m]

\* The ECMs are copied and the copy of the stream headed with them: their list is closed.
LEMMA CopyECMsHeaded ==
    ASSUME NEW u, NEW P, NEW W, NEW OP, NEW OW, NEW R, NEW q, State(u, P, W, OP, OW \cup {q}, R),
           NEW j \in DOMAIN u.pid, u.pid[j].type = "ESPID", u.pid[j].valid, q = <<"ES_ECMPID", j>>, q \in Names, W[q] = << >>,
           NEW ts \in Nat, NEW p \in Nat, u.pid[j].prog = p, ts = u.prog[p].ts,
           NEW new, Fresh(u.pid, new, Len(new)), new # << >>, Len(new) < MAX_INDEX_LIST_NUMBER,
           u.pid[j].esecm.num = Len(new),
           NEW found, NEW src, \A k \in 1 .. Len(new) : found.pid[src[k]] \in PIDRec /\ found.pid[src[k]].type = "ES_ECMPID",
           NEW v, v = CopyECMs(u, ts, p, new, found, src), NEW w, w = [v EXCEPT !.pid[j].esecm.head = new[1]]
    PROVE  ECMsRoomDone(u, Ok(w), P, W, OP, OW, R, j)
<1>1. ECMsCopied(u, v, P, With(W, q, new), OP, OW \cup {q}, R, new)
  BY CopyECMsDone, Zenon
<1>2. PICK V : V = With(W, q, new)
  OBVIOUS
<1>3. /\ State(v, P, V, OP, OW \cup {q}, R) /\ PutAt(u, v, new)
      /\ \A k \in 1 .. Len(new) : v.pid[new[k]].next = After(new, k)
  BY <1>1, <1>2 DEF ECMsCopied
<1>4. /\ Shape(v) /\ v.ts = u.ts /\ v.prog = u.prog /\ DOMAIN v.pid = DOMAIN u.pid
      /\ \A x \in DOMAIN u.pid : (\A k \in 1 .. Len(new) : new[k] # x) => v.pid[x] = u.pid[x]
  BY <1>3 DEF PutAt
<1>5. new \in Seq(Nat) /\ \A k \in 1 .. Len(new) : new[k] \in DOMAIN u.pid /\ ~u.pid[new[k]].valid
  BY DEF Fresh
<1>6. new[1] \in Nat /\ Len(new) \in Nat \ {0}
  BY <1>5
<1>7. Reheaded(v, w, j, new[1])
  <2>1. PICK x \in Nat : x = new[1]
    BY <1>6
  <2>2. w = [v EXCEPT !.pid[j].esecm.head = x]
    BY <2>1
  <2>3. j \in DOMAIN v.pid
    BY <1>4
  <2>4. Reheaded(v, w, j, x)
    BY <1>4, <2>2, <2>3, ReheadFacts, Zenon
  <2> QED BY <2>1, <2>4, Zenon
<1>8. State(w, P, V, OP, OW \cup {q}, R)
  <2>1. q \in OW \cup {q} /\ j \in DOMAIN v.pid
    BY <1>4
  <2>2. PICK NW : NW = OW \cup {q}
    BY Zenon
  <2>3. State(v, P, V, OP, NW, R) /\ <<"ES_ECMPID", j>> \in NW
    BY <1>3, <2>1, <2>2
  <2>4. State(w, P, V, OP, NW, R)
    BY <1>7, <2>1, <2>3, HeadECMs, Zenon
  <2> QED BY <2>2, <2>4
<1>9. W \in [Names -> Seq(Nat)]
  BY DEF State, Layout, Placed
<1>10. V[q] = new /\ \A m \in Names : m # q => V[m] = W[m]
  <2>1. With(W, q, new)[q] = new /\ \A m \in Names : m # q => With(W, q, new)[m] = W[m]
    <3>1. PICK n : n = q
      OBVIOUS
    <3>2. n \in Names /\ W[n] = << >>
      BY <3>1
    <3>3. new \in Seq(Nat)
      BY <1>5
    <3>4. With(W, n, new)[n] = new /\ \A m \in Names : m # n => With(W, n, new)[m] = W[m]
      BY <1>9, <3>2, <3>3, WithFacts, Zenon
    <3> QED BY <3>1, <3>4, Zenon
  <2> QED BY <1>2, <2>1, Zenon
<1>11. \A x \in DOMAIN u.pid : x # j /\ u.pid[x].valid => w.pid[x] = u.pid[x]
  <2>1. ASSUME NEW x \in DOMAIN u.pid, x # j, u.pid[x].valid PROVE w.pid[x] = u.pid[x]
    <3>1. \A k \in 1 .. Len(new) : new[k] # x
      BY <1>5, <2>1
    <3>2. v.pid[x] = u.pid[x]
      BY <1>4, <3>1
    <3>3. w.pid[x] = v.pid[x]
      BY <1>4, <1>7, <2>1, Zenon DEF Reheaded
    <3> QED BY <3>2, <3>3, Zenon
  <2> QED BY <2>1
<1>12. Strung(w, q, V[q])
  <2>1. w.pid[j].esecm.head = new[1] /\ w.pid[j].esecm.num = Len(new)
    <3>1. v.pid[j] = u.pid[j]
      <4>1. \A k \in 1 .. Len(new) : new[k] # j
        BY <1>5, Zenon
      <4> QED BY <1>4, <4>1
    <3>2. w.pid[j].esecm.head = new[1] /\ w.pid[j].esecm.num = v.pid[j].esecm.num
      BY <1>7, Zenon DEF Reheaded
    <3> QED BY <3>1, <3>2
  <2>2. \A k \in 1 .. Len(new) : w.pid[new[k]].next = After(new, k)
    <3>1. ASSUME NEW k \in 1 .. Len(new) PROVE w.pid[new[k]] = v.pid[new[k]]
      <4>1. new[k] # j /\ new[k] \in DOMAIN v.pid
        BY <1>4, <1>5
      <4> QED BY <1>7, <4>1, Zenon DEF Reheaded
    <3> QED BY <1>3, <3>1, Zenon
  <2>3. q[1] = "ES_ECMPID" /\ q[2] = j
    OBVIOUS
  <2>4. HeadRec(w, q) = w.pid[j].esecm
    BY <2>3 DEF HeadRec
  <2>5. Chain(w.pid, HeadRec(w, q), new)
    BY <2>1, <2>2, <2>4, Zenon DEF Chain
  <2>6. Strung(w, q, new)
    BY <2>3, <2>5, Zenon DEF Strung
  <2> QED BY <1>10, <2>6, Zenon
<1>13. State(w, P, V, OP, OW, R)
  BY <1>8, <1>12, CloseList, Zenon
<1>14. w.ts = u.ts /\ w.prog = u.prog /\ DOMAIN u.pid \subseteq DOMAIN w.pid
  BY <1>4, <1>7, Zenon DEF Reheaded
<1>15. \A m \in Names : m[1] # "ES_ECMPID" => V[m] = W[m]
  <2>1. q[1] = "ES_ECMPID"
    OBVIOUS
  <2> QED BY <1>10, <2>1
<1>16. Ok(w).err = "SUCCESS" /\ Ok(w).t = w
  BY DEF Ok
<1>17. PICK r : r = Ok(w)
  OBVIOUS
<1>18. r.err = "SUCCESS" /\ r.t = w
  BY <1>16, <1>17, Zenon
<1>19. ECMsRoomDone(u, r, P, W, OP, OW, R, j)
  <2>1. \A x \in DOMAIN u.pid : x # j /\ u.pid[x].valid => r.t.pid[x] = u.pid[x]
    BY <1>11, <1>18
  <2>2. State(r.t, P, V, OP, OW, R)
    BY <1>13, <1>18, Zenon
  <2>3. r.t.ts = u.ts /\ r.t.prog = u.prog /\ DOMAIN u.pid \subseteq DOMAIN r.t.pid
    BY <1>14, <1>18
  <2>4. \E U : State(r.t, P, U, OP, OW, R) /\ \A m \in Names : m[1] # "ES_ECMPID" => U[m] = W[m]
    BY <1>15, <2>2
  <2> QED BY <1>18, <2>1, <2>3, <2>4, Zenon DEF ECMsRoomDone
<1> QED BY <1>17, <1>19, Zenon

\* The same, with the search for unused entries, which finds as many as the list needs.
LEMMA CopyECMsRoom ==
    ASSUME NEW c, NEW P, NEW W, NEW OP, NEW OW, NEW R, NEW q, State(c, P, W, OP, OW \cup {q}, R),
           NEW j \in DOMAIN c.pid, c.pid[j].type = "ESPID", c.pid[j].valid, q = <<"ES_ECMPID", j>>, q \in Names, W[q] = << >>,
           NEW ts \in Nat, NEW p \in Nat, c.pid[j].prog = p, ts = c.prog[p].ts,
           NEW list \in ListRec, c.pid[j].esecm = list, list.num < MAX_INDEX_LIST_NUMBER,
           NEW found, Shape(found), NEW src, TempList(found, list, src, "ES_ECMPID")
    PROVE  ECMsRoomDone(c, ECMsRoom(UnusedPIDs(c, list.num), ts, p, found, list, j), P, W, OP, OW, R, j)
<1>1. PICK a : a = UnusedPIDs(c, list.num)
  OBVIOUS
<1>2. list.num \in Nat /\ Shape(c)
  BY DEF ListRec, State, Layout
<1>3. GrowsPIDs(c, a, list.num)
  <2>1. list.num <= MAX_INDEX_LIST_NUMBER
    <3>1. MAX_INDEX_LIST_NUMBER \in Nat
      BY TableAssumption
    <3> QED BY <1>2, <3>1
  <2> QED BY <1>1, <1>2, <2>1, NewPIDs
<1>4. PICK u, new : u = a.t /\ new = a.list
  OBVIOUS
<1>5. /\ a.err = "SUCCESS" /\ Grows(c, u) /\ u.prog = c.prog /\ Fresh(u.pid, new, list.num)
  BY <1>3, <1>4 DEF GrowsPIDs
<1>6. /\ u.ts = c.ts /\ Shape(u) /\ DOMAIN c.pid \subseteq DOMAIN u.pid /\ \A x \in DOMAIN c.pid : u.pid[x] = c.pid[x]
  BY <1>5 DEF Grows
<1>7. State(u, P, W, OP, OW \cup {q}, R)
  BY <1>5, GrowState
<1>8. new \in Seq(Nat) /\ Len(new) = list.num
  BY <1>5 DEF Fresh
<1>9. u.pid[j] = c.pid[j] /\ j \in DOMAIN u.pid
  BY <1>6
<1>10. PICK r : r = ECMsRoom(a, ts, p, found, list, j)
  OBVIOUS
<1>11. r = ECMsTo(u, ts, p, new, found, list, j)
  BY <1>4, <1>5, <1>10 DEF ECMsRoom
<1>12. ECMsRoomDone(u, r, P, W, OP, OW, R, j)
  <2>1. CASE new = << >>
    <3>1. r.err = "SUCCESS" /\ r.t = u
      BY <1>11, <2>1 DEF ECMsTo, Ok
    <3>2. Strung(u, q, W[q])
      <4>1. list.num = 0
        BY <1>8, <2>1
      <4>2. q[1] = "ES_ECMPID" /\ q[2] = j
        OBVIOUS
      <4>3. HeadRec(u, q) = list
        BY <1>9, <4>2 DEF HeadRec
      <4>4. Chain(u.pid, list, << >>)
        BY <4>1 DEF Chain
      <4> QED BY <4>2, <4>3, <4>4 DEF Strung
    <3>3. State(u, P, W, OP, OW, R)
      BY <1>7, <3>2, CloseList, Zenon
    <3>4. State(r.t, P, W, OP, OW, R)
      BY <3>1, <3>3
    <3> QED BY <3>1, <3>4 DEF ECMsRoomDone
  <2>2. CASE new # << >>
    <3>1. Follow(found.pid, list.head, list.num) = src /\ Len(src) = Len(new)
          /\ \A k \in 1 .. Len(new) : src[k] \in DOMAIN found.pid /\ found.pid[src[k]].type = "ES_ECMPID"
      BY <1>8 DEF TempList
    <3>2. \A k \in 1 .. Len(new) : found.pid[src[k]] \in PIDRec /\ found.pid[src[k]].type = "ES_ECMPID"
      BY <3>1, ShapeFacts
    <3>3. PICK v : v = CopyECMs(u, ts, p, new, found, src)
      OBVIOUS
    <3>4. PICK w : w = [v EXCEPT !.pid[j].esecm.head = new[1]]
      BY Zenon
    <3>5. r = Ok(w)
      BY <1>11, <2>2, <3>1, <3>3, <3>4, Zenon DEF ECMsTo
    <3>6. Fresh(u.pid, new, Len(new)) /\ Len(new) < MAX_INDEX_LIST_NUMBER /\ u.pid[j].esecm.num = Len(new)
      BY <1>5, <1>8, <1>9
    <3>7. u.pid[j].type = "ESPID" /\ u.pid[j].valid /\ u.pid[j].prog = p /\ ts = u.prog[p].ts
      BY <1>5, <1>9
    <3>8. ECMsRoomDone(u, Ok(w), P, W, OP, OW, R, j)
      BY <1>7, <1>9, <2>2, <3>2, <3>3, <3>4, <3>6, <3>7, CopyECMsHeaded, Zenon
    <3> QED BY <3>5, <3>8
  <2> QED BY <2>1, <2>2
<1>13. r.t.ts = c.ts /\ r.t.prog = c.prog /\ DOMAIN c.pid \subseteq DOMAIN r.t.pid /\ r.err = "SUCCESS"
  BY <1>5, <1>6, <1>12 DEF ECMsRoomDone
<1>14. \A x \in DOMAIN c.pid : x # j /\ c.pid[x].valid => r.t.pid[x] = c.pid[x]
  BY <1>6, <1>12 DEF ECMsRoomDone
<1>15. \E V : State(r.t, P, V, OP, OW, R) /\ \A m \in Names : m[1] # "ES_ECMPID" => V[m] = W[m]
  BY <1>12 DEF ECMsRoomDone
<1>16. ECMsRoomDone(c, r, P, W, OP, OW, R, j)
  BY <1>13, <1>14, <1>15 DEF ECMsRoomDone
<1> QED BY <1>1, <1>10, <1>16

\* The PID j has become a copy in the list n.
PIDCopied(t, r, P, W, OP, OW, R, n, j) ==
    /\ r.err = "SUCCESS" /\ r.t.ts = t.ts /\ r.t.prog = t.prog /\ DOMAIN t.pid \subseteq DOMAIN r.t.pid
    /\ \A x \in DOMAIN t.pid : x # j /\ (n[1] = "ESPID" => t.pid[x].valid) => r.t.pid[x] = t.pid[x]
    /\ \E V : /\ State(r.t, P, V, OP, OW, Minus(R, <<j>>)) /\ V[n] = W[n] \o <<j>>
              /\ \A m \in Names : m # n /\ m[1] # "ES_ECMPID" => V[m] = W[m]

\* The entry of a PID as it is copied.
LEMMA CopyOf ==
    ASSUME NEW e \in PIDRec, NEW ts \in Nat, NEW prog \in Nat
    PROVE  \E f : /\ f = CopyEntry(e, ts, prog) /\ f \in PIDRec
                  /\ f.valid /\ f.ts = ts /\ f.prog = prog /\ f.type = e.type /\ f.esecm = e.esecm
<1>1. PICK f : f = CopyEntry(e, ts, prog)
  OBVIOUS
<1> QED BY <1>1, CopyEntryFacts

\* CopyInputPID: the copy is the last of its list and has its own ECMs.
LEMMA CopyPIDDone ==
    ASSUME NEW t, NEW P, NEW W, NEW OP, NEW OW, NEW R, State(t, P, W, OP, OW, R),
           NEW n \in Names, n[1] # "ES_ECMPID", Owned(t, n), n \in OW, Len(W[n]) + 1 < MAX_INDEX_LIST_NUMBER,
           NEW j \in DOMAIN t.pid, t.pid[j].type = "UNKNOWN",
           NEW ts \in Nat, NEW prog \in Nat, Right(t, n, ts, prog),
           NEW found, Shape(found), TempECMs(found), NEW x \in DOMAIN found.pid, found.pid[x].type = n[1],
           NEW r, r = CopyInputPID(t, ts, prog, j, found, x)
    PROVE  PIDCopied(t, r, P, W, OP, OW, R, n, j)
<1>1. PICK e : e = found.pid[x]
  OBVIOUS
<1>2. e \in PIDRec /\ e.type = n[1]
  BY <1>1, ShapeFacts
<1>3. PICK f : /\ f = CopyEntry(e, ts, prog) /\ f \in PIDRec
               /\ f.valid /\ f.ts = ts /\ f.prog = prog /\ f.type = e.type /\ f.esecm = e.esecm
  BY <1>2, CopyOf
<1>4. f.type = n[1]
  BY <1>2, <1>3
<1>5. PICK c : c = [t EXCEPT !.pid[j] = f]
  BY Zenon
<1>6. Copies(t, ts, prog, j, e) = c
  BY <1>3, <1>5, Zenon DEF Copies
<1>7. PICK V : V = With(W, n, <<j>>)
  OBVIOUS
<1>8. W \in [Names -> Seq(Nat)] /\ <<j>> \in Seq(Nat) /\ Shape(t)
  <2>1. Shape(t) /\ W \in [Names -> Seq(Nat)]
    BY DEF State, Layout, Placed
  <2>2. j \in Nat
    BY <2>1, ShapeFacts
  <2> QED BY <2>1, <2>2, OneSeq
<1>9. V[n] = W[n] \o <<j>> /\ \A m \in Names : m # n => V[m] = W[m]
  <2>1. PICK s : s = <<j>>
    BY Zenon
  <2>2. s \in Seq(Nat)
    BY <1>8, <2>1
  <2>3. With(W, n, s)[n] = W[n] \o s /\ \A m \in Names : m # n => With(W, n, s)[m] = W[m]
    BY <1>8, <2>2, WithFacts, ZenonT(60)
  <2> QED BY <1>7, <2>1, <2>3, Zenon
<1>10. CASE n[1] # "ESPID"
  <2>1. OneCopied(t, c, P, V, OP, OW, Minus(R, <<j>>), j, f)
    <3>1. OneCopied(t, c, P, With(W, n, <<j>>), OP, OW, Minus(R, <<j>>), j, f)
      BY <1>2, <1>3, <1>5, <1>10, CopyOne, Zenon
    <3> QED BY <1>7, <3>1
  <2>2. r = Ok(c)
    <3>1. r = IF e.type # "ESPID" THEN Ok(c)
              ELSE ECMsRoom(UnusedPIDs(c, e.esecm.num), ts, prog, found, e.esecm, j)
      BY <1>1, <1>6, CopyPIDRaw, Zenon
    <3> QED BY <1>2, <1>10, <3>1
  <2>3. r.err = "SUCCESS" /\ r.t = c
    BY <2>2 DEF Ok
  <2>4. State(c, P, V, OP, OW, Minus(R, <<j>>)) /\ PutAt(t, c, <<j>>)
    BY <2>1 DEF OneCopied
  <2>5. /\ c.ts = t.ts /\ c.prog = t.prog /\ DOMAIN c.pid = DOMAIN t.pid
        /\ \A y \in DOMAIN t.pid : y # j => c.pid[y] = t.pid[y]
    <3>1. PICK s : s = <<j>>
      BY Zenon
    <3>2. \A k \in 1 .. Len(s) : s[k] = j
      BY <3>1
    <3>3. PutAt(t, c, s)
      BY <2>4, <3>1
    <3> QED BY <3>2, <3>3 DEF PutAt
  <2>6. State(r.t, P, V, OP, OW, Minus(R, <<j>>))
    BY <2>3, <2>4
  <2>7. \A m \in Names : m # n /\ m[1] # "ES_ECMPID" => V[m] = W[m]
    BY <1>9
  <2>8. \E U : /\ State(r.t, P, U, OP, OW, Minus(R, <<j>>)) /\ U[n] = W[n] \o <<j>>
               /\ \A m \in Names : m # n /\ m[1] # "ES_ECMPID" => U[m] = W[m]
    BY <1>9, <2>6, <2>7, Zenon
  <2>9. \A y \in DOMAIN t.pid : y # j /\ (n[1] = "ESPID" => t.pid[y].valid) => r.t.pid[y] = t.pid[y]
    BY <2>3, <2>5
  <2> QED BY <2>3, <2>5, <2>8, <2>9, Zenon DEF PIDCopied
<1>11. CASE n[1] = "ESPID"
  <2>1. PICK q : q = <<"ES_ECMPID", j>>
    BY Zenon
  <2>2. q \in Names /\ W[q] = << >> /\ q[1] = "ES_ECMPID"
    <3>1. t.pid[j].type # "ESPID"
      OBVIOUS
    <3>2. <<"ES_ECMPID", j>> \in Names /\ W[<<"ES_ECMPID", j>>] = << >>
      BY <3>1, NoECMs DEF State
    <3> QED BY <2>1, <3>2
  <2>3. PICK NW : NW = OW \cup {q}
    BY Zenon
  <2>4. OneCopied(t, c, P, V, OP, NW, Minus(R, <<j>>), j, f)
    <3>1. OW \subseteq NW /\ <<"ES_ECMPID", j>> \in NW
      BY <2>1, <2>3
    <3>2. OneCopied(t, c, P, With(W, n, <<j>>), OP, NW, Minus(R, <<j>>), j, f)
      BY <1>2, <1>3, <1>5, <3>1, CopyOne, Zenon
    <3> QED BY <1>7, <3>2
  <2>5. State(c, P, V, OP, OW \cup {q}, Minus(R, <<j>>)) /\ PutAt(t, c, <<j>>) /\ c.pid[j] = f
    BY <2>3, <2>4 DEF OneCopied
  <2>6. /\ c.ts = t.ts /\ c.prog = t.prog /\ DOMAIN c.pid = DOMAIN t.pid
        /\ \A y \in DOMAIN t.pid : y # j => c.pid[y] = t.pid[y]
    <3>1. PICK s : s = <<j>>
      BY Zenon
    <3>2. \A k \in 1 .. Len(s) : s[k] = j
      BY <3>1
    <3>3. PutAt(t, c, s)
      BY <2>5, <3>1
    <3> QED BY <3>2, <3>3 DEF PutAt
  <2>7. PICK list : list = e.esecm
    OBVIOUS
  <2>8. r = ECMsRoom(UnusedPIDs(c, list.num), ts, prog, found, list, j)
    <3>1. r = IF e.type # "ESPID" THEN Ok(c)
              ELSE ECMsRoom(UnusedPIDs(c, e.esecm.num), ts, prog, found, e.esecm, j)
      BY <1>1, <1>6, CopyPIDRaw, Zenon
    <3> QED BY <1>2, <1>11, <2>7, <3>1
  <2>9. list \in ListRec /\ list.num < MAX_INDEX_LIST_NUMBER
    <3>1. e.esecm \in ListRec
      BY <1>2 DEF PIDRec
    <3>2. e.esecm.num < MAX_INDEX_LIST_NUMBER
      BY <1>1, <1>2, <1>11 DEF TempECMs
    <3> QED BY <2>7, <3>1, <3>2
  <2>10. PICK src : TempList(found, list, src, "ES_ECMPID")
    BY <1>1, <1>2, <1>11, <2>7 DEF TempECMs
  <2>11. /\ c.pid[j].type = "ESPID" /\ c.pid[j].valid /\ c.pid[j].prog = prog /\ ts = c.prog[prog].ts
         /\ c.pid[j].esecm = list /\ j \in DOMAIN c.pid
    <3>1. prog = n[2] /\ ts = t.prog[n[2]].ts
      BY <1>11 DEF Right, TSType
    <3> QED BY <1>3, <1>4, <1>11, <2>5, <2>6, <2>7, <3>1
  <2>12. V[q] = << >>
    <3>1. q # n
      BY <1>11, <2>2
    <3> QED BY <1>9, <2>2, <3>1
  <2>13. ECMsRoomDone(c, r, P, V, OP, OW, Minus(R, <<j>>), j)
    <3>1. PICK NR : NR = Minus(R, <<j>>)
      OBVIOUS
    <3>2. State(c, P, V, OP, OW \cup {q}, NR)
      BY <2>5, <3>1
    <3>3. ECMsRoomDone(c, ECMsRoom(UnusedPIDs(c, list.num), ts, prog, found, list, j), P, V, OP, OW, NR, j)
      BY <2>1, <2>2, <2>9, <2>10, <2>11, <2>12, <3>2, CopyECMsRoom, Zenon
    <3> QED BY <2>8, <3>1, <3>3, Zenon
  <2>14. PICK U : State(r.t, P, U, OP, OW, Minus(R, <<j>>)) /\ \A m \in Names : m[1] # "ES_ECMPID" => U[m] = V[m]
    BY <2>13 DEF ECMsRoomDone
  <2>15. U[n] = W[n] \o <<j>> /\ \A m \in Names : m # n /\ m[1] # "ES_ECMPID" => U[m] = W[m]
    <3>1. U[n] = V[n]
      BY <1>11, <2>14
    <3>2. \A m \in Names : m # n /\ m[1] # "ES_ECMPID" => U[m] = W[m]
      BY <1>9, <2>14
    <3> QED BY <1>9, <3>1, <3>2, Zenon
  <2>16. /\ r.err = "SUCCESS" /\ r.t.ts = t.ts /\ r.t.prog = t.prog /\ DOMAIN t.pid \subseteq DOMAIN r.t.pid
    BY <2>6, <2>13 DEF ECMsRoomDone
  <2>17. \A y \in DOMAIN t.pid : y # j /\ (n[1] = "ESPID" => t.pid[y].valid) => r.t.pid[y] = t.pid[y]
    <3>1. ASSUME NEW y \in DOMAIN t.pid, y # j, n[1] = "ESPID" => t.pid[y].valid PROVE r.t.pid[y] = t.pid[y]
      <4>1. c.pid[y] = t.pid[y] /\ y \in DOMAIN c.pid /\ t.pid[y].valid
        BY <1>11, <2>6, <3>1
      <4> QED BY <2>13, <3>1, <4>1 DEF ECMsRoomDone
    <3> QED BY <3>1
  <2> QED BY <2>14, <2>15, <2>16, <2>17, Zenon DEF PIDCopied
<1> QED BY <1>10, <1>11

\* One round of the copy of a list of PIDs.
Relink(w, idx, k) == [w EXCEPT !.pid[idx[k]].next = After(idx, k)]
OneListed(u, ts, prog, idx, found, list, k) ==
    Then(CopyInputPID(u, ts, prog, idx[k], found, Follow(found.pid, list.head, list.num)[k]),
         LAMBDA v : Ok(Relink(v, idx, k)))

ListCopies(g, t, seq, ts, prog, idx, found, list) ==
    /\ g[0] = Ok(t)
    /\ \A k \in 1 .. Len(seq) :
        g[k] = IF g[k - 1].err = "SUCCESS" THEN OneListed(g[k - 1].t, ts, prog, idx, found, list, seq[k]) ELSE g[k - 1]

ListCopiesLoop(t, seq, ts, prog, idx, found, list) == ForEach(t, seq, LAMBDA u, k : OneListed(u, ts, prog, idx, found, list, k))

\* The PIDs of a list in turn.
LEMMA ListCopiesDef ==
    ASSUME NEW t, NEW seq, Len(seq) \in Nat, NEW ts, NEW prog, NEW idx, NEW found, NEW list
    PROVE  \E g : /\ ListCopies(g, t, seq, ts, prog, idx, found, list)
                  /\ ListCopiesLoop(t, seq, ts, prog, idx, found, list) = g[Len(seq)]
<1> DEFINE n == Len(seq)
           Fit(g, m) == g = [k \in 0 .. m |->
               IF k = 0 THEN Ok(t)
               ELSE IF g[k - 1].err = "SUCCESS" THEN OneListed(g[k - 1].t, ts, prog, idx, found, list, seq[k]) ELSE g[k - 1]]
           G == {m \in 0 .. n : \E g : Fit(g, m)}
<1>0. n \in Nat
  OBVIOUS
<1>1. 0 \in G
  <2> DEFINE z == [k \in 0 .. 0 |-> Ok(t)]
  <2>1. Fit(z, 0)
    OBVIOUS
  <2> HIDE DEF z, Fit
  <2> QED BY <2>1
<1>2. ASSUME NEW m \in 1 .. n, m - 1 \in G PROVE m \in G
  <2>1. PICK g : Fit(g, m - 1)
    BY <1>2
  <2> DEFINE h == [k \in 0 .. m |->
               IF k = 0 THEN Ok(t)
               ELSE IF g[k - 1].err = "SUCCESS" THEN OneListed(g[k - 1].t, ts, prog, idx, found, list, seq[k]) ELSE g[k - 1]]
  <2>2. \A k \in 0 .. m - 1 : h[k] = g[k]
    BY <2>1
  <2>3. Fit(h, m)
    <3>1. \A k \in 0 .. m : k # 0 => k - 1 \in 0 .. m - 1
      OBVIOUS
    <3> QED BY <2>2, <3>1, ZenonT(30)
  <2> HIDE DEF h
  <2> QED BY <2>3
<1>3. n \in G
  <2> HIDE DEF G
  <2>1. G \in SUBSET (0 .. n)
    BY DEF G
  <2> HIDE DEF n
  <2>2. \A m \in 1 .. n : m - 1 \in G => m \in G
    BY <1>2
  <2>3. \A m \in 0 .. n : m \in G
    BY <1>0, <1>1, <2>1, <2>2, Upwards, Zenon
  <2> QED BY <1>0, <2>3
<1> DEFINE after == CHOOSE after : Fit(after, n)
<1>4. Fit(after, n)
  <2> HIDE DEF Fit
  <2> QED BY <1>3
<1>5. ListCopiesLoop(t, seq, ts, prog, idx, found, list) = after[n]
  BY Zenon DEF ListCopiesLoop, ForEach, Then
<1> HIDE DEF after
<1>6. ListCopies(after, t, seq, ts, prog, idx, found, list)
  BY <1>4 DEF ListCopies
<1> QED BY <1>5, <1>6

\* CopyPIDList is that loop.
LEMMA CopyListRaw ==
    ASSUME NEW t, NEW ts, NEW prog, NEW idx, NEW found, NEW list
    PROVE  CopyPIDList(t, ts, prog, idx, found, list) = ListCopiesLoop(t, Numbers(idx), ts, prog, idx, found, list)
BY Zenon DEF CopyPIDList, ListCopiesLoop, OneListed, Relink

\* A step of it copies one PID and links it.
LEMMA OneListedRaw ==
    ASSUME NEW u, NEW ts, NEW prog, NEW idx, NEW found, NEW list, NEW k, NEW src,
           Follow(found.pid, list.head, list.num) = src,
           NEW r, r = CopyInputPID(u, ts, prog, idx[k], found, src[k])
    PROVE  OneListed(u, ts, prog, idx, found, list, k) = IF r.err = "SUCCESS" THEN Ok(Relink(r.t, idx, k)) ELSE r
BY Zenon DEF OneListed, Then

\* R without the first k of s.
Less(R, s, k) == {j \in R : \A x \in 1 .. k : s[x] # j}

\* What a list of PIDs is copied for.
CopyFor(t, OW, R, n, s, ts, prog, found, list, src) ==
    /\ n \in Names /\ n[1] # "ES_ECMPID" /\ Owned(t, n) /\ n \in OW
    /\ ts \in Nat /\ prog \in Nat /\ Right(t, n, ts, prog)
    /\ s \in Seq(Nat) /\ Distinct(s) /\ Len(s) < MAX_INDEX_LIST_NUMBER
    /\ \A k \in 1 .. Len(s) : s[k] \in DOMAIN t.pid /\ (n[1] = "ESPID" => s[k] \in R)
    /\ Shape(found) /\ TempECMs(found) /\ TempList(found, list, src, n[1]) /\ Len(src) = Len(s)

\* The first k PIDs of the list n are copied.
CopyAt(t, u, P, W, V, OP, OW, R, n, s, k) ==
    /\ State(u, P, V, OP, OW, Less(R, s, k))
    /\ u.ts = t.ts /\ u.prog = t.prog /\ DOMAIN t.pid \subseteq DOMAIN u.pid
    /\ Len(V[n]) = k /\ \A x \in 1 .. k : V[n][x] = s[x] /\ u.pid[s[x]].next = After(s, x)
    /\ \A m \in Names : m # n /\ m[1] # "ES_ECMPID" => V[m] = W[m]
    /\ \A x \in 1 .. Len(s) : x > k => u.pid[s[x]].type = "UNKNOWN"
    /\ \A y \in DOMAIN t.pid : (\A x \in 1 .. Len(s) : s[x] # y) /\ (n[1] = "ESPID" => t.pid[y].valid) => u.pid[y] = t.pid[y]

\* One index less is reserved.
LEMMA LessStep ==
    ASSUME NEW R, NEW s, NEW k \in Nat \ {0}, NEW j, j = s[k]
    PROVE  Minus(Less(R, s, k - 1), <<j>>) = Less(R, s, k)
<1>1. \A x \in 1 .. k : x \in 1 .. k - 1 \/ x = k
  OBVIOUS
<1>2. \A x \in 1 .. k - 1 : x \in 1 .. k
  OBVIOUS
<1>3. k \in 1 .. k
  OBVIOUS
<1>4. PICK q : q = <<j>>
  BY Zenon
<1>5. Len(q) = 1 /\ q[1] = j
  BY <1>4
<1>6. \A y : (\A x \in 1 .. Len(q) : q[x] # y) <=> y # j
  BY <1>5
<1>7. \A y : (\A x \in 1 .. k : s[x] # y) <=> (y # j /\ \A x \in 1 .. k - 1 : s[x] # y)
  BY <1>1, <1>2, <1>3
<1>8. Minus(Less(R, s, k - 1), q) = Less(R, s, k)
  BY <1>6, <1>7, Zenon DEF Minus, Less
<1> QED BY <1>4, <1>8

\* The link of the k-th copy.
LEMMA RelinkIs ==
    ASSUME NEW t, Shape(t), NEW s \in Seq(Nat), NEW k \in 1 .. Len(s), s[k] \in DOMAIN t.pid
    PROVE  Relinked(t, Relink(t, s, k), s[k], After(s, k))
<1>1. PICK j, x : j = s[k] /\ x = After(s, k)
  OBVIOUS
<1>2. x \in Nat
  BY <1>1 DEF After, INDEX_INVALID_VALUE
<1>3. PICK u : u = [t EXCEPT !.pid[j].next = x]
  BY Zenon
<1>4. j \in DOMAIN t.pid
  BY <1>1
<1>5. Relinked(t, u, j, x)
  BY <1>2, <1>3, <1>4, RelinkFacts, Zenon
<1>6. Relink(t, s, k) = u
  BY <1>1, <1>3, Zenon DEF Relink
<1> QED BY <1>1, <1>5, <1>6

\* What a copy adds to the list n.
LEMMA Append1 ==
    ASSUME NEW w \in Seq(Nat), NEW j \in Nat, NEW v, v = w \o <<j>>, NEW k \in Nat \ {0}, Len(w) = k - 1
    PROVE  Len(v) = k /\ v[k] = j /\ \A x \in 1 .. k - 1 : v[x] = w[x]
OBVIOUS

\* The k-th PID of a list is copied behind those before it.
LEMMA CopyStep ==
    ASSUME NEW t, NEW P, NEW W, NEW OP, NEW OW, NEW R, NEW n, NEW s, NEW ts, NEW prog, NEW found, NEW list, NEW src,
           CopyFor(t, OW, R, n, s, ts, prog, found, list, src),
           NEW k \in 1 .. Len(s), NEW u, NEW V, CopyAt(t, u, P, W, V, OP, OW, R, n, s, k - 1),
           NEW r, r = OneListed(u, ts, prog, s, found, list, k)
    PROVE  r.err = "SUCCESS" /\ \E V2 : CopyAt(t, r.t, P, W, V2, OP, OW, R, n, s, k)
<1>1. /\ n \in Names /\ n[1] # "ES_ECMPID" /\ Owned(t, n) /\ n \in OW
      /\ ts \in Nat /\ prog \in Nat /\ Right(t, n, ts, prog)
      /\ s \in Seq(Nat) /\ Distinct(s) /\ Len(s) < MAX_INDEX_LIST_NUMBER
      /\ \A x \in 1 .. Len(s) : s[x] \in DOMAIN t.pid /\ (n[1] = "ESPID" => s[x] \in R)
      /\ Shape(found) /\ TempECMs(found) /\ TempList(found, list, src, n[1]) /\ Len(src) = Len(s)
  BY DEF CopyFor
<1>2. PICK j : j = s[k]
  OBVIOUS
<1>3. PICK Q : Q = Less(R, s, k - 1)
  OBVIOUS
<1>4. /\ State(u, P, V, OP, OW, Q) /\ u.ts = t.ts /\ u.prog = t.prog /\ DOMAIN t.pid \subseteq DOMAIN u.pid
      /\ Len(V[n]) = k - 1 /\ \A x \in 1 .. k - 1 : V[n][x] = s[x] /\ u.pid[s[x]].next = After(s, x)
      /\ \A m \in Names : m # n /\ m[1] # "ES_ECMPID" => V[m] = W[m]
      /\ \A x \in 1 .. Len(s) : x > k - 1 => u.pid[s[x]].type = "UNKNOWN"
      /\ \A y \in DOMAIN t.pid : (\A x \in 1 .. Len(s) : s[x] # y) /\ (n[1] = "ESPID" => t.pid[y].valid) => u.pid[y] = t.pid[y]
  BY <1>3 DEF CopyAt
<1>5. k \in Nat \ {0} /\ j \in Nat /\ j \in DOMAIN t.pid /\ j \in DOMAIN u.pid
  BY <1>1, <1>2, <1>4
<1>6. u.pid[j].type = "UNKNOWN"
  BY <1>2, <1>4, <1>5
<1>7. V \in [Names -> Seq(Nat)] /\ Shape(u)
  BY <1>4 DEF State, Layout, Placed
<1>8. Owned(u, n) /\ Right(u, n, ts, prog)
  BY <1>1, <1>4 DEF Owned, Right
<1>9. Len(V[n]) + 1 < MAX_INDEX_LIST_NUMBER
  <2>1. MAX_INDEX_LIST_NUMBER \in Nat
    BY TableAssumption
  <2>2. PICK b \in Nat : b = Len(s)
    BY <1>1
  <2>3. k \in 1 .. b /\ b < MAX_INDEX_LIST_NUMBER
    BY <1>1, <2>2
  <2>4. k - 1 + 1 < MAX_INDEX_LIST_NUMBER
    BY <2>1, <2>3
  <2> QED BY <1>4, <2>4
<1>10. PICK x : x = src[k]
  OBVIOUS
<1>11. x \in DOMAIN found.pid /\ found.pid[x].type = n[1] /\ Follow(found.pid, list.head, list.num) = src
  BY <1>1, <1>10 DEF TempList
<1>12. PICK c : c = CopyInputPID(u, ts, prog, j, found, x)
  OBVIOUS
<1>13. PIDCopied(u, c, P, V, OP, OW, Q, n, j)
  BY <1>1, <1>4, <1>5, <1>6, <1>8, <1>9, <1>11, <1>12, CopyPIDDone
<1>14. /\ c.err = "SUCCESS" /\ c.t.ts = t.ts /\ c.t.prog = t.prog /\ DOMAIN u.pid \subseteq DOMAIN c.t.pid
       /\ \A y \in DOMAIN u.pid : y # j /\ (n[1] = "ESPID" => u.pid[y].valid) => c.t.pid[y] = u.pid[y]
  BY <1>4, <1>13 DEF PIDCopied
<1>15. PICK V2 : /\ State(c.t, P, V2, OP, OW, Minus(Q, <<j>>)) /\ V2[n] = V[n] \o <<j>>
                 /\ \A m \in Names : m # n /\ m[1] # "ES_ECMPID" => V2[m] = V[m]
  BY <1>13, Zenon DEF PIDCopied
<1>16. Minus(Q, <<j>>) = Less(R, s, k)
  BY <1>2, <1>3, <1>5, LessStep
<1>17. Len(V2[n]) = k /\ V2[n][k] = j /\ \A y \in 1 .. k - 1 : V2[n][y] = s[y]
  <2>1. PICK w, v : w = V[n] /\ v = V2[n]
    OBVIOUS
  <2>2. w \in Seq(Nat) /\ v = w \o <<j>> /\ Len(w) = k - 1
    BY <1>1, <1>4, <1>7, <1>15, <2>1
  <2>3. Len(v) = k /\ v[k] = j /\ \A y \in 1 .. k - 1 : v[y] = w[y]
    BY <1>5, <2>2, Append1
  <2> QED BY <1>4, <2>1, <2>3
<1>18. PICK d : d = c.t
  OBVIOUS
<1>19. PICK z : z = Relink(d, s, k)
  OBVIOUS
<1>20. r.err = "SUCCESS" /\ r.t = z
  <2>1. r = Ok(z)
    <3>1. r = IF c.err = "SUCCESS" THEN Ok(Relink(c.t, s, k)) ELSE c
      <4>1. c = CopyInputPID(u, ts, prog, s[k], found, src[k])
        BY <1>2, <1>10, <1>12
      <4> QED BY <1>11, <4>1, OneListedRaw
    <3> QED BY <1>14, <1>18, <1>19, <3>1
  <2> QED BY <2>1 DEF Ok
<1>21. Shape(d) /\ j \in DOMAIN d.pid
  BY <1>5, <1>14, <1>15, <1>18 DEF State, Layout
<1>22. Relinked(d, z, j, After(s, k))
  BY <1>1, <1>2, <1>19, <1>21, RelinkIs, Zenon
<1>23. State(z, P, V2, OP, OW, Less(R, s, k))
  <2>1. State(d, P, V2, OP, OW, Less(R, s, k))
    BY <1>15, <1>16, <1>18
  <2>2. k \in 1 .. Len(V2[n]) /\ j = V2[n][k]
    BY <1>5, <1>17
  <2> QED BY <1>1, <1>22, <2>1, <2>2, LinkNext, Zenon
<1>24. /\ z.ts = d.ts /\ z.prog = d.prog /\ DOMAIN z.pid = DOMAIN d.pid
       /\ \A y \in DOMAIN d.pid : y # j => z.pid[y] = d.pid[y]
       /\ z.pid[j].next = After(s, k)
  BY <1>22 DEF Relinked
<1>25. \A y \in DOMAIN u.pid : y # j /\ (n[1] = "ESPID" => u.pid[y].valid) => z.pid[y] = u.pid[y]
  BY <1>14, <1>18, <1>24
<1>26. \A y \in 1 .. Len(s) : y # k => s[y] # j /\ s[y] \in DOMAIN u.pid /\ (n[1] = "ESPID" => u.pid[s[y]].valid)
  <2>1. ASSUME NEW y \in 1 .. Len(s), y # k PROVE s[y] # j /\ s[y] \in DOMAIN u.pid /\ (n[1] = "ESPID" => u.pid[s[y]].valid)
    <3>1. s[y] # j
      BY <1>1, <1>2, <2>1 DEF Distinct
    <3>2. s[y] \in DOMAIN u.pid
      BY <1>1, <1>4, Zenon
    <3>3. ASSUME n[1] = "ESPID" PROVE u.pid[s[y]].valid
      <4>1. CASE y > k - 1
        <5>1. s[y] \in Q
          <6>1. \A v \in 1 .. k - 1 : s[v] # s[y]
            <7>1. ASSUME NEW v \in 1 .. k - 1 PROVE s[v] # s[y]
              <8>1. v # y /\ v \in 1 .. Len(s)
                BY <1>5, <4>1
              <8> QED BY <1>1, <8>1 DEF Distinct
            <7> QED BY <7>1
          <6>2. s[y] \in R
            BY <1>1, <3>3
          <6> QED BY <1>3, <6>1, <6>2 DEF Less
        <5> QED BY <1>4, <5>1 DEF State, Reserved
      <4>2. CASE y <= k - 1
        <5>1. y \in 1 .. k - 1
          BY <4>2
        <5>2. V[n][y] = s[y]
          BY <1>4, <5>1
        <5>3. u.pid[s[y]].type = n[1]
          <6>1. y \in 1 .. Len(V[n])
            BY <1>4, <5>1
          <6>2. u.pid[V[n][y]].type = n[1]
            BY <1>1, <1>4, <6>1 DEF State, Layout, Back
          <6> QED BY <5>2, <6>2
        <5>4. u.pid[s[y]].type # "UNKNOWN"
          BY <3>3, <5>3
        <5> QED BY <1>4, <3>2, <5>4 DEF State, Layout, Known
      <4>3. y > k - 1 \/ y <= k - 1
        BY <1>5
      <4> QED BY <4>1, <4>2, <4>3
    <3> QED BY <3>1, <3>2, <3>3
  <2> QED BY <2>1
<1>27. \A y \in 1 .. Len(s) : y # k => z.pid[s[y]] = u.pid[s[y]]
  BY <1>25, <1>26
<1>28. \A y \in 1 .. k : V2[n][y] = s[y] /\ z.pid[s[y]].next = After(s, y)
  <2>1. ASSUME NEW y \in 1 .. k PROVE V2[n][y] = s[y] /\ z.pid[s[y]].next = After(s, y)
    <3>1. CASE y = k
      BY <1>2, <1>17, <1>24, <3>1
    <3>2. CASE y # k
      <4>1. y \in 1 .. k - 1 /\ y \in 1 .. Len(s)
        BY <1>5, <3>2
      <4> QED BY <1>4, <1>17, <1>27, <3>2, <4>1
    <3> QED BY <3>1, <3>2
  <2> QED BY <2>1
<1>29. \A y \in 1 .. Len(s) : y > k => z.pid[s[y]].type = "UNKNOWN"
  <2>1. ASSUME NEW y \in 1 .. Len(s), y > k PROVE z.pid[s[y]].type = "UNKNOWN"
    <3>1. y # k /\ y > k - 1
      BY <1>5, <2>1
    <3> QED BY <1>4, <1>27, <3>1
  <2> QED BY <2>1
<1>30. \A y \in DOMAIN t.pid : (\A v \in 1 .. Len(s) : s[v] # y) /\ (n[1] = "ESPID" => t.pid[y].valid) => z.pid[y] = t.pid[y]
  <2>1. ASSUME NEW y \in DOMAIN t.pid, \A v \in 1 .. Len(s) : s[v] # y, n[1] = "ESPID" => t.pid[y].valid PROVE z.pid[y] = t.pid[y]
    <3>1. u.pid[y] = t.pid[y] /\ y \in DOMAIN u.pid
      BY <1>4, <2>1
    <3>2. y # j
      BY <1>2, <2>1
    <3> QED BY <1>25, <2>1, <3>1, <3>2
  <2> QED BY <2>1
<1>31. z.ts = t.ts /\ z.prog = t.prog /\ DOMAIN t.pid \subseteq DOMAIN z.pid
  BY <1>4, <1>14, <1>18, <1>24
<1>32. \A m \in Names : m # n /\ m[1] # "ES_ECMPID" => V2[m] = W[m]
  BY <1>4, <1>15
<1>33. CopyAt(t, z, P, W, V2, OP, OW, R, n, s, k)
  BY <1>17, <1>23, <1>28, <1>29, <1>30, <1>31, <1>32, Zenon DEF CopyAt
<1> QED BY <1>20, <1>33

\* The list n is copied to the indices s.
ListCopied(t, r, P, W, OP, OW, R, n, s) ==
    /\ r.err = "SUCCESS" /\ r.t.ts = t.ts /\ r.t.prog = t.prog /\ DOMAIN t.pid \subseteq DOMAIN r.t.pid
    /\ \A y \in DOMAIN t.pid : (\A x \in 1 .. Len(s) : s[x] # y) /\ (n[1] = "ESPID" => t.pid[y].valid) => r.t.pid[y] = t.pid[y]
    /\ \E V : /\ State(r.t, P, V, OP, OW, Less(R, s, Len(s)))
              /\ \A m \in Names : m # n /\ m[1] # "ES_ECMPID" => V[m] = W[m]

\* A list is copied to entries without a type and to unused ones.
LEMMA ListStays ==
    ASSUME NEW t, NEW P, NEW W, NEW OP, NEW OW, NEW R, State(t, P, W, OP, OW, R),
           NEW r, NEW Q, NEW V, NEW NP, NEW NW, NEW NR, NEW n, NEW s, ListCopied(t, r, Q, V, NP, NW, NR, n, s),
           \A x \in 1 .. Len(s) : t.pid[s[x]].type = "UNKNOWN"
    PROVE  PIDsStay(t, r.t)
<1>1. Known(t, R)
  BY DEF State, Layout
<1>2. ASSUME NEW j \in DOMAIN t.pid, t.pid[j].type # "UNKNOWN" PROVE j \in DOMAIN r.t.pid /\ r.t.pid[j] = t.pid[j]
  <2>1. t.pid[j].valid
    BY <1>1, <1>2 DEF Known
  <2>2. \A x \in 1 .. Len(s) : s[x] # j
    BY <1>2
  <2> QED BY <2>1, <2>2 DEF ListCopied
<1> QED BY <1>2 DEF PIDsStay

\* Before the first nothing is copied.
LEMMA CopyStart ==
    ASSUME NEW t, NEW P, NEW W, NEW OP, NEW OW, NEW R, NEW n, NEW s, State(t, P, W, OP, OW, R), W[n] = << >>,
           \A x \in 1 .. Len(s) : t.pid[s[x]].type = "UNKNOWN"
    PROVE  CopyAt(t, t, P, W, W, OP, OW, R, n, s, 0)
<1>1. Less(R, s, 0) = R
  BY DEF Less
<1>2. Len(W[n]) = 0
  <2>1. PICK w : w = W[n]
    OBVIOUS
  <2>2. w = << >>
    BY <2>1
  <2>3. Len(w) = 0
    BY <2>2
  <2> QED BY <2>1, <2>3
<1>3. State(t, P, W, OP, OW, Less(R, s, 0))
  BY <1>1
<1> QED BY <1>2, <1>3 DEF CopyAt

\* CopyPIDList: the list at the indices s, linked from the head to the end, is a copy of the list src.
LEMMA CopyListDone ==
    ASSUME NEW t, NEW P, NEW W, NEW OP, NEW OW, NEW R, NEW n, NEW s, NEW ts, NEW prog, NEW found, NEW list, NEW src,
           CopyFor(t, OW \cup {n}, R, n, s, ts, prog, found, list, src), State(t, P, W, OP, OW \cup {n}, R), W[n] = << >>,
           \A x \in 1 .. Len(s) : t.pid[s[x]].type = "UNKNOWN",
           n[1] # "PCRPID", HeadRec(t, n).num = Len(s), s # << >> => HeadRec(t, n).head = s[1],
           NEW r, r = CopyPIDList(t, ts, prog, s, found, list)
    PROVE  ListCopied(t, r, P, W, OP, OW, R, n, s)
<1>1. PICK NW : NW = OW \cup {n}
  BY Zenon
<1>2. CopyFor(t, NW, R, n, s, ts, prog, found, list, src) /\ State(t, P, W, OP, NW, R)
  BY <1>1
<1>3. n \in Names /\ n[1] # "ES_ECMPID" /\ s \in Seq(Nat) /\ \A k \in 1 .. Len(s) : s[k] \in DOMAIN t.pid
  BY <1>2 DEF CopyFor
<1>4. PICK b \in Nat : b = Len(s)
  BY <1>3
<1>5. PICK seq : seq = Numbers(s)
  OBVIOUS
<1>6. Len(seq) = b /\ \A k \in 1 .. b : seq[k] = k
  BY <1>3, <1>4, <1>5, NumbersFacts
<1>7. PICK g : ListCopies(g, t, seq, ts, prog, s, found, list) /\ ListCopiesLoop(t, seq, ts, prog, s, found, list) = g[Len(seq)]
  <2>1. Len(seq) \in Nat
    BY <1>6
  <2> QED BY <2>1, ListCopiesDef
<1>8. r = g[b]
  BY <1>5, <1>6, <1>7, CopyListRaw
<1> DEFINE G == {k \in 0 .. b : g[k].err = "SUCCESS" /\ \E V : CopyAt(t, g[k].t, P, W, V, OP, NW, R, n, s, k)}
<1>9. 0 \in G
  <2>1. g[0] = Ok(t)
    BY <1>7 DEF ListCopies
  <2>2. g[0].t = t /\ g[0].err = "SUCCESS"
    BY <2>1 DEF Ok
  <2>3. CopyAt(t, t, P, W, W, OP, NW, R, n, s, 0)
    BY <1>2, CopyStart
  <2> QED BY <2>2, <2>3
<1>10. ASSUME NEW k \in 1 .. b, k - 1 \in G PROVE k \in G
  <2>1. g[k] = IF g[k - 1].err = "SUCCESS" THEN OneListed(g[k - 1].t, ts, prog, s, found, list, k) ELSE g[k - 1]
    <3>1. k \in 1 .. Len(seq) /\ seq[k] = k
      BY <1>6
    <3> QED BY <1>7, <3>1 DEF ListCopies
  <2>2. PICK u, q : u = g[k - 1].t /\ q = g[k]
    OBVIOUS
  <2>3. q = OneListed(u, ts, prog, s, found, list, k)
    BY <1>10, <2>1, <2>2
  <2>4. PICK V : CopyAt(t, u, P, W, V, OP, NW, R, n, s, k - 1)
    BY <1>10, <2>2
  <2>5. k \in 1 .. Len(s)
    BY <1>4
  <2>6. q.err = "SUCCESS" /\ \E V2 : CopyAt(t, q.t, P, W, V2, OP, NW, R, n, s, k)
    BY <1>2, <2>3, <2>4, <2>5, CopyStep
  <2> QED BY <2>2, <2>6
<1>11. G \in SUBSET (0 .. b)
  OBVIOUS
<1> HIDE DEF G
<1>12. \A k \in 0 .. b : k \in G
  BY <1>9, <1>10, <1>11, Upwards, Zenon
<1>13. b \in G
  BY <1>12
<1>14. PICK u : u = r.t
  OBVIOUS
<1>15. r.err = "SUCCESS"
  BY <1>8, <1>13 DEF G
<1>16. PICK V : CopyAt(t, u, P, W, V, OP, NW, R, n, s, b)
  BY <1>8, <1>13, <1>14 DEF G
<1>17. /\ State(u, P, V, OP, NW, Less(R, s, b))
       /\ u.ts = t.ts /\ u.prog = t.prog /\ DOMAIN t.pid \subseteq DOMAIN u.pid
       /\ Len(V[n]) = b /\ \A x \in 1 .. b : V[n][x] = s[x] /\ u.pid[s[x]].next = After(s, x)
       /\ \A m \in Names : m # n /\ m[1] # "ES_ECMPID" => V[m] = W[m]
       /\ \A y \in DOMAIN t.pid : (\A x \in 1 .. Len(s) : s[x] # y) /\ (n[1] = "ESPID" => t.pid[y].valid) => u.pid[y] = t.pid[y]
  BY <1>16 DEF CopyAt
<1>18. V[n] = s
  <2>1. V \in [Names -> Seq(Nat)]
    BY <1>17 DEF State, Layout, Placed
  <2>2. V[n] \in Seq(Nat)
    BY <1>3, <2>1
  <2> QED BY <1>3, <1>4, <1>17, <2>2, SameSequence
<1>19. HeadRec(u, n) = HeadRec(t, n)
  BY <1>3, <1>17 DEF HeadRec
<1>20. Strung(u, n, V[n])
  <2>1. Chain(u.pid, HeadRec(u, n), s)
    BY <1>4, <1>17, <1>19 DEF Chain
  <2> QED BY <1>18, <2>1 DEF Strung
<1>21. State(u, P, V, OP, OW, Less(R, s, b))
  BY <1>1, <1>3, <1>17, <1>20, CloseList, Zenon
<1> QED BY <1>4, <1>14, <1>15, <1>17, <1>21 DEF ListCopied

\* The program p gets the entry f, of stream i.
ProgEntered(t, u, p, f) ==
    /\ Shape(u) /\ u.ts = t.ts /\ u.pid = t.pid /\ DOMAIN u.prog = DOMAIN t.prog
    /\ u.prog[p] = f /\ \A x \in DOMAIN t.prog : x # p => u.prog[x] = t.prog[x]

\* A program entry is overwritten, and nothing else.
LEMMA EnterFacts ==
    ASSUME NEW t, Shape(t), NEW p \in DOMAIN t.prog, NEW f \in ProgRec, NEW u, u = [t EXCEPT !.prog[p] = f]
    PROVE  ProgEntered(t, u, p, f)
<1>1. PICK a \in Nat, b \in Nat, c \in Nat : t \in Tables(a, b, c)
  BY DEF Shape
<1>2. p \in 0 .. b - 1 /\ t.prog \in [0 .. b - 1 -> ProgRec]
  BY <1>1, Parts
<1>3. u \in Tables(a, b, c) /\ u.prog = [t.prog EXCEPT ![p] = f] /\ u.ts = t.ts /\ u.pid = t.pid
  <2>1. PICK w : w = [t EXCEPT !.prog[p] = f]
    OBVIOUS
  <2>2. w \in Tables(a, b, c) /\ w.prog = [t.prog EXCEPT ![p] = f] /\ w.ts = t.ts /\ w.pid = t.pid
    BY <1>1, <1>2, <2>1, Zenon DEF Tables
  <2> QED BY <2>1, <2>2
<1> QED BY <1>2, <1>3 DEF ProgEntered, Shape

\* A program that is not in use has no lists.
LEMMA NoProgLists ==
    ASSUME NEW t, NEW P, NEW W, NEW OP, NEW OW, NEW R, Layout(t, P, W, OP, OW, R), NEW p \in Nat,
           p \in DOMAIN t.prog => ~t.prog[p].valid
    PROVE  NoLists(W, p)
<1>1. \A n \in Names : n[1] \in {"PCRPID", "ESPID", "PS_ECMPID"} /\ n[2] = p => W[n] = << >>
  BY Zenon DEF Layout, Placed, Owned
<1> QED BY <1>1, ProgNames DEF NoLists

\* A program that is not in use is in no list.
LEMMA NotInP ==
    ASSUME NEW t, NEW P, NEW W, NEW OP, NEW OW, NEW R, Layout(t, P, W, OP, OW, R), NEW p \in DOMAIN t.prog,
           ~t.prog[p].valid
    PROVE  \A i \in Nat : \A k \in 1 .. Len(P[i]) : P[i][k] # p /\ P[i][k] \in DOMAIN t.prog
<1>1. \A i \in Nat : \A k \in 1 .. Len(P[i]) : P[i][k] \in DOMAIN t.prog
  BY Zenon DEF Layout, Placed
<1>2. \A i \in Nat : \A k \in 1 .. Len(P[i]) : t.prog[P[i][k]].valid
  BY DEF Layout, Back
<1> QED BY <1>1, <1>2

\* One more program at the end of the list of a stream, which is open, with its own lists open.
LEMMA AddOneProg ==
    ASSUME NEW t, NEW P, NEW W, NEW OP, NEW OW, NEW R, State(t, P, W, OP, OW, R),
           NEW i \in DOMAIN t.ts, t.ts[i].valid, i \in OP, Len(P[i]) + 1 < MAX_INDEX_LIST_NUMBER,
           NEW p \in DOMAIN t.prog, ~t.prog[p].valid,
           NEW f \in ProgRec, f.valid, f.ts = i, NEW u, ProgEntered(t, u, p, f)
    PROVE  State(u, With(P, i, <<p>>), W, OP, OW \cup Open(p), R)
<1>1. Layout(t, P, W, OP, OW, R) /\ Shape(t) /\ Reserved(t, R) /\ Unowned(t)
  BY DEF State, Layout
<1>2. P \in [Nat -> Seq(Nat)] /\ \A x \in Nat : Len(P[x]) < MAX_INDEX_LIST_NUMBER
  BY <1>1, Zenon DEF Layout, Placed, Short
<1>3. i \in Nat /\ p \in Nat
  BY <1>1, ShapeFacts
<1>4. PICK s : s = <<p>>
  BY Zenon
<1>5. s \in Seq(Nat) /\ Distinct(s) /\ Len(s) = 1 /\ s[1] = p
  BY <1>3, <1>4, OneSeq
<1>6. PICK Y : Y = Only(Nat, i, s)
  OBVIOUS
<1>7. Y \in [Nat -> Seq(Nat)] /\ Once(Nat, Y) /\ Joined(Nat, P, Y) = With(P, i, s)
  <2>1. PICK N : N = Nat
    BY Zenon
  <2>2. P \in [N -> Seq(Nat)] /\ i \in N
    BY <1>2, <1>3, <2>1
  <2>3. PICK o : o = Only(N, i, s)
    OBVIOUS
  <2>4. o \in [N -> Seq(Nat)] /\ Once(N, o) /\ Joined(N, P, o) = With(P, i, s)
    BY <1>5, <2>2, <2>3, OnlyFacts, Zenon
  <2> QED BY <1>6, <2>1, <2>3, <2>4
<1>8. Y[i] = s /\ \A x \in Nat : x # i => Y[x] = << >>
  BY <1>3, <1>6 DEF Only
<1>9. \A x \in Nat : x # i => Len(Y[x]) = 0
  <2>1. ASSUME NEW x \in Nat, x # i PROVE Len(Y[x]) = 0
    <3>1. PICK y : y = Y[x]
      OBVIOUS
    <3>2. y = << >>
      BY <1>8, <2>1, <3>1
    <3>3. Len(y) = 0
      BY <3>2
    <3> QED BY <3>1, <3>3
  <2> QED BY <2>1
<1>10. /\ Shape(u) /\ u.ts = t.ts /\ u.pid = t.pid /\ DOMAIN u.prog = DOMAIN t.prog
       /\ u.prog[p] = f /\ \A x \in DOMAIN t.prog : x # p => u.prog[x] = t.prog[x]
  BY DEF ProgEntered
<1>11. \A x \in Nat : \A k \in 1 .. Len(P[x]) : P[x][k] # p /\ P[x][k] \in DOMAIN t.prog
  BY <1>1, NotInP
<1>12. PICK NW : NW = OW \cup Open(p)
  BY Zenon
<1>13. ASSUME NEW x \in Nat, NEW k \in 1 .. Len(Y[x]) PROVE ProgOf(t, u, x, Y[x][k], OP)
  <2>1. x = i
    <3>1. CASE x # i
      <4>1. Len(Y[x]) = 0
        BY <1>9, <3>1
      <4> QED BY <1>13, <4>1
    <3> QED BY <3>1
  <2>2. Y[x][k] = p
    BY <1>5, <1>8, <2>1
  <2> QED BY <1>10, <2>1, <2>2 DEF ProgOf
<1>14. ASSUME NEW x \in DOMAIN u.prog, u.prog[x].valid
       PROVE  (x \in DOMAIN t.prog /\ t.prog[x].valid) \/ \E y \in Nat : \E k \in 1 .. Len(Y[y]) : Y[y][k] = x
  <2>1. CASE x # p
    BY <1>10, <1>14, <2>1
  <2>2. CASE x = p
    <3>1. 1 \in 1 .. Len(Y[i]) /\ Y[i][1] = x
      <4>1. PICK y : y = Y[i]
        OBVIOUS
      <4>2. Len(y) = 1 /\ y[1] = p
        BY <1>5, <1>8, <4>1
      <4>3. 1 \in 1 .. Len(y)
        BY <4>2
      <4> QED BY <2>2, <4>1, <4>2, <4>3
    <3> QED BY <1>3, <3>1
  <2> QED BY <2>1, <2>2
<1>15. ASSUME NEW n \in Names, n \notin NW, Owned(u, n) PROVE Owned(t, n) /\ HeadRec(u, n) = HeadRec(t, n)
  <2>1. n[1] \in {"PCRPID", "ESPID", "PS_ECMPID"} => n[2] # p
    <3>1. n = <<n[1], n[2]>>
      BY NameFacts
    <3>2. n \notin Open(p)
      BY <1>12, <1>15
    <3>3. n[1] \in {"PCRPID", "ESPID", "PS_ECMPID"} /\ n[2] = p => n \in Open(p)
      BY <3>1 DEF Open
    <3> QED BY <3>2, <3>3
  <2>2. Owned(t, n)
    BY <1>10, <1>15, <2>1 DEF Owned
  <2>3. n[1] \in {"EMMPID", "OTHERPID", "ES_ECMPID", "PCRPID", "ESPID", "PS_ECMPID"}
    BY NameFacts DEF Types
  <2>4. HeadRec(u, n) = HeadRec(t, n)
    BY <1>10, <1>15, <2>1, <2>3 DEF HeadRec, Owned
  <2> QED BY <2>2, <2>4
<1>16. \A x \in Nat : Len(P[x]) + Len(Y[x]) < MAX_INDEX_LIST_NUMBER
  <2>1. ASSUME NEW x \in Nat PROVE Len(P[x]) + Len(Y[x]) < MAX_INDEX_LIST_NUMBER
    <3>1. CASE x = i
      BY <1>5, <1>8, <3>1, Zenon
    <3>2. CASE x # i
      <4>1. Len(Y[x]) = 0 /\ Len(P[x]) \in Nat /\ Len(P[x]) < MAX_INDEX_LIST_NUMBER
        BY <1>2, <1>9, <3>2
      <4> QED BY <4>1
    <3> QED BY <3>1, <3>2, Zenon
  <2> QED BY <2>1, Zenon
<1>17. ProgsAdded(t, u, P, Y, OP, NW)
  <2>1. \A x \in DOMAIN t.ts : x \notin OP =>
        /\ \A k \in 1 .. Len(P[x]) : u.prog[P[x][k]].next = t.prog[P[x][k]].next
        /\ u.ts[x].valid => t.ts[x].valid /\ u.ts[x].prog = t.ts[x].prog
    <3>1. DOMAIN t.ts \subseteq Nat
      BY <1>1, ShapeFacts
    <3> QED BY <1>10, <1>11, <3>1
  <2>2. \A x \in DOMAIN t.prog : t.prog[x].valid => u.prog[x].valid /\ u.prog[x].ts = t.prog[x].ts
    BY <1>10
  <2>3. \A x \in DOMAIN u.prog : u.prog[x].valid =>
        \/ x \in DOMAIN t.prog /\ t.prog[x].valid
        \/ \E y \in Nat : \E k \in 1 .. Len(Y[y]) : Y[y][k] = x
    BY <1>14
  <2>4. \A n \in Names : n \notin NW /\ Owned(u, n) => Owned(t, n) /\ HeadRec(u, n) = HeadRec(t, n)
    BY <1>15
  <2>5. \A x \in Nat : \A k \in 1 .. Len(Y[x]) : ProgOf(t, u, x, Y[x][k], OP)
    BY <1>13
  <2>6. u.pid = t.pid /\ DOMAIN u.ts = DOMAIN t.ts /\ DOMAIN t.prog \subseteq DOMAIN u.prog
        /\ \A x \in DOMAIN t.ts : t.ts[x].valid => u.ts[x].valid
    BY <1>10
  <2> QED BY <1>7, <1>16, <2>1, <2>2, <2>3, <2>4, <2>5, <2>6, Zenon DEF ProgsAdded
<1>18. Layout(u, Joined(Nat, P, Y), W, OP, NW, R)
  <2>1. OW \subseteq NW /\ OP \subseteq OP
    BY <1>12
  <2> QED BY <1>1, <1>10, <1>17, <2>1, AddProgs
<1>19. Reserved(u, R) /\ Unowned(u)
  BY <1>1, <1>10 DEF Reserved, Unowned
<1> QED BY <1>4, <1>7, <1>12, <1>18, <1>19 DEF State

Elems(s) == {s[k] : k \in 1 .. Len(s)}

\* Nothing but what is in use has changed.
Flagged(t, u) ==
    /\ Shape(u) /\ u.ts = t.ts /\ u.prog = t.prog /\ DOMAIN u.pid = DOMAIN t.pid
    /\ \A j \in DOMAIN t.pid :
        /\ u.pid[j].type = t.pid[j].type /\ u.pid[j].next = t.pid[j].next /\ u.pid[j].ts = t.pid[j].ts
        /\ u.pid[j].prog = t.pid[j].prog /\ u.pid[j].owner = t.pid[j].owner /\ u.pid[j].esecm = t.pid[j].esecm

\* A layout does not depend on the marks of the entries that are reserved.
LEMMA FlaggedState ==
    ASSUME NEW t, NEW P, NEW W, NEW OP, NEW OW, NEW R, State(t, P, W, OP, OW, R), NEW u, Flagged(t, u),
           NEW NR, Known(u, NR), \A j \in NR : j \in DOMAIN u.pid /\ u.pid[j].valid
    PROVE  State(u, P, W, OP, OW, NR)
<1>1. Layout(t, P, W, OP, OW, R) /\ Unowned(t) /\ Placed(t, P, W)
  BY DEF State, Layout
<1>2. /\ Shape(u) /\ u.ts = t.ts /\ u.prog = t.prog /\ DOMAIN u.pid = DOMAIN t.pid
      /\ \A j \in DOMAIN t.pid :
        /\ u.pid[j].type = t.pid[j].type /\ u.pid[j].next = t.pid[j].next /\ u.pid[j].ts = t.pid[j].ts
        /\ u.pid[j].prog = t.pid[j].prog /\ u.pid[j].owner = t.pid[j].owner /\ u.pid[j].esecm = t.pid[j].esecm
  BY DEF Flagged
<1>3. ASSUME NEW n \in Names, Owned(u, n) PROVE HeadRec(u, n) = HeadRec(t, n)
  BY <1>2, <1>3 DEF HeadRec, Owned
<1>4. \A n \in Names : \A k \in 1 .. Len(W[n]) : u.pid[W[n][k]].next = t.pid[W[n][k]].next
  BY <1>1, <1>2, Zenon DEF Placed
<1>5. PIDsTouched(t, u, W, OW)
  <2>1. SameEntries(t, u)
    BY <1>2 DEF SameEntries
  <2> QED BY <1>2, <1>3, <1>4, <2>1 DEF PIDsTouched
<1>6. Layout(u, P, W, OP, OW, NR)
  BY <1>1, <1>2, <1>5, TouchPIDs
<1>7. Reserved(u, NR)
  BY DEF Reserved, Known
<1>8. Unowned(u)
  BY <1>1, <1>2 DEF Unowned
<1> QED BY <1>6, <1>7, <1>8 DEF State

\* The mark of an entry is overwritten, and nothing else.
LEMMA FlagEntry ==
    ASSUME NEW e \in PIDRec, NEW b \in BOOLEAN
    PROVE  \E f : /\ f = [e EXCEPT !.valid = b] /\ f \in PIDRec /\ f.valid = b
                  /\ f.type = e.type /\ f.next = e.next /\ f.ts = e.ts /\ f.prog = e.prog /\ f.owner = e.owner
                  /\ f.esecm = e.esecm
<1>1. PICK f : f = [e EXCEPT !.valid = b]
  BY Zenon
<1>2. f \in PIDRec /\ f.valid = b
  BY <1>1 DEF PIDRec
<1>3. /\ f.type = e.type /\ f.next = e.next /\ f.ts = e.ts /\ f.prog = e.prog /\ f.owner = e.owner
      /\ f.esecm = e.esecm
  BY <1>1 DEF PIDRec
<1> QED BY <1>1, <1>2, <1>3, Zenon

\* The indices new are marked.
LEMMA MarkedIs ==
    ASSUME NEW t, Shape(t), NEW new \in Seq(Nat), NEW u, u = Marked(t, new)
    PROVE  /\ Flagged(t, u)
           /\ \A j \in DOMAIN t.pid : u.pid[j].valid <=> (t.pid[j].valid \/ j \in Elems(new))
           /\ \A j \in DOMAIN t.pid : j \notin Elems(new) => u.pid[j] = t.pid[j]
<1> DEFINE f == [i \in DOMAIN t.pid |-> IF Contains(new, i) THEN [t.pid[i] EXCEPT !.valid = TRUE] ELSE t.pid[i]]
<1>1. u = [t EXCEPT !.pid = f]
  BY DEF Marked
<1>2. \A j : Contains(new, j) <=> j \in Elems(new)
  BY DEF Contains, Elems
<1>3. ASSUME NEW j \in DOMAIN t.pid
      PROVE  /\ f[j] \in PIDRec /\ f[j].type = t.pid[j].type /\ f[j].next = t.pid[j].next /\ f[j].ts = t.pid[j].ts
             /\ f[j].prog = t.pid[j].prog /\ f[j].owner = t.pid[j].owner /\ f[j].esecm = t.pid[j].esecm
             /\ (f[j].valid <=> (t.pid[j].valid \/ j \in Elems(new))) /\ (j \notin Elems(new) => f[j] = t.pid[j])
  <2>1. PICK e : e = t.pid[j]
    OBVIOUS
  <2>2. e \in PIDRec
    BY <2>1, ShapeFacts
  <2>3. CASE j \in Elems(new)
    <3>1. TRUE \in BOOLEAN
      OBVIOUS
    <3>2. PICK d : /\ d = [e EXCEPT !.valid = TRUE] /\ d \in PIDRec /\ d.valid = TRUE
                   /\ d.type = e.type /\ d.next = e.next /\ d.ts = e.ts /\ d.prog = e.prog /\ d.owner = e.owner
                   /\ d.esecm = e.esecm
      BY <2>2, <3>1, FlagEntry, Zenon
    <3>3. f[j] = d
      BY <1>2, <2>1, <2>3, <3>2
    <3> HIDE DEF f
    <3> QED BY <2>1, <2>3, <3>2, <3>3
  <2>4. CASE j \notin Elems(new)
    <3>1. f[j] = e
      BY <1>2, <2>1, <2>4
    <3> HIDE DEF f
    <3> QED BY <2>1, <2>2, <2>4, <3>1
  <2> QED BY <2>3, <2>4
<1>4. f = [j \in DOMAIN t.pid |-> f[j]] /\ DOMAIN f = DOMAIN t.pid
  OBVIOUS
<1> HIDE DEF f
<1>5. Shape(u) /\ u.ts = t.ts /\ u.prog = t.prog /\ u.pid = f
  <2>1. PICK v : v = [t EXCEPT !.pid = f]
    BY Zenon
  <2>2. Shape(v) /\ v.ts = t.ts /\ v.prog = t.prog /\ v.pid = f
    <3>1. \A j \in DOMAIN t.pid : f[j] \in PIDRec
      BY <1>3
    <3>2. f = [j \in DOMAIN t.pid |-> f[j]]
      BY <1>4
    <3> QED BY <2>1, <3>1, <3>2, SetPIDs, Zenon
  <2> QED BY <1>1, <2>1, <2>2, Zenon
<1> QED BY <1>3, <1>4, <1>5, Zenon DEF Flagged

\* Marking unused entries as valid reserves them: they have no type yet.
LEMMA ReservePIDs ==
    ASSUME NEW t, NEW P, NEW W, NEW OP, NEW OW, State(t, P, W, OP, OW, {}),
           NEW new, Fresh(t.pid, new, Len(new)), NEW u, u = Marked(t, new)
    PROVE  State(u, P, W, OP, OW, Elems(new)) /\ Flagged(t, u) /\ PIDsStay(t, u)
<1>1. Shape(t) /\ Known(t, {}) /\ new \in Seq(Nat)
  BY DEF State, Layout, Fresh
<1>2. /\ Flagged(t, u)
      /\ \A j \in DOMAIN t.pid : u.pid[j].valid <=> (t.pid[j].valid \/ j \in Elems(new))
      /\ \A j \in DOMAIN t.pid : j \notin Elems(new) => u.pid[j] = t.pid[j]
  BY <1>1, MarkedIs
<1>3. \A j \in Elems(new) : j \in DOMAIN t.pid /\ ~t.pid[j].valid
  BY DEF Fresh, Elems
<1>4. DOMAIN u.pid = DOMAIN t.pid /\ \A j \in DOMAIN t.pid : u.pid[j].type = t.pid[j].type
  BY <1>2 DEF Flagged
<1>5. Known(u, Elems(new))
  BY <1>1, <1>2, <1>3, <1>4 DEF Known
<1>6. \A j \in Elems(new) : j \in DOMAIN u.pid /\ u.pid[j].valid
  BY <1>2, <1>3, <1>4
<1>7. PIDsStay(t, u)
  <2>1. \A j \in DOMAIN t.pid : t.pid[j].type # "UNKNOWN" => j \notin Elems(new)
    BY <1>1, <1>3 DEF Known
  <2> QED BY <1>2, <1>4, <2>1 DEF PIDsStay
<1>8. State(u, P, W, OP, OW, Elems(new))
  BY <1>2, <1>5, <1>6, FlaggedState
<1> QED BY <1>2, <1>7, <1>8

\* The index j is given back.
Unmark(t, j) == [t EXCEPT !.pid[j].valid = FALSE]

\* A reserved entry that is not needed is given back.
LEMMA GiveBack ==
    ASSUME NEW t, NEW P, NEW W, NEW OP, NEW OW, NEW R, State(t, P, W, OP, OW, R), NEW j \in R,
           NEW u, u = Unmark(t, j)
    PROVE  State(u, P, W, OP, OW, Minus(R, <<j>>)) /\ Flagged(t, u) /\ \A x \in DOMAIN t.pid : x # j => u.pid[x] = t.pid[x]
<1>1. Shape(t) /\ Known(t, R) /\ Reserved(t, R)
  BY DEF State, Layout
<1>2. j \in DOMAIN t.pid /\ t.pid[j].type = "UNKNOWN"
  BY <1>1 DEF Reserved
<1>3. PICK e : e = t.pid[j]
  OBVIOUS
<1>4. e \in PIDRec
  BY <1>1, <1>2, <1>3, ShapeFacts
<1>5. PICK d : /\ d = [e EXCEPT !.valid = FALSE] /\ d \in PIDRec /\ d.valid = FALSE
               /\ d.type = e.type /\ d.next = e.next /\ d.ts = e.ts /\ d.prog = e.prog /\ d.owner = e.owner
               /\ d.esecm = e.esecm
  <2>1. FALSE \in BOOLEAN
    OBVIOUS
  <2> QED BY <1>4, <2>1, FlagEntry, Zenon
<1>6. PICK w : w = [t EXCEPT !.pid[j] = d]
  BY Zenon
<1>7. PutAt(t, w, <<j>>) /\ w.pid[j] = d
  <2>1. d \in PIDRec
    BY <1>5
  <2> QED BY <1>1, <1>2, <1>6, <2>1, OneIs
<1>8. u = w
  BY <1>3, <1>5, <1>6 DEF Unmark
<1>9. \A x : x # j <=> \A k \in 1 .. Len(<<j>>) : <<j>>[k] # x
  OBVIOUS
<1>10. PICK s : s = <<j>>
  BY Zenon
<1>11. PutAt(t, u, s) /\ u.pid[j] = d /\ \A x : x # j <=> \A k \in 1 .. Len(s) : s[k] # x
  BY <1>7, <1>8, <1>9, <1>10, Zenon
<1>12. /\ Shape(u) /\ u.ts = t.ts /\ u.prog = t.prog /\ DOMAIN u.pid = DOMAIN t.pid
       /\ \A x \in DOMAIN t.pid : x # j => u.pid[x] = t.pid[x]
  BY <1>11 DEF PutAt
<1>13. Flagged(t, u)
  BY <1>3, <1>5, <1>11, <1>12, Zenon DEF Flagged
<1>14. Minus(R, s) = R \ {j}
  BY <1>11 DEF Minus
<1>15. Known(u, R \ {j})
  <2>1. u.pid[j].type = "UNKNOWN" /\ ~u.pid[j].valid
    <3>1. d.valid = FALSE /\ d.type = e.type
      BY <1>5
    <3> QED BY <1>2, <1>3, <1>11, <3>1
  <2> QED BY <1>1, <1>2, <1>12, <2>1 DEF Known
<1>16. \A x \in R \ {j} : x \in DOMAIN u.pid /\ u.pid[x].valid
  BY <1>1, <1>12 DEF Reserved
<1>17. State(u, P, W, OP, OW, R \ {j})
  BY <1>13, <1>15, <1>16, FlaggedState
<1> QED BY <1>10, <1>12, <1>13, <1>14, <1>17, Zenon

\* Nothing but the link of program p and the heads of its lists has changed.
ProgTouched(t, u, p, OP, OW) ==
    /\ Shape(u) /\ u.ts = t.ts /\ u.pid = t.pid /\ DOMAIN u.prog = DOMAIN t.prog
    /\ \A x \in DOMAIN t.prog : x # p => u.prog[x] = t.prog[x]
    /\ u.prog[p].valid = t.prog[p].valid /\ u.prog[p].ts = t.prog[p].ts
    /\ u.prog[p].next = t.prog[p].next \/ t.prog[p].ts \in OP
    /\ \/ Open(p) \subseteq OW
       \/ u.prog[p].pcr = t.prog[p].pcr /\ u.prog[p].es = t.prog[p].es /\ u.prog[p].psecm = t.prog[p].psecm

\* A layout does not depend on the entry of a program whose lists are open.
LEMMA TouchProg ==
    ASSUME NEW t, NEW P, NEW W, NEW OP, NEW OW, NEW R, State(t, P, W, OP, OW, R),
           NEW p \in DOMAIN t.prog, NEW u, ProgTouched(t, u, p, OP, OW)
    PROVE  State(u, P, W, OP, OW, R)
<1>1. Layout(t, P, W, OP, OW, R) /\ Shape(t) /\ Reserved(t, R) /\ Unowned(t)
  BY DEF State, Layout
<1>2. /\ Shape(u) /\ u.ts = t.ts /\ u.pid = t.pid /\ DOMAIN u.prog = DOMAIN t.prog
      /\ \A x \in DOMAIN t.prog : x # p => u.prog[x] = t.prog[x]
      /\ u.prog[p].valid = t.prog[p].valid /\ u.prog[p].ts = t.prog[p].ts
  BY DEF ProgTouched
<1>3. u.prog[p].next = t.prog[p].next \/ t.prog[p].ts \in OP
  BY DEF ProgTouched
<1>4. \/ Open(p) \subseteq OW
      \/ u.prog[p].pcr = t.prog[p].pcr /\ u.prog[p].es = t.prog[p].es /\ u.prog[p].psecm = t.prog[p].psecm
  BY DEF ProgTouched
<1>5. ASSUME NEW i \in DOMAIN t.ts, i \notin OP, NEW k \in 1 .. Len(P[i])
      PROVE  u.prog[P[i][k]].next = t.prog[P[i][k]].next
  <2>1. i \in Nat
    BY <1>1, ShapeFacts
  <2>2. P[i][k] \in DOMAIN t.prog
    BY <1>1, <2>1, Zenon DEF Layout, Placed
  <2>3. t.prog[P[i][k]].ts = i
    BY <1>1, <2>1 DEF Layout, Back
  <2>4. CASE P[i][k] = p
    BY <1>3, <1>5, <2>3, <2>4
  <2>5. CASE P[i][k] # p
    BY <1>2, <2>2, <2>5
  <2> QED BY <2>4, <2>5
<1>6. ASSUME NEW n \in Names, n \notin OW, Owned(u, n)
      PROVE  Owned(t, n) /\ HeadRec(u, n) = HeadRec(t, n)
  <2>1. \A x \in DOMAIN t.prog : u.prog[x].valid = t.prog[x].valid
    BY <1>2
  <2>2. Owned(t, n)
    BY <1>2, <1>6, <2>1 DEF Owned
  <2>3. n = <<n[1], n[2]>> /\ n[1] \in Types \ {"UNKNOWN"}
    BY NameFacts
  <2>4. CASE n[1] \in {"PCRPID", "ESPID", "PS_ECMPID"}
    <3>1. n[2] \in DOMAIN t.prog
      BY <2>2, <2>4 DEF Owned
    <3>2. /\ u.prog[n[2]].pcr = t.prog[n[2]].pcr /\ u.prog[n[2]].es = t.prog[n[2]].es
          /\ u.prog[n[2]].psecm = t.prog[n[2]].psecm
      <4>1. CASE n[2] # p
        BY <1>2, <3>1, <4>1
      <4>2. CASE n[2] = p
        <5>1. n \in Open(p)
          BY <2>3, <2>4, <4>2 DEF Open
        <5> QED BY <1>4, <1>6, <4>2, <5>1
      <4> QED BY <4>1, <4>2
    <3> QED BY <2>2, <2>4, <3>2 DEF HeadRec
  <2>5. CASE n[1] \in {"EMMPID", "OTHERPID", "ES_ECMPID"}
    BY <1>2, <2>2, <2>5 DEF HeadRec
  <2> QED BY <2>3, <2>4, <2>5 DEF Types
<1>7. \A x \in DOMAIN t.prog : u.prog[x].valid = t.prog[x].valid /\ u.prog[x].ts = t.prog[x].ts
  BY <1>2
<1>8. ProgsTouched(t, u, P, OP, OW)
  <2>1. \A i \in DOMAIN t.ts : i \notin OP =>
          /\ \A k \in 1 .. Len(P[i]) : u.prog[P[i][k]].next = t.prog[P[i][k]].next
          /\ u.ts[i].valid => t.ts[i].valid /\ u.ts[i].prog = t.ts[i].prog
    BY <1>2, <1>5
  <2>2. \A n \in Names : n \notin OW /\ Owned(u, n) => Owned(t, n) /\ HeadRec(u, n) = HeadRec(t, n)
    BY <1>6
  <2>3. /\ u.pid = t.pid /\ DOMAIN u.ts = DOMAIN t.ts /\ DOMAIN t.prog \subseteq DOMAIN u.prog
        /\ \A i \in DOMAIN t.ts : t.ts[i].valid => u.ts[i].valid
        /\ \A x \in DOMAIN u.prog : x \notin DOMAIN t.prog => ~u.prog[x].valid
    BY <1>2
  <2> QED BY <1>7, <2>1, <2>2, <2>3 DEF ProgsTouched
<1>9. Layout(u, P, W, OP, OW, R)
  <2>1. OP \subseteq OP /\ OW \subseteq OW
    OBVIOUS
  <2> QED BY <1>1, <1>2, <1>8, <2>1, TouchProgs
<1>10. Reserved(u, R) /\ Unowned(u)
  BY <1>1, <1>2 DEF Reserved, Unowned
<1> QED BY <1>9, <1>10 DEF State

\* The heads of the lists of program p are set.
HeadedProg(t, p, es, ps) == [t EXCEPT !.prog[p].es = HeadAt(@, es), !.prog[p].psecm = HeadAt(@, ps)]
WithPCR(t, p, j) == [t EXCEPT !.prog[p].pcr = j]

HeadIs(list, s, old) == list \in ListRec /\ list.num = old.num /\ (s # << >> => list.head = s[1])

\* The head of a list is overwritten and its length kept.
LEMMA HeadAtIs ==
    ASSUME NEW list \in ListRec, NEW s \in Seq(Nat)
    PROVE  HeadIs(HeadAt(list, s), s, list)
<1>1. CASE s = << >>
  BY <1>1 DEF HeadAt, HeadIs
<1>2. CASE s # << >>
  <2>1. s[1] \in Nat
    BY <1>2
  <2>2. PICK x : x = s[1]
    OBVIOUS
  <2>3. PICK l : l = [list EXCEPT !.head = x]
    BY Zenon
  <2>4. l \in ListRec /\ l.num = list.num /\ l.head = x
    BY <2>1, <2>2, <2>3 DEF ListRec
  <2>5. HeadAt(list, s) = l
    BY <1>2, <2>2, <2>3 DEF HeadAt
  <2> QED BY <2>2, <2>4, <2>5 DEF HeadIs
<1> QED BY <1>1, <1>2

\* The heads of a program's lists are overwritten, and nothing else.
LEMMA HeadedProgIs ==
    ASSUME NEW t, Shape(t), NEW p \in DOMAIN t.prog, NEW es \in Seq(Nat), NEW ps \in Seq(Nat),
           NEW u, u = HeadedProg(t, p, es, ps), NEW OP, NEW OW, Open(p) \subseteq OW
    PROVE  /\ ProgTouched(t, u, p, OP, OW) /\ u.prog[p].pcr = t.prog[p].pcr
           /\ HeadIs(u.prog[p].es, es, t.prog[p].es) /\ HeadIs(u.prog[p].psecm, ps, t.prog[p].psecm)
<1>1. PICK e : e = t.prog[p]
  OBVIOUS
<1>2. e \in ProgRec
  BY <1>1, ShapeFacts
<1>3. PICK a, b : a = HeadAt(e.es, es) /\ b = HeadAt(e.psecm, ps)
  OBVIOUS
<1>4. HeadIs(a, es, e.es) /\ HeadIs(b, ps, e.psecm)
  <2>1. e.es \in ListRec /\ e.psecm \in ListRec
    BY <1>2 DEF ProgRec
  <2> QED BY <1>3, <2>1, HeadAtIs
<1>5. a \in ListRec /\ b \in ListRec
  BY <1>4 DEF HeadIs
<1>6. PICK f : f = [e EXCEPT !.es = a, !.psecm = b]
  OBVIOUS
<1>7. /\ f \in ProgRec /\ f.valid = e.valid /\ f.next = e.next /\ f.ts = e.ts /\ f.pcr = e.pcr
      /\ f.es = a /\ f.psecm = b
  BY <1>2, <1>5, <1>6, Zenon DEF ProgRec
<1>8. PICK w : w = [t EXCEPT !.prog[p] = f]
  BY Zenon
<1>9. ProgEntered(t, w, p, f)
  <2>1. f \in ProgRec
    BY <1>7
  <2> QED BY <1>8, <2>1, EnterFacts
<1>10. u = w
  BY <1>1, <1>3, <1>6, <1>8, Zenon DEF HeadedProg
<1>11. ProgEntered(t, u, p, f)
  BY <1>9, <1>10
<1> QED BY <1>1, <1>4, <1>7, <1>11 DEF ProgEntered, ProgTouched

\* The PCR of a program is overwritten, and nothing else.
LEMMA WithPCRIs ==
    ASSUME NEW t, Shape(t), NEW p \in DOMAIN t.prog, NEW j \in Nat,
           NEW u, u = WithPCR(t, p, j), NEW OP, NEW OW, Open(p) \subseteq OW
    PROVE  /\ ProgTouched(t, u, p, OP, OW) /\ u.prog[p].pcr = j
           /\ u.prog[p].es = t.prog[p].es /\ u.prog[p].psecm = t.prog[p].psecm
<1>1. PICK e : e = t.prog[p]
  OBVIOUS
<1>2. e \in ProgRec
  BY <1>1, ShapeFacts
<1>3. PICK f : f = [e EXCEPT !.pcr = j]
  BY Zenon
<1>4. /\ f \in ProgRec /\ f.valid = e.valid /\ f.next = e.next /\ f.ts = e.ts /\ f.pcr = j
      /\ f.es = e.es /\ f.psecm = e.psecm
  BY <1>2, <1>3 DEF ProgRec
<1>5. PICK w : w = [t EXCEPT !.prog[p] = f]
  BY Zenon
<1>6. ProgEntered(t, w, p, f)
  <2>1. f \in ProgRec
    BY <1>4
  <2> QED BY <1>5, <2>1, EnterFacts
<1>7. u = w
  BY <1>1, <1>3, <1>5 DEF WithPCR
<1>8. ProgEntered(t, u, p, f)
  BY <1>6, <1>7
<1> QED BY <1>1, <1>4, <1>8 DEF ProgEntered, ProgTouched

First(e) == IF e.pcr # INDEX_INVALID_VALUE THEN 1 ELSE 0

\* The streams and the ECMs of a program, where the PCR left the result r.
ProgLists(r, ts, p, es, ps, found, e) ==
    Then(Then(r, LAMBDA u : CopyPIDList(u, ts, p, es, found, e.es)), LAMBDA u : CopyPIDList(u, ts, p, ps, found, e.psecm))

PCRPart(t, ts, p, es, ps, found, e, new) ==
    IF First(e) = 1 THEN CopyInputPID(WithPCR(HeadedProg(t, p, es, ps), p, new[1]), ts, p, new[1], found, e.pcr)
    ELSE Ok(Unmark(HeadedProg(t, p, es, ps), Last(new)))

\* The indices of the streams and of the ECMs of the program.
StreamsOf(e, new) == SubSeq(new, First(e) + 1, First(e) + e.es.num)
ECMsOf(e, new) == SubSeq(new, First(e) + e.es.num + 1, First(e) + e.es.num + e.psecm.num)

\* CopyProgPIDs in two parts: the PCR, and the lists.
LEMMA CopyProgRaw ==
    ASSUME NEW t, NEW ts, NEW p, NEW found, NEW e, NEW new
    PROVE  CopyProgPIDs(t, ts, p, found, e, new) =
             ProgLists(PCRPart(t, ts, p, StreamsOf(e, new), ECMsOf(e, new), found, e, new), ts, p,
                       StreamsOf(e, new), ECMsOf(e, new), found, e)
BY Zenon DEF CopyProgPIDs, First, ProgLists, PCRPart, WithPCR, HeadedProg, Unmark, StreamsOf, ECMsOf

\* The indices s are for the list of the program p that is found in src.
ListFor(t, list, found, from, s, R) ==
    /\ HeadIs(list, s, from) /\ s \in Seq(Nat) /\ Distinct(s) /\ Len(s) = from.num /\ Len(s) < MAX_INDEX_LIST_NUMBER
    /\ \A k \in 1 .. Len(s) : s[k] \in DOMAIN t.pid /\ t.pid[s[k]].type = "UNKNOWN" /\ s[k] \in R

ProgFor(t, ts, p, found, e, es, ps, R) ==
    /\ p \in DOMAIN t.prog /\ t.prog[p].valid /\ t.prog[p].ts = ts /\ ts \in Nat /\ p \in Nat
    /\ ListFor(t, t.prog[p].es, found, e.es, es, R) /\ ListFor(t, t.prog[p].psecm, found, e.psecm, ps, R)
    /\ \A k \in 1 .. Len(es), m \in 1 .. Len(ps) : es[k] # ps[m]
    /\ \A j \in R : (\E k \in 1 .. Len(es) : es[k] = j) \/ (\E k \in 1 .. Len(ps) : ps[k] = j)
    /\ Shape(found) /\ TempECMs(found)
    /\ \E src : TempList(found, e.es, src, "ESPID")
    /\ \E src : TempList(found, e.psecm, src, "PS_ECMPID")

\* The lists of the program p are copied.
ListsCopied(t, r, P, W, OP, OW, p) ==
    /\ r.err = "SUCCESS" /\ r.t.ts = t.ts /\ r.t.prog = t.prog /\ PIDsStay(t, r.t)
    /\ \E V : /\ State(r.t, P, V, OP, OW, {})
              /\ \A m \in Names : m \notin Open(p) /\ m[1] # "ES_ECMPID" => V[m] = W[m]

\* The lists of streams and of ECMs of a program are copied and closed.
LEMMA ProgListsDone ==
    ASSUME NEW t, NEW P, NEW W, NEW OP, NEW OW, NEW R, NEW p, NEW e1, e1 = <<"ESPID", p>>, NEW e2, e2 = <<"PS_ECMPID", p>>,
           State(t, P, W, OP, (OW \cup {e2}) \cup {e1}, R), W[e1] = << >>, W[e2] = << >>,
           NEW ts, NEW found, NEW e, NEW es, NEW ps, ProgFor(t, ts, p, found, e, es, ps, R),
           NEW r, r = ProgLists(Ok(t), ts, p, es, ps, found, e)
    PROVE  ListsCopied(t, r, P, W, OP, OW, p)
<1>1. PICK r1 : r1 = CopyPIDList(t, ts, p, es, found, e.es)
  OBVIOUS
<1>2. r = IF r1.err = "SUCCESS" THEN CopyPIDList(r1.t, ts, p, ps, found, e.psecm) ELSE r1
  <2>1. r = Then(Then(Ok(t), LAMBDA u : CopyPIDList(u, ts, p, es, found, e.es)), LAMBDA u : CopyPIDList(u, ts, p, ps, found, e.psecm))
    BY DEF ProgLists
  <2>2. Then(Ok(t), LAMBDA u : CopyPIDList(u, ts, p, es, found, e.es)) = r1
    BY <1>1 DEF Then, Ok
  <2>3. r = Then(r1, LAMBDA u : CopyPIDList(u, ts, p, ps, found, e.psecm))
    BY <2>1, <2>2
  <2> QED BY <2>3, Zenon DEF Then
<1>p. p \in Nat /\ p \in DOMAIN t.prog /\ t.prog[p].valid /\ t.prog[p].ts = ts /\ ts \in Nat
  BY DEF ProgFor
<1>n. e1 \in Names /\ e2 \in Names /\ e1 # e2 /\ e1[1] = "ESPID" /\ e2[1] = "PS_ECMPID" /\ e1[2] = p /\ e2[2] = p
      /\ e1 \in Open(p) /\ e2 \in Open(p)
  BY <1>p DEF Names, Types, Open
<1>3. PICK src1 : TempList(found, e.es, src1, "ESPID")
  BY DEF ProgFor
<1>4. PICK src2 : TempList(found, e.psecm, src2, "PS_ECMPID")
  BY DEF ProgFor
<1>f. Shape(found) /\ TempECMs(found)
  BY DEF ProgFor
<1>5. PICK OX : OX = OW \cup {e2}
  BY Zenon
<1>6. State(t, P, W, OP, OX \cup {e1}, R)
  BY <1>5
<1>7. ListFor(t, t.prog[p].es, found, e.es, es, R) /\ ListFor(t, t.prog[p].psecm, found, e.psecm, ps, R)
  BY DEF ProgFor
<1>8. CopyFor(t, OX \cup {e1}, R, e1, es, ts, p, found, e.es, src1)
  <2>1. Owned(t, e1) /\ Right(t, e1, ts, p) /\ e1[1] # "ES_ECMPID"
    BY <1>p, <1>n DEF Owned, Right, TSType
  <2>2. Len(src1) = Len(es) /\ TempList(found, e.es, src1, e1[1])
    BY <1>3, <1>7, <1>n DEF TempList, ListFor
  <2>3. es \in Seq(Nat) /\ Distinct(es) /\ Len(es) < MAX_INDEX_LIST_NUMBER /\ \A k \in 1 .. Len(es) : es[k] \in DOMAIN t.pid /\ es[k] \in R
    BY <1>7 DEF ListFor
  <2> QED BY <1>p, <1>n, <1>f, <2>1, <2>2, <2>3 DEF CopyFor
<1>9. HeadRec(t, e1) = t.prog[p].es /\ HeadRec(t, e2) = t.prog[p].psecm
  BY <1>n DEF HeadRec
<1>10. HeadRec(t, e1).num = Len(es) /\ (es # << >> => HeadRec(t, e1).head = es[1])
  BY <1>7, <1>9 DEF ListFor, HeadIs
<1>11. HeadRec(t, e2).num = Len(ps) /\ (ps # << >> => HeadRec(t, e2).head = ps[1])
  BY <1>7, <1>9 DEF ListFor, HeadIs
<1>12. \A x \in 1 .. Len(es) : t.pid[es[x]].type = "UNKNOWN"
  BY <1>7 DEF ListFor
<1>13. ListCopied(t, r1, P, W, OP, OX, R, e1, es)
  <2>1. e1[1] # "PCRPID"
    BY <1>n
  <2> QED BY <1>1, <1>6, <1>8, <1>10, <1>12, <2>1, CopyListDone
<1>14. PICK u : u = r1.t
  OBVIOUS
<1>15. r1.err = "SUCCESS" /\ u.ts = t.ts /\ u.prog = t.prog /\ DOMAIN t.pid \subseteq DOMAIN u.pid
  BY <1>13, <1>14 DEF ListCopied
<1>16. \A y \in DOMAIN t.pid : (\A x \in 1 .. Len(es) : es[x] # y) /\ t.pid[y].valid => u.pid[y] = t.pid[y]
  BY <1>13, <1>14, <1>n DEF ListCopied
<1>17. PICK R1 : R1 = Less(R, es, Len(es))
  OBVIOUS
<1>18. PICK V1 : State(u, P, V1, OP, OX, R1) /\ \A m \in Names : m # e1 /\ m[1] # "ES_ECMPID" => V1[m] = W[m]
  BY <1>13, <1>14, <1>17 DEF ListCopied
<1>19. V1[e2] = << >>
  BY <1>18, <1>n
<1>20. \A k \in 1 .. Len(ps) : ps[k] \in DOMAIN t.pid /\ t.pid[ps[k]].valid /\ t.pid[ps[k]].type = "UNKNOWN" /\ ps[k] \in R1
  <2>1. \A j \in R : t.pid[j].valid
    BY DEF State, Reserved
  <2>2. \A k \in 1 .. Len(ps) : ps[k] \in DOMAIN t.pid /\ t.pid[ps[k]].type = "UNKNOWN" /\ ps[k] \in R
    BY <1>7 DEF ListFor
  <2>3. \A k \in 1 .. Len(es), m \in 1 .. Len(ps) : es[k] # ps[m]
    BY DEF ProgFor
  <2>4. \A k \in 1 .. Len(ps) : ps[k] \in R1
    BY <1>17, <2>2, <2>3 DEF Less
  <2> QED BY <2>1, <2>2, <2>4
<1>21. \A k \in 1 .. Len(ps) : ps[k] \in DOMAIN u.pid /\ u.pid[ps[k]].type = "UNKNOWN"
  <2> SUFFICES ASSUME NEW k \in 1 .. Len(ps) PROVE ps[k] \in DOMAIN u.pid /\ u.pid[ps[k]].type = "UNKNOWN"
    OBVIOUS
  <2>1. PICK y : y = ps[k]
    OBVIOUS
  <2>2. \A x \in 1 .. Len(es) : es[x] # y
    BY <2>1 DEF ProgFor
  <2>3. u.pid[y] = t.pid[y]
    BY <1>16, <1>20, <2>1, <2>2
  <2> QED BY <1>15, <1>20, <2>1, <2>3
<1>22. State(u, P, V1, OP, OW \cup {e2}, R1)
  BY <1>5, <1>18
<1>23. CopyFor(u, OW \cup {e2}, R1, e2, ps, ts, p, found, e.psecm, src2)
  <2>1. Owned(u, e2) /\ Right(u, e2, ts, p) /\ e2[1] # "ES_ECMPID"
    BY <1>p, <1>n, <1>15 DEF Owned, Right, TSType
  <2>2. Len(src2) = Len(ps) /\ TempList(found, e.psecm, src2, e2[1])
    BY <1>4, <1>7, <1>n DEF TempList, ListFor
  <2>3. ps \in Seq(Nat) /\ Distinct(ps) /\ Len(ps) < MAX_INDEX_LIST_NUMBER
    BY <1>7 DEF ListFor
  <2> QED BY <1>p, <1>n, <1>f, <1>20, <1>21, <2>1, <2>2, <2>3 DEF CopyFor
<1>24. HeadRec(u, e2) = HeadRec(t, e2)
  BY <1>n, <1>15 DEF HeadRec
<1>25. PICK r2 : r2 = CopyPIDList(u, ts, p, ps, found, e.psecm)
  OBVIOUS
<1>26. r = r2
  BY <1>2, <1>14, <1>15, <1>25
<1>27. ListCopied(u, r2, P, V1, OP, OW, R1, e2, ps)
  <2>1. e2[1] # "PCRPID"
    BY <1>n
  <2>2. HeadRec(u, e2).num = Len(ps) /\ (ps # << >> => HeadRec(u, e2).head = ps[1])
    BY <1>11, <1>24
  <2>3. \A x \in 1 .. Len(ps) : u.pid[ps[x]].type = "UNKNOWN"
    BY <1>21
  <2> QED BY <1>19, <1>22, <1>23, <1>25, <2>1, <2>2, <2>3, CopyListDone
<1>28. r2.err = "SUCCESS" /\ r2.t.ts = t.ts /\ r2.t.prog = t.prog
  BY <1>15, <1>27 DEF ListCopied
<1>29. Less(R1, ps, Len(ps)) = {}
  BY <1>17 DEF Less, ProgFor
<1>30. \E V : State(r2.t, P, V, OP, OW, {}) /\ \A m \in Names : m \notin Open(p) /\ m[1] # "ES_ECMPID" => V[m] = W[m]
  <2>1. PICK V : State(r2.t, P, V, OP, OW, {}) /\ \A m \in Names : m # e2 /\ m[1] # "ES_ECMPID" => V[m] = V1[m]
    BY <1>27, <1>29 DEF ListCopied
  <2>2. \A m \in Names : m \notin Open(p) /\ m[1] # "ES_ECMPID" => V[m] = W[m]
    BY <1>18, <1>n, <2>1
  <2> QED BY <2>1, <2>2
<1>31. PIDsStay(t, r2.t)
  <2>1. PIDsStay(t, u)
    BY <1>6, <1>12, <1>13, <1>14, ListStays
  <2>2. \A x \in 1 .. Len(ps) : u.pid[ps[x]].type = "UNKNOWN"
    BY <1>21
  <2>3. PIDsStay(u, r2.t)
    BY <1>22, <1>27, <2>2, ListStays
  <2> QED BY <2>1, <2>3, PIDsStayOn
<1> QED BY <1>26, <1>28, <1>30, <1>31 DEF ListsCopied

\* The index that is not for the streams nor for the ECMs.
Spare(e, new) == IF First(e) = 1 THEN new[1] ELSE Last(new)

Split(new, x, es, ps, a, b) ==
    /\ x \in Elems(new) /\ x \in Nat
    /\ es \in Seq(Nat) /\ Distinct(es) /\ Len(es) = a
    /\ ps \in Seq(Nat) /\ Distinct(ps) /\ Len(ps) = b
    /\ \A k \in 1 .. Len(es) : es[k] \in Elems(new) /\ es[k] # x
    /\ \A k \in 1 .. Len(ps) : ps[k] \in Elems(new) /\ ps[k] # x
    /\ \A k \in 1 .. Len(es), m \in 1 .. Len(ps) : es[k] # ps[m]
    /\ \A j \in Elems(new) : j # x => (\E k \in 1 .. Len(es) : es[k] = j) \/ (\E k \in 1 .. Len(ps) : ps[k] = j)

\* The indices of a program are cut into three parts that have nothing in common.
LEMMA SplitAt ==
    ASSUME NEW new \in Seq(Nat), Distinct(new), NEW a \in Nat, NEW b \in Nat, Len(new) = 1 + a + b,
           NEW f \in {0, 1}, NEW es, es = SubSeq(new, f + 1, f + a), NEW ps, ps = SubSeq(new, f + a + 1, f + a + b),
           NEW x, x = IF f = 1 THEN new[1] ELSE new[1 + a + b]
    PROVE  Split(new, x, es, ps, a, b)
<1>1. Slice(es, new, f + 1, f + a)
  BY SliceFacts
<1>2. Slice(ps, new, f + a + 1, f + a + b)
  BY SliceFacts
<1>3. PICK d : d \in 1 .. 1 + a + b /\ x = new[d] /\ d \notin f + 1 .. f + a + b /\ \A y \in 1 .. 1 + a + b : y # d => y \in f + 1 .. f + a + b
  <2>1. CASE f = 1
    <3>1. 1 \in 1 .. 1 + a + b /\ x = new[1] /\ 1 \notin f + 1 .. f + a + b
      BY <2>1
    <3>2. \A y \in 1 .. 1 + a + b : y # 1 => y \in f + 1 .. f + a + b
      BY <2>1
    <3> QED BY <3>1, <3>2, Zenon
  <2>2. CASE f = 0
    <3>1. 1 + a + b \in 1 .. 1 + a + b /\ x = new[1 + a + b] /\ 1 + a + b \notin f + 1 .. f + a + b
      BY <2>2
    <3>2. \A y \in 1 .. 1 + a + b : y # 1 + a + b => y \in f + 1 .. f + a + b
      BY <2>2
    <3> QED BY <3>1, <3>2, Zenon
  <2> QED BY <2>1, <2>2
<1>4. \A k, m \in 1 .. 1 + a + b : new[k] = new[m] => k = m
  BY DEF Distinct
<1>5. \A k \in 1 .. 1 + a + b : new[k] \in Elems(new) /\ new[k] \in Nat
  BY DEF Elems
<1>6. es \in Seq(Nat) /\ Distinct(es) /\ Len(es) = a /\ \A k \in 1 .. a : es[k] = new[f + k]
  BY <1>1 DEF Slice
<1>7. ps \in Seq(Nat) /\ Distinct(ps) /\ Len(ps) = b /\ \A k \in 1 .. b : ps[k] = new[f + a + k]
  <2>1. ps \in Seq(Nat) /\ Distinct(ps) /\ Len(ps) = f + a + b - (f + a + 1) + 1 /\ \A k \in 1 .. Len(ps) : ps[k] = new[f + a + 1 + k - 1]
    BY <1>2, SMTT(30) DEF Slice
  <2>2. f + a + b - (f + a + 1) + 1 = b /\ \A k \in Nat : f + a + 1 + k - 1 = f + a + k
    OBVIOUS
  <2> QED BY <2>1, <2>2
<1>8. \A k \in 1 .. a : f + k \in 1 .. 1 + a + b /\ f + k \in f + 1 .. f + a + b
  OBVIOUS
<1>9. \A k \in 1 .. b : f + a + k \in 1 .. 1 + a + b /\ f + a + k \in f + 1 .. f + a + b
  OBVIOUS
<1>a. ASSUME NEW y \in 1 .. 1 + a + b, y \in f + 1 .. f + a + b PROVE new[y] \in Elems(new) /\ new[y] # x
  <2>1. y # d
    BY <1>3, <1>a
  <2>2. new[y] # new[d]
    BY <1>3, <1>4, <2>1
  <2> QED BY <1>3, <1>5, <2>2
<1>10. ASSUME NEW k \in 1 .. Len(es) PROVE es[k] \in Elems(new) /\ es[k] # x
  <2>1. k \in 1 .. a /\ es[k] = new[f + k]
    BY <1>6
  <2> QED BY <1>8, <1>a, <2>1
<1>11. ASSUME NEW k \in 1 .. Len(ps) PROVE ps[k] \in Elems(new) /\ ps[k] # x
  <2>1. k \in 1 .. b /\ ps[k] = new[f + a + k]
    BY <1>7
  <2> QED BY <1>9, <1>a, <2>1
<1>12. \A k \in 1 .. a, m \in 1 .. b : f + k # f + a + m
  OBVIOUS
<1>13. \A k \in 1 .. Len(es), m \in 1 .. Len(ps) : es[k] # ps[m]
  <2>1. ASSUME NEW k \in 1 .. a, NEW m \in 1 .. b PROVE es[k] # ps[m]
    <3>1. es[k] = new[f + k] /\ ps[m] = new[f + a + m]
      BY <1>6, <1>7
    <3>2. f + k # f + a + m /\ f + k \in 1 .. 1 + a + b /\ f + a + m \in 1 .. 1 + a + b
      BY <1>8, <1>9, <1>12
    <3> QED BY <1>4, <3>1, <3>2, Zenon
  <2>2. Len(es) = a /\ Len(ps) = b
    BY <1>6, <1>7
  <2> QED BY <2>1, <2>2, Zenon
<1>14. ASSUME NEW j \in Elems(new), j # x
       PROVE  (\E k \in 1 .. Len(es) : es[k] = j) \/ (\E k \in 1 .. Len(ps) : ps[k] = j)
  <2>1. PICK y \in 1 .. 1 + a + b : j = new[y]
    BY DEF Elems
  <2>2. y \in f + 1 .. f + a + b
    BY <1>3, <1>14, <2>1
  <2>3. CASE y <= f + a
    <3>1. PICK k \in 1 .. a : y = f + k
      <4>1. y - f \in 1 .. a /\ y = f + (y - f)
        BY <2>2, <2>3
      <4> QED BY <4>1
    <3> QED BY <1>6, <2>1, <3>1, Zenon
  <2>4. CASE y > f + a
    <3>1. PICK k \in 1 .. b : y = f + a + k
      <4>1. y - f - a \in 1 .. b /\ y = f + a + (y - f - a)
        BY <2>2, <2>4
      <4> QED BY <4>1
    <3> QED BY <1>7, <2>1, <3>1, Zenon
  <2>5. y <= f + a \/ y > f + a
    OBVIOUS
  <2> QED BY <2>3, <2>4, <2>5, Zenon
<1>15. x \in Elems(new) /\ x \in Nat
  BY <1>3, <1>5
<1> QED BY <1>6, <1>7, <1>10, <1>11, <1>13, <1>14, <1>15, Zenon DEF Split

\* With a PCR the first index is for it, without one the last is not needed.
LEMMA SplitOf ==
    ASSUME NEW e \in ProgRec, NEW new \in Seq(Nat), Distinct(new), Len(new) = 1 + e.es.num + e.psecm.num
    PROVE  Split(new, Spare(e, new), StreamsOf(e, new), ECMsOf(e, new), e.es.num, e.psecm.num)
<1>1. PICK a \in Nat, b \in Nat : a = e.es.num /\ b = e.psecm.num
  BY DEF ProgRec, ListRec
<1>2. PICK f \in {0, 1} : f = First(e)
  BY DEF First
<1>3. StreamsOf(e, new) = SubSeq(new, f + 1, f + a) /\ ECMsOf(e, new) = SubSeq(new, f + a + 1, f + a + b)
  BY <1>1, <1>2 DEF StreamsOf, ECMsOf
<1>4. Spare(e, new) = IF f = 1 THEN new[1] ELSE new[1 + a + b]
  BY <1>1, <1>2 DEF Spare, Last
<1>5. Len(new) = 1 + a + b
  BY <1>1
<1>6. PICK x, es, ps : x = Spare(e, new) /\ es = StreamsOf(e, new) /\ ps = ECMsOf(e, new)
  OBVIOUS
<1>7. Split(new, x, es, ps, a, b)
  BY <1>3, <1>4, <1>5, <1>6, SplitAt, Zenon
<1> QED BY <1>1, <1>6, <1>7

\* What CopyProgPIDs is called with: the program p of stream ts has the entry e of the scan.
EntryFor(t, p, ts, e, found) ==
    /\ p \in DOMAIN t.prog /\ t.prog[p].valid /\ t.prog[p].ts = ts /\ ts \in Nat /\ p \in Nat
    /\ t.prog[p].pcr = e.pcr /\ t.prog[p].es.num = e.es.num /\ t.prog[p].psecm.num = e.psecm.num
    /\ e \in ProgRec /\ 1 + e.es.num + e.psecm.num <= MAX_INDEX_LIST_NUMBER
    /\ Shape(found) /\ TempECMs(found)
    /\ \E src : TempList(found, e.es, src, "ESPID")
    /\ \E src : TempList(found, e.psecm, src, "PS_ECMPID")
    /\ e.pcr # INDEX_INVALID_VALUE => e.pcr \in DOMAIN found.pid /\ found.pid[e.pcr].type = "PCRPID"

\* The PCR is settled: what is left of the reserved indices is for the lists.
PCRSettled(t, r, P, W, OP, OW, p, ts, e, found, es, ps) ==
    /\ r.err = "SUCCESS" /\ r.t.ts = t.ts /\ PIDsStay(t, r.t) /\ DOMAIN r.t.prog = DOMAIN t.prog
    /\ \A q \in DOMAIN t.prog : q # p => r.t.prog[q] = t.prog[q]
    /\ r.t.prog[p].valid /\ r.t.prog[p].ts = ts
    /\ \E V, R : /\ State(r.t, P, V, OP, OW \cup {<<"ESPID", p>>, <<"PS_ECMPID", p>>}, R)
                 /\ \A m \in Names : m # <<"PCRPID", p>> /\ m[1] # "ES_ECMPID" => V[m] = W[m]
                 /\ ProgFor(r.t, ts, p, found, e, es, ps, R)

\* The heads are set and what is reserved is known.
HeadsSet(t, h, R, p, ts, e, found, new, x, es, ps) ==
    /\ Split(new, x, es, ps, e.es.num, e.psecm.num) /\ EntryFor(h, p, ts, e, found)
    /\ R = Elems(new) /\ \A j \in R : j \in DOMAIN h.pid /\ h.pid[j].type = "UNKNOWN" /\ h.pid[j].valid
    /\ HeadIs(h.prog[p].es, es, e.es) /\ HeadIs(h.prog[p].psecm, ps, e.psecm)
    /\ h.ts = t.ts /\ h.pid = t.pid /\ DOMAIN h.prog = DOMAIN t.prog
    /\ \A q \in DOMAIN t.prog : q # p => h.prog[q] = t.prog[q]

\* Once the index x is settled in u, the rest is for the lists.
LEMMA RestFor ==
    ASSUME NEW t, NEW h, NEW R, NEW p, NEW ts, NEW e, NEW found, NEW new, NEW x, NEW es, NEW ps,
           HeadsSet(t, h, R, p, ts, e, found, new, x, es, ps),
           NEW u, DOMAIN h.pid \subseteq DOMAIN u.pid, \A j \in DOMAIN h.pid : j # x => u.pid[j] = h.pid[j],
           DOMAIN u.prog = DOMAIN h.prog, u.prog[p].valid, u.prog[p].ts = ts,
           u.prog[p].es = h.prog[p].es, u.prog[p].psecm = h.prog[p].psecm
    PROVE  ProgFor(u, ts, p, found, e, es, ps, Minus(R, <<x>>))
<1>1. Split(new, x, es, ps, e.es.num, e.psecm.num) /\ EntryFor(h, p, ts, e, found) /\ R = Elems(new)
  BY DEF HeadsSet
<1>2. \A j : j \in Minus(R, <<x>>) <=> (j \in R /\ j # x)
  <2>1. PICK q : q = <<x>>
    BY Zenon
  <2>2. Len(q) = 1 /\ q[1] = x
    BY <2>1
  <2>3. \A j : j \in Minus(R, q) <=> (j \in R /\ j # x)
    BY <2>2 DEF Minus
  <2> QED BY <2>1, <2>3
<1>3. PICK RR : RR = Minus(R, <<x>>)
  OBVIOUS
<1>4. PICK a \in Nat, b \in Nat : a = e.es.num /\ b = e.psecm.num
  BY <1>1 DEF EntryFor, ProgRec, ListRec
<1>5. 1 + a + b <= MAX_INDEX_LIST_NUMBER /\ MAX_INDEX_LIST_NUMBER \in Nat
  BY <1>1, <1>4, TableAssumption DEF EntryFor
<1>6. a < MAX_INDEX_LIST_NUMBER /\ b < MAX_INDEX_LIST_NUMBER
  BY <1>5
<1>7. /\ es \in Seq(Nat) /\ Distinct(es) /\ Len(es) = a
      /\ ps \in Seq(Nat) /\ Distinct(ps) /\ Len(ps) = b
      /\ \A k \in 1 .. Len(es) : es[k] \in R /\ es[k] # x
      /\ \A k \in 1 .. Len(ps) : ps[k] \in R /\ ps[k] # x
      /\ \A k \in 1 .. Len(es), m \in 1 .. Len(ps) : es[k] # ps[m]
      /\ \A j \in R : j # x => (\E k \in 1 .. Len(es) : es[k] = j) \/ (\E k \in 1 .. Len(ps) : ps[k] = j)
  BY <1>1, <1>4 DEF Split
<1>8. \A j \in R : j # x => j \in DOMAIN u.pid /\ u.pid[j].type = "UNKNOWN"
  BY DEF HeadsSet
<1>9. HeadIs(u.prog[p].es, es, e.es) /\ HeadIs(u.prog[p].psecm, ps, e.psecm)
  BY DEF HeadsSet
<1>10. ListFor(u, u.prog[p].es, found, e.es, es, RR)
  BY <1>2, <1>3, <1>4, <1>6, <1>7, <1>8, <1>9, Zenon DEF ListFor
<1>11. ListFor(u, u.prog[p].psecm, found, e.psecm, ps, RR)
  BY <1>2, <1>3, <1>4, <1>6, <1>7, <1>8, <1>9, Zenon DEF ListFor
<1>12. \A j \in RR : (\E k \in 1 .. Len(es) : es[k] = j) \/ (\E k \in 1 .. Len(ps) : ps[k] = j)
  BY <1>2, <1>3, <1>7
<1>13. /\ p \in DOMAIN u.prog /\ ts \in Nat /\ p \in Nat /\ Shape(found) /\ TempECMs(found)
       /\ \E src : TempList(found, e.es, src, "ESPID")
       /\ \E src : TempList(found, e.psecm, src, "PS_ECMPID")
  BY <1>1 DEF EntryFor
<1>14. ProgFor(u, ts, p, found, e, es, ps, RR)
  BY <1>7, <1>10, <1>11, <1>12, <1>13 DEF ProgFor
<1> QED BY <1>3, <1>14

\* The three lists of a program.
LEMMA OpenIs ==
    ASSUME NEW p, NEW OW
    PROVE  OW \cup Open(p) = (OW \cup {<<"ESPID", p>>, <<"PS_ECMPID", p>>}) \cup {<<"PCRPID", p>>}
BY DEF Open

\* A program that is headed with the indices to come.
LEMMA HeadedDone ==
    ASSUME NEW t, NEW P, NEW W, NEW OP, NEW OW, NEW new,
           State(t, P, W, OP, OW, Elems(new)), NEW p, NEW ts, NEW e, NEW found, EntryFor(t, p, ts, e, found),
           Open(p) \subseteq OW,
           NEW x, NEW es, NEW ps, Split(new, x, es, ps, e.es.num, e.psecm.num), NEW h, h = HeadedProg(t, p, es, ps)
    PROVE  State(h, P, W, OP, OW, Elems(new)) /\ HeadsSet(t, h, Elems(new), p, ts, e, found, new, x, es, ps)
<1>1. e \in ProgRec /\ p \in DOMAIN t.prog
  BY DEF EntryFor
<1>2. PICK R : R = Elems(new)
  OBVIOUS
<1>3. Split(new, x, es, ps, e.es.num, e.psecm.num)
  OBVIOUS
<1>4. es \in Seq(Nat) /\ ps \in Seq(Nat)
  BY <1>3 DEF Split
<1>5. Shape(t)
  BY DEF State, Layout
<1>6. /\ ProgTouched(t, h, p, OP, OW) /\ h.prog[p].pcr = t.prog[p].pcr
      /\ HeadIs(h.prog[p].es, es, t.prog[p].es) /\ HeadIs(h.prog[p].psecm, ps, t.prog[p].psecm)
  BY <1>1, <1>4, <1>5, HeadedProgIs, ZenonT(60)
<1>7. State(h, P, W, OP, OW, R)
  BY <1>1, <1>2, <1>6, TouchProg
<1>8. t.prog[p].es.num = e.es.num /\ t.prog[p].psecm.num = e.psecm.num
  BY DEF EntryFor
<1>9. HeadIs(h.prog[p].es, es, e.es) /\ HeadIs(h.prog[p].psecm, ps, e.psecm)
  BY <1>6, <1>8 DEF HeadIs
<1>10. /\ h.ts = t.ts /\ DOMAIN h.prog = DOMAIN t.prog /\ h.pid = t.pid
       /\ \A q \in DOMAIN t.prog : q # p => h.prog[q] = t.prog[q]
       /\ h.prog[p].valid = t.prog[p].valid /\ h.prog[p].ts = t.prog[p].ts
  BY <1>6 DEF ProgTouched
<1>11. EntryFor(h, p, ts, e, found)
  <2>1. h.prog[p].es.num = e.es.num /\ h.prog[p].psecm.num = e.psecm.num
    BY <1>9 DEF HeadIs
  <2> QED BY <1>6, <1>10, <2>1 DEF EntryFor
<1>12. \A j \in R : j \in DOMAIN h.pid /\ h.pid[j].type = "UNKNOWN" /\ h.pid[j].valid
  BY <1>7 DEF State, Reserved
<1>13. HeadsSet(t, h, R, p, ts, e, found, new, x, es, ps)
  BY <1>2, <1>3, <1>9, <1>10, <1>11, <1>12 DEF HeadsSet
<1> QED BY <1>2, <1>7, <1>13

\* A list of one.
LEMMA OneMore ==
    ASSUME NEW w, w = << >>, NEW x \in Nat
    PROVE  w \o <<x>> = <<x>> /\ Len(w) + 1 = 1
OBVIOUS

\* A program with a PCR: its entry is copied to the first index.
LEMMA WithPCRDone ==
    ASSUME NEW t, NEW h, NEW P, NEW W, NEW OP, NEW OW, NEW R, NEW p, State(h, P, W, OP, OW \cup Open(p), R), NoLists(W, p),
           NEW ts, NEW e, NEW found, NEW new, NEW x, NEW es, NEW ps,
           HeadsSet(t, h, R, p, ts, e, found, new, x, es, ps), e.pcr # INDEX_INVALID_VALUE,
           NEW g, g = WithPCR(h, p, x), NEW r, r = CopyInputPID(g, ts, p, x, found, e.pcr)
    PROVE  PCRSettled(t, r, P, W, OP, OW, p, ts, e, found, es, ps)
<1>1. EntryFor(h, p, ts, e, found) /\ x \in R /\ x \in Nat /\ x \in DOMAIN h.pid /\ h.pid[x].type = "UNKNOWN"
  BY DEF HeadsSet, Split
<1>2. /\ p \in DOMAIN h.prog /\ h.prog[p].valid /\ h.prog[p].ts = ts /\ ts \in Nat /\ p \in Nat
      /\ Shape(found) /\ TempECMs(found) /\ e.pcr \in DOMAIN found.pid /\ found.pid[e.pcr].type = "PCRPID"
  BY <1>1 DEF EntryFor
<1>3. PICK NW : NW = OW \cup Open(p)
  OBVIOUS
<1>4. Shape(h) /\ State(h, P, W, OP, NW, R) /\ Open(p) \subseteq NW
  BY <1>3 DEF State, Layout
<1>5. ProgTouched(h, g, p, OP, NW) /\ g.prog[p].pcr = x /\ g.prog[p].es = h.prog[p].es /\ g.prog[p].psecm = h.prog[p].psecm
  <2>1. Shape(h) /\ p \in DOMAIN h.prog /\ x \in Nat /\ Open(p) \subseteq NW
    BY <1>1, <1>2, <1>4
  <2> QED BY <2>1, WithPCRIs
<1>6. State(g, P, W, OP, NW, R)
  BY <1>2, <1>4, <1>5, TouchProg
<1>7. /\ g.ts = h.ts /\ g.pid = h.pid /\ DOMAIN g.prog = DOMAIN h.prog
      /\ \A q \in DOMAIN h.prog : q # p => g.prog[q] = h.prog[q]
      /\ g.prog[p].valid /\ g.prog[p].ts = ts
  BY <1>2, <1>5 DEF ProgTouched
<1>8. PICK n : n = <<"PCRPID", p>>
  BY Zenon
<1>9. n \in Names /\ n[1] = "PCRPID" /\ n[2] = p /\ n \in NW /\ n \in Open(p)
  BY <1>2, <1>3, <1>8 DEF Names, Types, Open
<1>10. W[n] = << >>
  BY <1>8 DEF NoLists
<1>11. Owned(g, n) /\ Right(g, n, ts, p) /\ n[1] # "ES_ECMPID"
  BY <1>2, <1>7, <1>9 DEF Owned, Right, TSType
<1>12. Len(W[n]) + 1 < MAX_INDEX_LIST_NUMBER
  <2>1. Len(W[n]) + 1 = 1
    BY <1>1, <1>10, OneMore
  <2>2. MAX_INDEX_LIST_NUMBER > 1
    BY TableAssumption
  <2>3. MAX_INDEX_LIST_NUMBER \in Nat
    BY TableAssumption
  <2> QED BY <2>1, <2>2, <2>3
<1>13. PIDCopied(g, r, P, W, OP, NW, R, n, x)
  <2>1. x \in DOMAIN g.pid /\ g.pid[x].type = "UNKNOWN"
    BY <1>1, <1>7
  <2>2. PICK y : y = e.pcr
    OBVIOUS
  <2>3. y \in DOMAIN found.pid /\ found.pid[y].type = n[1]
    BY <1>2, <1>9, <2>2
  <2>4. r = CopyInputPID(g, ts, p, x, found, y)
    BY <2>2
  <2> QED BY <1>2, <1>6, <1>9, <1>11, <1>12, <2>1, <2>3, <2>4, CopyPIDDone
<1>14. PICK u : u = r.t
  OBVIOUS
<1>15. r.err = "SUCCESS" /\ u.ts = g.ts /\ u.prog = g.prog /\ DOMAIN g.pid \subseteq DOMAIN u.pid
       /\ \A y \in DOMAIN g.pid : y # x => u.pid[y] = g.pid[y]
  BY <1>9, <1>13, <1>14 DEF PIDCopied
<1>16. PICK V : /\ State(u, P, V, OP, NW, Minus(R, <<x>>)) /\ V[n] = W[n] \o <<x>>
                /\ \A m \in Names : m # n /\ m[1] # "ES_ECMPID" => V[m] = W[m]
  BY <1>13, <1>14 DEF PIDCopied
<1>17. V[n] = <<x>>
  BY <1>1, <1>10, <1>16, OneMore
<1>18. Strung(u, n, V[n])
  <2>1. HeadRec(u, n).head = u.prog[p].pcr
    BY <1>9 DEF HeadRec
  <2> QED BY <1>5, <1>9, <1>15, <1>17, <2>1 DEF Strung
<1>19. PICK NX : NX = OW \cup {<<"ESPID", p>>, <<"PS_ECMPID", p>>}
  BY Zenon
<1>20. PICK RR : RR = Minus(R, <<x>>)
  OBVIOUS
<1>21. State(u, P, V, OP, NX, RR)
  <2>1. NW = NX \cup {n}
    BY <1>3, <1>8, <1>19, OpenIs
  <2>2. State(u, P, V, OP, NX \cup {n}, RR)
    BY <1>16, <1>20, <2>1
  <2> QED BY <1>9, <1>18, <2>2, CloseList
<1>22. ProgFor(u, ts, p, found, e, es, ps, RR)
  <2>1. DOMAIN h.pid \subseteq DOMAIN u.pid /\ \A j \in DOMAIN h.pid : j # x => u.pid[j] = h.pid[j]
    BY <1>7, <1>15
  <2>2. /\ DOMAIN u.prog = DOMAIN h.prog /\ u.prog[p].valid /\ u.prog[p].ts = ts
        /\ u.prog[p].es = h.prog[p].es /\ u.prog[p].psecm = h.prog[p].psecm
    BY <1>5, <1>7, <1>15
  <2>3. ProgFor(u, ts, p, found, e, es, ps, Minus(R, <<x>>))
    BY <2>1, <2>2, RestFor
  <2> QED BY <1>20, <2>3
<1>23. /\ h.ts = t.ts /\ h.pid = t.pid /\ DOMAIN h.prog = DOMAIN t.prog
       /\ \A q \in DOMAIN t.prog : q # p => h.prog[q] = t.prog[q]
  BY DEF HeadsSet
<1>st. PIDsStay(t, u)
  <2>1. g.pid = t.pid
    BY <1>7, <1>23
  <2> QED BY <1>1, <1>15, <1>23, <2>1 DEF PIDsStay
<1>24. \E VV, RX : /\ State(u, P, VV, OP, NX, RX)
                   /\ \A m \in Names : m # n /\ m[1] # "ES_ECMPID" => VV[m] = W[m]
                   /\ ProgFor(u, ts, p, found, e, es, ps, RX)
  BY <1>16, <1>21, <1>22
<1> QED BY <1>7, <1>8, <1>14, <1>15, <1>19, <1>23, <1>st, <1>24 DEF PCRSettled

\* A program without a PCR: the index is given back.
LEMMA WithoutPCRDone ==
    ASSUME NEW t, NEW h, NEW P, NEW W, NEW OP, NEW OW, NEW R, NEW p, State(h, P, W, OP, OW \cup Open(p), R), NoLists(W, p),
           NEW ts, NEW e, NEW found, NEW new, NEW x, NEW es, NEW ps,
           HeadsSet(t, h, R, p, ts, e, found, new, x, es, ps), e.pcr = INDEX_INVALID_VALUE,
           NEW u, u = Unmark(h, x)
    PROVE  PCRSettled(t, Ok(u), P, W, OP, OW, p, ts, e, found, es, ps)
<1>1. EntryFor(h, p, ts, e, found) /\ x \in R
  BY DEF HeadsSet, Split
<1>2. p \in DOMAIN h.prog /\ h.prog[p].valid /\ h.prog[p].ts = ts /\ ts \in Nat /\ p \in Nat /\ h.prog[p].pcr = INDEX_INVALID_VALUE
  BY <1>1 DEF EntryFor
<1>3. PICK NW : NW = OW \cup Open(p)
  OBVIOUS
<1>4. State(h, P, W, OP, NW, R)
  BY <1>3
<1>5. PICK RR : RR = Minus(R, <<x>>)
  OBVIOUS
<1>6. State(u, P, W, OP, NW, RR) /\ Flagged(h, u) /\ \A y \in DOMAIN h.pid : y # x => u.pid[y] = h.pid[y]
  BY <1>1, <1>4, <1>5, GiveBack
<1>7. u.ts = h.ts /\ u.prog = h.prog /\ DOMAIN u.pid = DOMAIN h.pid
  BY <1>6 DEF Flagged
<1>8. PICK n : n = <<"PCRPID", p>>
  BY Zenon
<1>9. n \in Names /\ n[1] = "PCRPID" /\ n[2] = p
  BY <1>2, <1>8 DEF Names, Types
<1>10. W[n] = << >>
  BY <1>8 DEF NoLists
<1>11. Strung(u, n, W[n])
  <2>1. HeadRec(u, n).head = u.prog[p].pcr
    BY <1>9 DEF HeadRec
  <2> QED BY <1>2, <1>7, <1>9, <1>10, <2>1 DEF Strung
<1>12. PICK NX : NX = OW \cup {<<"ESPID", p>>, <<"PS_ECMPID", p>>}
  BY Zenon
<1>13. State(u, P, W, OP, NX, RR)
  <2>1. NW = NX \cup {n}
    BY <1>3, <1>8, <1>12, OpenIs
  <2>2. State(u, P, W, OP, NX \cup {n}, RR)
    BY <1>6, <2>1
  <2> QED BY <1>9, <1>11, <2>2, CloseList
<1>14. ProgFor(u, ts, p, found, e, es, ps, RR)
  <2>1. DOMAIN h.pid \subseteq DOMAIN u.pid /\ \A j \in DOMAIN h.pid : j # x => u.pid[j] = h.pid[j]
    BY <1>6, <1>7
  <2>2. /\ DOMAIN u.prog = DOMAIN h.prog /\ u.prog[p].valid /\ u.prog[p].ts = ts
        /\ u.prog[p].es = h.prog[p].es /\ u.prog[p].psecm = h.prog[p].psecm
    BY <1>2, <1>7
  <2>3. ProgFor(u, ts, p, found, e, es, ps, Minus(R, <<x>>))
    BY <2>1, <2>2, RestFor
  <2> QED BY <1>5, <2>3
<1>15. /\ h.ts = t.ts /\ h.pid = t.pid /\ DOMAIN h.prog = DOMAIN t.prog
       /\ \A q \in DOMAIN t.prog : q # p => h.prog[q] = t.prog[q]
  BY DEF HeadsSet
<1>st. PIDsStay(t, u)
  <2>1. h.pid[x].type = "UNKNOWN"
    BY <1>1 DEF HeadsSet
  <2> QED BY <1>6, <1>7, <1>15, <2>1 DEF PIDsStay
<1>16. \E VV, RX : /\ State(u, P, VV, OP, NX, RX)
                   /\ \A m \in Names : m # n /\ m[1] # "ES_ECMPID" => VV[m] = W[m]
                   /\ ProgFor(u, ts, p, found, e, es, ps, RX)
  BY <1>13, <1>14
<1>17. PICK r : r = Ok(u)
  OBVIOUS
<1>18. r.err = "SUCCESS" /\ r.t = u
  BY <1>17 DEF Ok
<1> QED BY <1>2, <1>7, <1>8, <1>12, <1>15, <1>st, <1>16, <1>17, <1>18 DEF PCRSettled

\* The program p is copied, with its lists.
ProgCopied(t, r, P, W, OP, OW, p, ts) ==
    /\ r.err = "SUCCESS" /\ r.t.ts = t.ts /\ PIDsStay(t, r.t) /\ DOMAIN r.t.prog = DOMAIN t.prog
    /\ \A q \in DOMAIN t.prog : q # p => r.t.prog[q] = t.prog[q]
    /\ r.t.prog[p].valid /\ r.t.prog[p].ts = ts
    /\ \E V : /\ State(r.t, P, V, OP, OW, {})
              /\ \A m \in Names : m \notin Open(p) /\ m[1] # "ES_ECMPID" => V[m] = W[m]

\* The lists are copied once the PCR is.
LEMMA ProgListsOk ==
    ASSUME NEW r, r.err = "SUCCESS", NEW u, u = r.t, NEW ts, NEW p, NEW es, NEW ps, NEW found, NEW e
    PROVE  ProgLists(r, ts, p, es, ps, found, e) = ProgLists(Ok(u), ts, p, es, ps, found, e)
<1>1. Then(r, LAMBDA v : CopyPIDList(v, ts, p, es, found, e.es)) = CopyPIDList(u, ts, p, es, found, e.es)
  BY DEF Then
<1>2. PICK s : s = Ok(u)
  OBVIOUS
<1>3. s.err = "SUCCESS" /\ s.t = u
  BY <1>2 DEF Ok
<1>4. Then(s, LAMBDA v : CopyPIDList(v, ts, p, es, found, e.es)) = CopyPIDList(u, ts, p, es, found, e.es)
  BY <1>3 DEF Then
<1>5. Then(r, LAMBDA v : CopyPIDList(v, ts, p, es, found, e.es)) = Then(s, LAMBDA v : CopyPIDList(v, ts, p, es, found, e.es))
  BY <1>1, <1>4
<1> QED BY <1>2, <1>5, Zenon DEF ProgLists

\* Either way, the lists remain to be copied.
LEMMA PCRPartDone ==
    ASSUME NEW t, NEW P, NEW W, NEW OP, NEW OW, NEW new, NEW p, State(t, P, W, OP, OW \cup Open(p), Elems(new)),
           NEW ts, NEW e, NEW found, EntryFor(t, p, ts, e, found), NoLists(W, p),
           NEW x, x = Spare(e, new), NEW es, NEW ps, Split(new, x, es, ps, e.es.num, e.psecm.num),
           NEW r, r = PCRPart(t, ts, p, es, ps, found, e, new)
    PROVE  PCRSettled(t, r, P, W, OP, OW, p, ts, e, found, es, ps)
<1>1. PICK h, R : h = HeadedProg(t, p, es, ps) /\ R = Elems(new)
  OBVIOUS
<1>2. State(h, P, W, OP, OW \cup Open(p), R) /\ HeadsSet(t, h, R, p, ts, e, found, new, x, es, ps)
  <2>1. PICK NW : NW = OW \cup Open(p)
    OBVIOUS
  <2>2. State(t, P, W, OP, NW, Elems(new)) /\ Open(p) \subseteq NW
    BY <2>1
  <2>3. State(h, P, W, OP, NW, Elems(new)) /\ HeadsSet(t, h, Elems(new), p, ts, e, found, new, x, es, ps)
    BY <1>1, <2>2, HeadedDone
  <2> QED BY <1>1, <2>1, <2>3
<1>3. CASE e.pcr # INDEX_INVALID_VALUE
  <2>1. First(e) = 1 /\ x = new[1]
    BY <1>3 DEF First, Spare
  <2>2. r = CopyInputPID(WithPCR(h, p, x), ts, p, x, found, e.pcr)
    BY <1>1, <2>1 DEF PCRPart
  <2>3. PICK g : g = WithPCR(h, p, x)
    OBVIOUS
  <2>4. r = CopyInputPID(g, ts, p, x, found, e.pcr)
    BY <2>2, <2>3
  <2> QED BY <1>2, <1>3, <2>3, <2>4, WithPCRDone, Zenon
<1>4. CASE e.pcr = INDEX_INVALID_VALUE
  <2>1. First(e) # 1 /\ x = Last(new)
    BY <1>4 DEF First, Spare
  <2>2. PICK u : u = Unmark(h, x)
    OBVIOUS
  <2>3. r = Ok(u)
    BY <1>1, <2>1, <2>2 DEF PCRPart
  <2>4. PCRSettled(t, Ok(u), P, W, OP, OW, p, ts, e, found, es, ps)
    BY <1>2, <1>4, <2>2, WithoutPCRDone
  <2> QED BY <2>3, <2>4
<1> QED BY <1>3, <1>4

\* CopyProgPIDs: a program has its PCR and its lists, closed, and no index is reserved any more.
LEMMA CopyProgPIDsDone ==
    ASSUME NEW t, NEW P, NEW W, NEW OP, NEW OW, NEW new \in Seq(Nat), Distinct(new),
           NEW p, State(t, P, W, OP, OW \cup Open(p), Elems(new)),
           NEW ts, NEW e, NEW found, EntryFor(t, p, ts, e, found), NoLists(W, p), Len(new) = 1 + e.es.num + e.psecm.num,
           NEW r, r = CopyProgPIDs(t, ts, p, found, e, new)
    PROVE  ProgCopied(t, r, P, W, OP, OW, p, ts)
<1>1. PICK x, es, ps : x = Spare(e, new) /\ es = StreamsOf(e, new) /\ ps = ECMsOf(e, new)
  OBVIOUS
<1>2. Split(new, x, es, ps, e.es.num, e.psecm.num)
  <2>1. e \in ProgRec
    BY DEF EntryFor
  <2>2. Split(new, Spare(e, new), StreamsOf(e, new), ECMsOf(e, new), e.es.num, e.psecm.num)
    BY <2>1, SplitOf
  <2> QED BY <1>1, <2>2
<1>3. PICK r0 : r0 = PCRPart(t, ts, p, es, ps, found, e, new)
  OBVIOUS
<1>4. r = ProgLists(r0, ts, p, es, ps, found, e)
  BY <1>1, <1>3, CopyProgRaw
<1>5. PCRSettled(t, r0, P, W, OP, OW, p, ts, e, found, es, ps)
  <2>1. x = Spare(e, new)
    BY <1>1
  <2> QED BY <1>2, <1>3, <2>1, PCRPartDone
<1>6. PICK u : u = r0.t
  OBVIOUS
<1>7. /\ r0.err = "SUCCESS" /\ u.ts = t.ts /\ DOMAIN u.prog = DOMAIN t.prog
      /\ \A q \in DOMAIN t.prog : q # p => u.prog[q] = t.prog[q]
      /\ u.prog[p].valid /\ u.prog[p].ts = ts
  BY <1>5, <1>6 DEF PCRSettled
<1>8. PICK e1, e2 : e1 = <<"ESPID", p>> /\ e2 = <<"PS_ECMPID", p>>
  BY Zenon
<1>9. PICK V, R : /\ State(u, P, V, OP, OW \cup {e1, e2}, R)
                  /\ \A m \in Names : m # <<"PCRPID", p>> /\ m[1] # "ES_ECMPID" => V[m] = W[m]
                  /\ ProgFor(u, ts, p, found, e, es, ps, R)
  BY <1>5, <1>6, <1>8 DEF PCRSettled
<1>10. OW \cup {e1, e2} = (OW \cup {e2}) \cup {e1}
  OBVIOUS
<1>11. State(u, P, V, OP, (OW \cup {e2}) \cup {e1}, R)
  BY <1>9, <1>10, Zenon
<1>12. p \in Nat
  BY DEF EntryFor
<1>13. V[e1] = << >> /\ V[e2] = << >>
  <2>1. e1 \in Names /\ e2 \in Names /\ e1[1] = "ESPID" /\ e2[1] = "PS_ECMPID"
    BY <1>8, <1>12 DEF Names, Types
  <2>2. V[e1] = W[e1] /\ V[e2] = W[e2]
    <3>1. e1 # <<"PCRPID", p>> /\ e2 # <<"PCRPID", p>>
      BY <1>8
    <3> QED BY <1>9, <2>1, <3>1
  <2> QED BY <1>8, <2>2 DEF NoLists
<1>14. r = ProgLists(Ok(u), ts, p, es, ps, found, e)
  BY <1>4, <1>6, <1>7, ProgListsOk
<1>15. ListsCopied(u, r, P, V, OP, OW, p)
  <2>1. ProgFor(u, ts, p, found, e, es, ps, R)
    BY <1>9
  <2> QED BY <1>8, <1>11, <1>13, <1>14, <2>1, ProgListsDone, Zenon
<1>16. r.err = "SUCCESS" /\ r.t.ts = u.ts /\ r.t.prog = u.prog
  BY <1>15 DEF ListsCopied
<1>17. \E X : State(r.t, P, X, OP, OW, {}) /\ \A m \in Names : m \notin Open(p) /\ m[1] # "ES_ECMPID" => X[m] = W[m]
  <2>1. PICK X : State(r.t, P, X, OP, OW, {}) /\ \A m \in Names : m \notin Open(p) /\ m[1] # "ES_ECMPID" => X[m] = V[m]
    BY <1>15 DEF ListsCopied
  <2>2. <<"PCRPID", p>> \in Open(p)
    BY DEF Open
  <2>3. \A m \in Names : m \notin Open(p) /\ m[1] # "ES_ECMPID" => X[m] = W[m]
    BY <1>9, <2>1, <2>2, Zenon
  <2> QED BY <2>1, <2>3
<1>18. PIDsStay(t, r.t)
  <2>1. PIDsStay(t, u) /\ PIDsStay(u, r.t)
    BY <1>5, <1>6, <1>15 DEF PCRSettled, ListsCopied
  <2> QED BY <2>1, PIDsStayOn
<1> QED BY <1>7, <1>16, <1>17, <1>18 DEF ProgCopied

\* A program gets the entry of a scan.
ProgEntry(t, p, i, e) == [t EXCEPT !.prog[p] = [e EXCEPT !.ts = i]]
ProgRoom(a, i, p, found, e) ==
    IF a.err = "SUCCESS" THEN CopyProgPIDs(Marked(a.t, a.list), i, p, found, e, a.list) ELSE Err(a.err, a.t)

\* CopyInputProg in two parts: the entry, and its PIDs at as many unused entries.
LEMMA CopyProgIs ==
    ASSUME NEW t, NEW i, NEW p, NEW found, NEW q
    PROVE  CopyInputProg(t, i, p, found, q) =
             ProgRoom(UnusedPIDs(ProgEntry(t, p, i, found.prog[q]), 1 + found.prog[q].es.num + found.prog[q].psecm.num),
                      i, p, found, found.prog[q])
BY Zenon DEF CopyInputProg, Using, ProgRoom, ProgEntry

\* The entry of a program as it is copied.
LEMMA EntryOf ==
    ASSUME NEW e \in ProgRec, NEW i \in Nat
    PROVE  \E f : /\ f = [e EXCEPT !.ts = i] /\ f \in ProgRec /\ f.ts = i /\ f.valid = e.valid
                  /\ f.pcr = e.pcr /\ f.es = e.es /\ f.psecm = e.psecm
<1>1. PICK f : f = [e EXCEPT !.ts = i]
  BY Zenon
<1>2. f \in ProgRec /\ f.ts = i /\ f.valid = e.valid /\ f.pcr = e.pcr /\ f.es = e.es /\ f.psecm = e.psecm
  BY <1>1 DEF ProgRec
<1> QED BY <1>1, <1>2, Zenon

\* CopyInputProg: the copy is the last program of the stream and has its own lists.
LEMMA CopyInputProgDone ==
    ASSUME NEW t, NEW P, NEW W, NEW OP, NEW OW, State(t, P, W, OP, OW, {}),
           NEW i \in DOMAIN t.ts, t.ts[i].valid, i \in OP, Len(P[i]) + 1 < MAX_INDEX_LIST_NUMBER,
           NEW p \in DOMAIN t.prog, ~t.prog[p].valid, NEW found, Shape(found), TempECMs(found),
           NEW q, TempProg(found, q), NEW r, r = CopyInputProg(t, i, p, found, q)
    PROVE  ProgCopied(t, r, With(P, i, <<p>>), W, OP, OW, p, i)
<1>1. PICK e : e = found.prog[q]
  OBVIOUS
<1>2. /\ q \in DOMAIN found.prog /\ e.valid /\ 1 + e.es.num + e.psecm.num <= MAX_INDEX_LIST_NUMBER
      /\ \E src : TempList(found, e.es, src, "ESPID")
      /\ \E src : TempList(found, e.psecm, src, "PS_ECMPID")
      /\ e.pcr # INDEX_INVALID_VALUE => e.pcr \in DOMAIN found.pid /\ found.pid[e.pcr].type = "PCRPID"
  BY <1>1 DEF TempProg
<1>3. e \in ProgRec
  BY <1>1, <1>2, ShapeFacts
<1>4. Shape(t) /\ Layout(t, P, W, OP, OW, {})
  BY DEF State, Layout
<1>5. i \in Nat /\ p \in Nat
  BY <1>4, ShapeFacts
<1>6. PICK f : /\ f = [e EXCEPT !.ts = i] /\ f \in ProgRec /\ f.ts = i /\ f.valid = e.valid
               /\ f.pcr = e.pcr /\ f.es = e.es /\ f.psecm = e.psecm
  BY <1>3, <1>5, EntryOf
<1>7. f \in ProgRec /\ f.ts = i /\ f.valid /\ f.pcr = e.pcr /\ f.es = e.es /\ f.psecm = e.psecm
  BY <1>2, <1>6
<1>8. PICK t1 : t1 = ProgEntry(t, p, i, e)
  OBVIOUS
<1>9. t1 = [t EXCEPT !.prog[p] = f]
  BY <1>6, <1>8 DEF ProgEntry
<1>10. ProgEntered(t, t1, p, f)
  BY <1>4, <1>7, <1>9, EnterFacts
<1>11. PICK Q : Q = With(P, i, <<p>>)
  OBVIOUS
<1>12. PICK NW : NW = OW \cup Open(p)
  BY Zenon
<1>13. State(t1, Q, W, OP, NW, {})
  BY <1>7, <1>10, <1>11, <1>12, AddOneProg
<1>14. NoLists(W, p)
  BY <1>4, <1>5, NoProgLists
<1>15. PICK n \in Nat : n = 1 + e.es.num + e.psecm.num
  <2>1. e.es.num \in Nat /\ e.psecm.num \in Nat
    BY <1>3 DEF ProgRec, ListRec
  <2> QED BY <2>1
<1>16. PICK a : a = UnusedPIDs(t1, n)
  OBVIOUS
<1>17. GrowsPIDs(t1, a, n)
  <2>1. Shape(t1) /\ n <= MAX_INDEX_LIST_NUMBER
    BY <1>2, <1>10, <1>15 DEF ProgEntered
  <2> QED BY <1>16, <2>1, NewPIDs
<1>18. PICK u, new : u = a.t /\ new = a.list
  OBVIOUS
<1>19. a.err = "SUCCESS" /\ Grows(t1, u) /\ u.prog = t1.prog /\ Fresh(u.pid, new, n)
  BY <1>17, <1>18 DEF GrowsPIDs
<1>20. State(u, Q, W, OP, NW, {}) /\ u.ts = t.ts
  <2>1. u.ts = t1.ts /\ t1.ts = t.ts
    BY <1>10, <1>19 DEF Grows, ProgEntered
  <2> QED BY <1>13, <1>19, <2>1, GrowState
<1>21. new \in Seq(Nat) /\ Len(new) = n /\ Fresh(u.pid, new, Len(new)) /\ Distinct(new)
  BY <1>19 DEF Fresh, Distinct
<1>22. PICK v : v = Marked(u, new)
  OBVIOUS
<1>23. State(v, Q, W, OP, NW, Elems(new)) /\ Flagged(u, v) /\ PIDsStay(u, v)
  BY <1>20, <1>21, <1>22, ReservePIDs
<1>24. v.ts = t.ts /\ v.prog = t1.prog
  BY <1>19, <1>20, <1>23 DEF Flagged
<1>25. /\ DOMAIN v.prog = DOMAIN t.prog /\ v.prog[p] = f
       /\ \A x \in DOMAIN t.prog : x # p => v.prog[x] = t.prog[x]
  BY <1>10, <1>24 DEF ProgEntered
<1>26. EntryFor(v, p, i, e, found)
  BY <1>2, <1>3, <1>5, <1>7, <1>25 DEF EntryFor
<1>27. r = CopyProgPIDs(v, i, p, found, e, new)
  <2>1. r = ProgRoom(UnusedPIDs(ProgEntry(t, p, i, found.prog[q]), 1 + found.prog[q].es.num + found.prog[q].psecm.num), i, p, found, found.prog[q])
    BY CopyProgIs
  <2>2. r = ProgRoom(a, i, p, found, e)
    BY <1>1, <1>8, <1>15, <1>16, <2>1
  <2> QED BY <1>18, <1>19, <1>22, <2>2 DEF ProgRoom
<1>28. ProgCopied(v, r, Q, W, OP, OW, p, i)
  <2>1. State(v, Q, W, OP, OW \cup Open(p), Elems(new))
    BY <1>12, <1>23
  <2>2. Len(new) = 1 + e.es.num + e.psecm.num
    BY <1>15, <1>21
  <2> QED BY <1>14, <1>21, <1>26, <1>27, <2>1, <2>2, CopyProgPIDsDone
<1>29. ProgCopied(t, r, Q, W, OP, OW, p, i)
  <2>1. /\ r.err = "SUCCESS" /\ r.t.ts = t.ts /\ DOMAIN r.t.prog = DOMAIN t.prog
        /\ \A x \in DOMAIN t.prog : x # p => r.t.prog[x] = t.prog[x]
        /\ r.t.prog[p].valid /\ r.t.prog[p].ts = i
    BY <1>24, <1>25, <1>28 DEF ProgCopied
  <2>2. \E V : /\ State(r.t, Q, V, OP, OW, {})
               /\ \A m \in Names : m \notin Open(p) /\ m[1] # "ES_ECMPID" => V[m] = W[m]
    BY <1>28 DEF ProgCopied
  <2>3. PIDsStay(t, r.t)
    <3>1. PIDsStay(t, u)
      BY <1>10, <1>19 DEF PIDsStay, ProgEntered, Grows
    <3>2. PIDsStay(v, r.t)
      BY <1>28 DEF ProgCopied
    <3> QED BY <1>23, <3>1, <3>2, PIDsStayOn
  <2> QED BY <2>1, <2>2, <2>3 DEF ProgCopied
<1> QED BY <1>11, <1>29

\* One round of the copy of the programs.
RelinkProg(v, new, k) == [v EXCEPT !.prog[new[k]].next = After(new, k)]
OneProg(u, i, new, found, src, k) ==
    Then(CopyInputProg(u, i, new[k], found, src[k]), LAMBDA v : Ok(RelinkProg(v, new, k)))

ProgCopies(g, t, seq, i, new, found, src) ==
    /\ g[0] = Ok(t)
    /\ \A k \in 1 .. Len(seq) :
        g[k] = IF g[k - 1].err = "SUCCESS" THEN OneProg(g[k - 1].t, i, new, found, src, seq[k]) ELSE g[k - 1]

ProgCopiesLoop(t, seq, i, new, found, src) == ForEach(t, seq, LAMBDA u, k : OneProg(u, i, new, found, src, k))

\* The programs in turn.
LEMMA ProgCopiesDef ==
    ASSUME NEW t, NEW seq, Len(seq) \in Nat, NEW i, NEW new, NEW found, NEW src
    PROVE  \E g : /\ ProgCopies(g, t, seq, i, new, found, src)
                  /\ ProgCopiesLoop(t, seq, i, new, found, src) = g[Len(seq)]
<1> DEFINE n == Len(seq)
           Fit(g, m) == g = [k \in 0 .. m |->
               IF k = 0 THEN Ok(t)
               ELSE IF g[k - 1].err = "SUCCESS" THEN OneProg(g[k - 1].t, i, new, found, src, seq[k]) ELSE g[k - 1]]
           G == {m \in 0 .. n : \E g : Fit(g, m)}
<1>0. n \in Nat
  OBVIOUS
<1>1. 0 \in G
  <2> DEFINE z == [k \in 0 .. 0 |-> Ok(t)]
  <2>1. Fit(z, 0)
    OBVIOUS
  <2> HIDE DEF z, Fit
  <2> QED BY <2>1
<1>2. ASSUME NEW m \in 1 .. n, m - 1 \in G PROVE m \in G
  <2>1. PICK g : Fit(g, m - 1)
    BY <1>2
  <2> DEFINE h == [k \in 0 .. m |->
               IF k = 0 THEN Ok(t)
               ELSE IF g[k - 1].err = "SUCCESS" THEN OneProg(g[k - 1].t, i, new, found, src, seq[k]) ELSE g[k - 1]]
  <2>2. \A k \in 0 .. m - 1 : h[k] = g[k]
    BY <2>1
  <2>3. Fit(h, m)
    <3>1. \A k \in 0 .. m : k # 0 => k - 1 \in 0 .. m - 1
      OBVIOUS
    <3> QED BY <2>2, <3>1, ZenonT(30)
  <2> HIDE DEF h
  <2> QED BY <2>3, SMTT(30)
<1>3. n \in G
  <2> HIDE DEF G
  <2>1. G \in SUBSET (0 .. n)
    BY DEF G
  <2> HIDE DEF n
  <2>2. \A m \in 1 .. n : m - 1 \in G => m \in G
    BY <1>2
  <2>3. \A m \in 0 .. n : m \in G
    BY <1>0, <1>1, <2>1, <2>2, Upwards, Zenon
  <2> QED BY <1>0, <2>3
<1> DEFINE after == CHOOSE after : Fit(after, n)
<1>4. Fit(after, n)
  <2> HIDE DEF Fit
  <2> QED BY <1>3
<1>5. ProgCopiesLoop(t, seq, i, new, found, src) = after[n]
  BY Zenon DEF ProgCopiesLoop, ForEach, Then
<1> HIDE DEF after
<1>6. ProgCopies(after, t, seq, i, new, found, src)
  BY <1>4 DEF ProgCopies
<1> QED BY <1>5, <1>6

HeadedTS(t, i, new) == [t EXCEPT !.ts[i].prog = HeadAt(@, new)]

\* CopyProgs is that loop, after the stream is headed.
LEMMA CopyProgsRaw ==
    ASSUME NEW t, NEW i, NEW new, NEW found, NEW src
    PROVE  CopyProgs(t, i, new, found, src) = ProgCopiesLoop(HeadedTS(t, i, new), Numbers(new), i, new, found, src)
BY Zenon DEF CopyProgs, ProgCopiesLoop, OneProg, RelinkProg, HeadedTS

\* A step of it copies one program and links it.
LEMMA OneProgRaw ==
    ASSUME NEW u, NEW i, NEW new, NEW found, NEW src, NEW k, NEW r, r = CopyInputProg(u, i, new[k], found, src[k])
    PROVE  OneProg(u, i, new, found, src, k) = IF r.err = "SUCCESS" THEN Ok(RelinkProg(r.t, new, k)) ELSE r
BY Zenon DEF OneProg, Then

\* What programs are copied for.
ProgsFor(t, i, s, found, src) ==
    /\ i \in DOMAIN t.ts /\ t.ts[i].valid
    /\ s \in Seq(Nat) /\ Distinct(s) /\ Len(s) < MAX_INDEX_LIST_NUMBER
    /\ \A k \in 1 .. Len(s) : s[k] \in DOMAIN t.prog
    /\ Shape(found) /\ TempECMs(found) /\ Len(src) = Len(s) /\ \A k \in 1 .. Len(s) : TempProg(found, src[k])

\* The first k programs are copied.
CopiedProgs(t, u, Q, W, i, OW, s, k) ==
    /\ u.ts = t.ts /\ DOMAIN u.prog = DOMAIN t.prog /\ PIDsStay(t, u) /\ ProgsStay(t, u)
    /\ Len(Q[i]) = k /\ \A x \in 1 .. k : Q[i][x] = s[x] /\ u.prog[s[x]].next = After(s, x)
    /\ \A x \in 1 .. Len(s) : x > k => ~u.prog[s[x]].valid
    /\ \E V : State(u, Q, V, {i}, OW, {}) /\ \A m \in Names : m[1] \in TSType => V[m] = W[m]

\* The link of a program is overwritten, and nothing else.
LEMMA RelinkProgIs ==
    ASSUME NEW t, Shape(t), NEW p \in DOMAIN t.prog, NEW x \in Nat,
           NEW OP, t.prog[p].ts \in OP, NEW OW, NEW u, u = [t EXCEPT !.prog[p].next = x]
    PROVE  ProgTouched(t, u, p, OP, OW) /\ u.prog[p].next = x
<1>1. PICK e : e = t.prog[p]
  OBVIOUS
<1>2. e \in ProgRec
  BY <1>1, ShapeFacts
<1>5. PICK f : f = [e EXCEPT !.next = x]
  BY Zenon
<1>6. f \in ProgRec /\ f.next = x /\ f.valid = e.valid /\ f.ts = e.ts /\ f.pcr = e.pcr /\ f.es = e.es /\ f.psecm = e.psecm
  BY <1>2, <1>5 DEF ProgRec
<1>7. u = [t EXCEPT !.prog[p] = f]
  BY <1>1, <1>5
<1>8. ProgEntered(t, u, p, f)
  BY <1>6, <1>7, EnterFacts
<1>9. /\ Shape(u) /\ u.ts = t.ts /\ u.pid = t.pid /\ DOMAIN u.prog = DOMAIN t.prog
      /\ u.prog[p] = f /\ \A y \in DOMAIN t.prog : y # p => u.prog[y] = t.prog[y]
  BY <1>8 DEF ProgEntered
<1>10. /\ u.prog[p].next = x /\ u.prog[p].valid = t.prog[p].valid /\ u.prog[p].ts = t.prog[p].ts
       /\ u.prog[p].pcr = t.prog[p].pcr /\ u.prog[p].es = t.prog[p].es /\ u.prog[p].psecm = t.prog[p].psecm
  BY <1>1, <1>6, <1>9
<1> QED BY <1>9, <1>10 DEF ProgTouched

\* The k-th program of a stream is copied behind those before it.
LEMMA CopyProgStep ==
    ASSUME NEW t, NEW W, NEW i, NEW OW, NEW s, NEW found, NEW src, ProgsFor(t, i, s, found, src),
           NEW k \in 1 .. Len(s), NEW u, NEW Q, CopiedProgs(t, u, Q, W, i, OW, s, k - 1),
           NEW r, r = OneProg(u, i, s, found, src, k)
    PROVE  r.err = "SUCCESS" /\ \E Q2 : CopiedProgs(t, r.t, Q2, W, i, OW, s, k)
<1>1. /\ i \in DOMAIN t.ts /\ t.ts[i].valid
      /\ s \in Seq(Nat) /\ Distinct(s) /\ Len(s) < MAX_INDEX_LIST_NUMBER
      /\ \A x \in 1 .. Len(s) : s[x] \in DOMAIN t.prog
      /\ Shape(found) /\ TempECMs(found) /\ TempProg(found, src[k])
  BY DEF ProgsFor
<1>2. PICK p : p = s[k]
  OBVIOUS
<1>3. /\ u.ts = t.ts /\ DOMAIN u.prog = DOMAIN t.prog /\ PIDsStay(t, u) /\ ProgsStay(t, u)
      /\ Len(Q[i]) = k - 1 /\ \A x \in 1 .. k - 1 : Q[i][x] = s[x] /\ u.prog[s[x]].next = After(s, x)
      /\ \A x \in 1 .. Len(s) : x > k - 1 => ~u.prog[s[x]].valid
  BY DEF CopiedProgs
<1>4. PICK V : State(u, Q, V, {i}, OW, {}) /\ \A m \in Names : m[1] \in TSType => V[m] = W[m]
  BY DEF CopiedProgs
<1>5. k \in Nat \ {0} /\ p \in Nat /\ p \in DOMAIN u.prog
  BY <1>1, <1>2, <1>3
<1>6. ~u.prog[p].valid
  <2>1. k > k - 1
    BY <1>5
  <2> QED BY <1>2, <1>3, <2>1
<1>7. Q \in [Nat -> Seq(Nat)] /\ Shape(u)
  BY <1>4 DEF State, Layout, Placed
<1>8. i \in Nat /\ i \in DOMAIN u.ts /\ u.ts[i].valid
  BY <1>1, <1>3, <1>7, ShapeFacts, Zenon
<1>9. Len(Q[i]) + 1 < MAX_INDEX_LIST_NUMBER
  <2>1. MAX_INDEX_LIST_NUMBER \in Nat
    BY TableAssumption
  <2>2. PICK b \in Nat : b = Len(s)
    BY <1>1
  <2>3. k \in 1 .. b /\ b < MAX_INDEX_LIST_NUMBER
    BY <1>1, <2>2
  <2>4. k - 1 + 1 < MAX_INDEX_LIST_NUMBER
    BY <2>1, <2>3
  <2> QED BY <1>3, <2>4
<1>10. PICK q, c : q = src[k] /\ c = CopyInputProg(u, i, p, found, q)
  OBVIOUS
<1>11. PICK Q2 : Q2 = With(Q, i, <<p>>)
  OBVIOUS
<1>12. ProgCopied(u, c, Q2, V, {i}, OW, p, i)
  <2>1. TempProg(found, q) /\ c = CopyInputProg(u, i, p, found, q)
    BY <1>1, <1>10
  <2>2. i \in {i}
    OBVIOUS
  <2>3. ProgCopied(u, c, With(Q, i, <<p>>), V, {i}, OW, p, i)
    BY <1>1, <1>4, <1>5, <1>6, <1>8, <1>9, <2>1, <2>2, CopyInputProgDone, Zenon
  <2> QED BY <1>11, <2>3
<1>13. PICK d, z : d = c.t /\ z = RelinkProg(d, s, k)
  OBVIOUS
<1>14. /\ c.err = "SUCCESS" /\ d.ts = t.ts /\ DOMAIN d.prog = DOMAIN t.prog /\ PIDsStay(u, d)
       /\ \A x \in DOMAIN u.prog : x # p => d.prog[x] = u.prog[x]
       /\ d.prog[p].valid /\ d.prog[p].ts = i
  BY <1>3, <1>12, <1>13 DEF ProgCopied
<1>15. PICK V2 : /\ State(d, Q2, V2, {i}, OW, {})
                 /\ \A m \in Names : m \notin Open(p) /\ m[1] # "ES_ECMPID" => V2[m] = V[m]
  BY <1>12, <1>13 DEF ProgCopied
<1>16. r.err = "SUCCESS" /\ r.t = z
  <2>1. r = Ok(z)
    <3>1. r = IF c.err = "SUCCESS" THEN Ok(RelinkProg(c.t, s, k)) ELSE c
      <4>1. c = CopyInputProg(u, i, s[k], found, src[k])
        BY <1>2, <1>10
      <4> QED BY <4>1, OneProgRaw
    <3> QED BY <1>13, <1>14, <3>1
  <2> QED BY <2>1 DEF Ok
<1>17. ProgTouched(d, z, p, {i}, OW) /\ z.prog[p].next = After(s, k)
  <2>1. Shape(d)
    BY <1>15 DEF State, Layout
  <2>2. p \in DOMAIN d.prog
    BY <1>3, <1>5, <1>14
  <2>3. PICK NP : NP = {i}
    BY Zenon
  <2>4. d.prog[p].ts \in NP
    BY <1>14, <2>3
  <2>5. PICK x : x = After(s, k)
    OBVIOUS
  <2>6. x \in Nat
    <3>1. k < Len(s) => s[k + 1] \in Nat
      BY <1>1, <1>5
    <3> QED BY <2>5, <3>1 DEF After, INDEX_INVALID_VALUE
  <2>7. z = [d EXCEPT !.prog[p].next = x]
    BY <1>2, <1>13, <2>5 DEF RelinkProg
  <2>8. ProgTouched(d, z, p, NP, OW) /\ z.prog[p].next = x
    BY <2>1, <2>2, <2>4, <2>6, <2>7, RelinkProgIs
  <2> QED BY <2>3, <2>5, <2>8
<1>18. State(z, Q2, V2, {i}, OW, {})
  <2>1. p \in DOMAIN d.prog
    BY <1>3, <1>5, <1>14
  <2> QED BY <1>15, <1>17, <2>1, TouchProg
<1>19. z.ts = t.ts /\ DOMAIN z.prog = DOMAIN t.prog /\ \A x \in DOMAIN u.prog : x # p => z.prog[x] = u.prog[x]
  BY <1>3, <1>14, <1>17 DEF ProgTouched
<1>20. Len(Q2[i]) = k /\ Q2[i][k] = p /\ \A x \in 1 .. k - 1 : Q2[i][x] = s[x]
  <2>1. Q2[i] = Q[i] \o <<p>>
    BY <1>7, <1>8, <1>11, Zenon DEF With
  <2>2. PICK w, v : w = Q[i] /\ v = Q2[i]
    OBVIOUS
  <2>3. w \in Seq(Nat) /\ v = w \o <<p>> /\ Len(w) = k - 1
    BY <1>3, <1>7, <1>8, <2>1, <2>2
  <2>4. Len(v) = k /\ v[k] = p /\ \A x \in 1 .. k - 1 : v[x] = w[x]
    BY <1>5, <2>3, Append1
  <2> QED BY <1>3, <2>2, <2>4
<1>21. \A y \in 1 .. Len(s) : y # k => z.prog[s[y]] = u.prog[s[y]]
  <2>1. ASSUME NEW y \in 1 .. Len(s), y # k PROVE z.prog[s[y]] = u.prog[s[y]]
    <3>1. s[y] # p
      BY <1>1, <1>2, <2>1 DEF Distinct
    <3>2. s[y] \in DOMAIN u.prog
      BY <1>1, <1>3
    <3> QED BY <1>19, <3>1, <3>2
  <2> QED BY <2>1
<1>22. \A y \in 1 .. k : Q2[i][y] = s[y] /\ z.prog[s[y]].next = After(s, y)
  <2>1. ASSUME NEW y \in 1 .. k PROVE Q2[i][y] = s[y] /\ z.prog[s[y]].next = After(s, y)
    <3>1. CASE y = k
      BY <1>2, <1>17, <1>20, <3>1
    <3>2. CASE y # k
      <4>1. y \in 1 .. k - 1 /\ y \in 1 .. Len(s)
        BY <1>5, <3>2
      <4> QED BY <1>3, <1>20, <1>21, <3>2, <4>1, Zenon
    <3> QED BY <3>1, <3>2
  <2> QED BY <2>1
<1>23. \A y \in 1 .. Len(s) : y > k => ~z.prog[s[y]].valid
  <2>1. ASSUME NEW y \in 1 .. Len(s), y > k PROVE ~z.prog[s[y]].valid
    <3>1. y # k /\ y > k - 1
      BY <1>5, <2>1
    <3> QED BY <1>3, <1>21, <3>1
  <2> QED BY <2>1
<1>24. \A m \in Names : m[1] \in TSType => V2[m] = W[m]
  <2>1. ASSUME NEW m \in Names, m[1] \in TSType PROVE V2[m] = W[m]
    <3>1. m \notin Open(p) /\ m[1] # "ES_ECMPID"
      BY <2>1 DEF TSType, Open
    <3> QED BY <1>4, <1>15, <2>1, <3>1
  <2> QED BY <2>1
<1>25. CopiedProgs(t, z, Q2, W, i, OW, s, k)
  <2>1. \E X : State(z, Q2, X, {i}, OW, {}) /\ \A m \in Names : m[1] \in TSType => X[m] = W[m]
    BY <1>18, <1>24
  <2>2. PIDsStay(t, z)
    <3>1. PIDsStay(u, z)
      BY <1>14, <1>17 DEF PIDsStay, ProgTouched
    <3> QED BY <1>3, <3>1, PIDsStayOn
  <2>3. ProgsStay(t, z)
    <3>1. \A x \in DOMAIN t.prog : t.prog[x].valid => x # p
      BY <1>3, <1>6 DEF ProgsStay
    <3> QED BY <1>3, <1>19, <3>1 DEF ProgsStay
  <2> QED BY <1>19, <1>20, <1>22, <1>23, <2>1, <2>2, <2>3 DEF CopiedProgs
<1> QED BY <1>16, <1>25

\* Nothing but the stream i has changed.
TSTouched(t, u, i) ==
    /\ Shape(u) /\ u.prog = t.prog /\ u.pid = t.pid /\ DOMAIN u.ts = DOMAIN t.ts
    /\ \A x \in DOMAIN t.ts : x # i => u.ts[x] = t.ts[x]

OpenTS(i) == {<<"EMMPID", i>>, <<"OTHERPID", i>>}

\* A layout does not depend on the entry of a stream whose lists are open.
LEMMA TouchTS ==
    ASSUME NEW t, NEW P, NEW W, NEW OP, NEW OW, NEW R, State(t, P, W, OP, OW, R),
           NEW i \in DOMAIN t.ts, NEW u, TSTouched(t, u, i), u.ts[i].valid,
           NEW NOP, NEW NW, OP \subseteq NOP, OW \subseteq NW, OpenTS(i) \subseteq NW,
           i \in NOP \/ (t.ts[i].valid /\ u.ts[i].prog = t.ts[i].prog)
    PROVE  State(u, P, W, NOP, NW, R)
<1>1. Layout(t, P, W, OP, OW, R) /\ Reserved(t, R) /\ Unowned(t)
  BY DEF State
<1>2. /\ Shape(u) /\ u.prog = t.prog /\ u.pid = t.pid /\ DOMAIN u.ts = DOMAIN t.ts
      /\ \A x \in DOMAIN t.ts : x # i => u.ts[x] = t.ts[x]
  BY DEF TSTouched
<1>3. ASSUME NEW n \in Names, n \notin NW, Owned(u, n) PROVE Owned(t, n) /\ HeadRec(u, n) = HeadRec(t, n)
  <2>1. n = <<n[1], n[2]>> /\ n[1] \in Types \ {"UNKNOWN"}
    BY NameFacts
  <2>2. CASE n[1] \in {"EMMPID", "OTHERPID"}
    <3>1. n[2] # i
      <4>1. n[2] = i => n \in OpenTS(i)
        BY <2>1, <2>2 DEF OpenTS
      <4> QED BY <1>3, <4>1
    <3>2. n[2] \in DOMAIN u.ts /\ u.ts[n[2]].valid
      BY <1>3, <2>2 DEF Owned
    <3>3. u.ts[n[2]] = t.ts[n[2]]
      BY <1>2, <3>1, <3>2
    <3> QED BY <1>2, <2>2, <3>2, <3>3 DEF Owned, HeadRec
  <2>3. CASE n[1] \notin {"EMMPID", "OTHERPID"}
    BY <1>2, <1>3, <2>3 DEF Owned, HeadRec
  <2> QED BY <2>2, <2>3
<1>4. ProgsTouched(t, u, P, NOP, NW)
  <2>1. \A x \in DOMAIN t.ts : x \notin NOP => (u.ts[x].valid => t.ts[x].valid /\ u.ts[x].prog = t.ts[x].prog)
    BY <1>2
  <2>2. \A x \in DOMAIN t.ts : t.ts[x].valid => u.ts[x].valid
    BY <1>2
  <2> QED BY <1>2, <1>3, <2>1, <2>2 DEF ProgsTouched
<1>5. Layout(u, P, W, NOP, NW, R)
  BY <1>1, <1>2, <1>4, TouchProgs
<1>6. Reserved(u, R) /\ Unowned(u)
  BY <1>1, <1>2 DEF Reserved, Unowned
<1> QED BY <1>5, <1>6 DEF State

\* A stream entry is overwritten, and nothing else.
LEMMA EnterTS ==
    ASSUME NEW t, Shape(t), NEW i \in DOMAIN t.ts, NEW f \in TSRec, NEW u, u = [t EXCEPT !.ts[i] = f]
    PROVE  TSTouched(t, u, i) /\ u.ts[i] = f
<1>1. PICK a \in Nat, b \in Nat, c \in Nat : t \in Tables(a, b, c)
  BY DEF Shape
<1>2. DOMAIN t.ts = 0 .. a - 1
  BY <1>1, Parts
<1>3. i \in 0 .. a - 1
  BY <1>2
<1>4. u \in Tables(a, b, c)
  BY <1>1, <1>3, PutTS, Zenon
<1>5. Shape(u)
  BY <1>4 DEF Shape
<1>7. u.prog = t.prog /\ u.pid = t.pid /\ u.ts = [t.ts EXCEPT ![i] = f]
  BY <1>1 DEF Tables
<1>6. DOMAIN u.ts = DOMAIN t.ts
  BY <1>7
<1>8. u.ts[i] = f /\ \A x \in DOMAIN t.ts : x # i => u.ts[x] = t.ts[x]
  BY <1>7
<1> QED BY <1>5, <1>6, <1>7, <1>8 DEF TSTouched

\* A list of programs that is linked from its head to its end need not be open any more.
LEMMA CloseProgs ==
    ASSUME NEW t, NEW P, NEW W, NEW OP, NEW OW, NEW R, NEW i, State(t, P, W, OP \cup {i}, OW, R),
           Chain(t.prog, t.ts[i].prog, P[i])
    PROVE  State(t, P, W, OP, OW, R)
<1>1. \A x \in DOMAIN t.ts : t.ts[x].valid /\ x \in (OP \cup {i}) \ OP => Chain(t.prog, t.ts[x].prog, P[x])
  OBVIOUS
<1>2. \A m \in Names : Owned(t, m) /\ m \in OW \ OW => Strung(t, m, W[m])
  OBVIOUS
<1>3. Layout(t, P, W, OP \cup {i}, OW, R)
  BY DEF State
<1> QED BY <1>1, <1>2, <1>3, Close DEF State

\* The stream i gets the heads of its lists.
LEMMA HeadedTSIs ==
    ASSUME NEW t, Shape(t), NEW i \in DOMAIN t.ts, NEW new \in Seq(Nat), NEW u, u = HeadedTS(t, i, new)
    PROVE  /\ TSTouched(t, u, i) /\ u.ts[i].valid = t.ts[i].valid /\ u.ts[i].channel = t.ts[i].channel
           /\ HeadIs(u.ts[i].prog, new, t.ts[i].prog) /\ u.ts[i].emm = t.ts[i].emm /\ u.ts[i].other = t.ts[i].other
<1>1. PICK e : e = t.ts[i]
  OBVIOUS
<1>2. e \in TSRec
  BY <1>1, ShapeFacts
<1>3. PICK l, h : l = e.prog /\ h = HeadAt(l, new)
  OBVIOUS
<1>4. l \in ListRec
  BY <1>2, <1>3 DEF TSRec
<1>5. HeadIs(h, new, l)
  BY <1>3, <1>4, HeadAtIs
<1>6. PICK f : f = [e EXCEPT !.prog = h]
  BY Zenon
<1>7. h \in ListRec
  BY <1>5 DEF HeadIs
<1>8. f \in TSRec /\ f.valid = e.valid /\ f.channel = e.channel /\ f.prog = h /\ f.emm = e.emm /\ f.other = e.other
  BY <1>2, <1>6, <1>7 DEF TSRec
<1>9. u = [t EXCEPT !.ts[i] = f]
  BY <1>1, <1>3, <1>6 DEF HeadedTS
<1>10. f \in TSRec
  BY <1>8
<1>11. TSTouched(t, u, i) /\ u.ts[i] = f
  BY <1>9, <1>10, EnterTS
<1> QED BY <1>1, <1>3, <1>5, <1>8, <1>11

\* The programs are copied to the indices s of stream i.
ProgsCopied(t, r, W, i, OW, s) ==
    /\ r.err = "SUCCESS" /\ DOMAIN r.t.ts = DOMAIN t.ts /\ \A x \in DOMAIN t.ts : x # i => r.t.ts[x] = t.ts[x]
    /\ r.t.ts[i].valid /\ r.t.ts[i].channel = t.ts[i].channel
    /\ r.t.ts[i].emm = t.ts[i].emm /\ r.t.ts[i].other = t.ts[i].other /\ PIDsStay(t, r.t) /\ ProgsStay(t, r.t)
    /\ \E Q, V : State(r.t, Q, V, {}, OW, {}) /\ \A m \in Names : m[1] \in TSType => V[m] = W[m]

\* CopyProgs: the stream has the programs s, linked from the head to the end.
LEMMA CopyProgsDone ==
    ASSUME NEW t, NEW P, NEW W, NEW i, NEW OW, State(t, P, W, {i}, OW, {}), OpenTS(i) \subseteq OW, P[i] = << >>,
           NEW s, NEW found, NEW src, ProgsFor(t, i, s, found, src), t.ts[i].prog.num = Len(s),
           \A k \in 1 .. Len(s) : ~t.prog[s[k]].valid,
           NEW r, r = CopyProgs(t, i, s, found, src)
    PROVE  ProgsCopied(t, r, W, i, OW, s)
<1>1. /\ i \in DOMAIN t.ts /\ t.ts[i].valid
      /\ s \in Seq(Nat) /\ Distinct(s) /\ Len(s) < MAX_INDEX_LIST_NUMBER
      /\ \A k \in 1 .. Len(s) : s[k] \in DOMAIN t.prog
  BY DEF ProgsFor
<1>2. Shape(t)
  BY DEF State, Layout
<1>3. PICK t0 : t0 = HeadedTS(t, i, s)
  OBVIOUS
<1>4. /\ TSTouched(t, t0, i) /\ t0.ts[i].valid = t.ts[i].valid /\ t0.ts[i].channel = t.ts[i].channel
      /\ HeadIs(t0.ts[i].prog, s, t.ts[i].prog) /\ t0.ts[i].emm = t.ts[i].emm /\ t0.ts[i].other = t.ts[i].other
  <2>1. i \in DOMAIN t.ts /\ s \in Seq(Nat)
    BY <1>1
  <2> QED BY <1>2, <1>3, <2>1, HeadedTSIs
<1>5. /\ t0.prog = t.prog /\ t0.pid = t.pid /\ DOMAIN t0.ts = DOMAIN t.ts
      /\ \A x \in DOMAIN t.ts : x # i => t0.ts[x] = t.ts[x]
  BY <1>4 DEF TSTouched
<1>6. State(t0, P, W, {i}, OW, {})
  <2>1. PICK NP : NP = {i}
    BY Zenon
  <2>2. i \in NP /\ State(t, P, W, NP, OW, {}) /\ t0.ts[i].valid /\ NP \subseteq NP /\ OW \subseteq OW
    BY <1>1, <1>4, <2>1
  <2>3. State(t0, P, W, NP, OW, {})
    BY <1>1, <1>4, <2>2, TouchTS
  <2> QED BY <2>1, <2>3
<1>7. ProgsFor(t0, i, s, found, src)
  BY <1>4, <1>5 DEF ProgsFor
<1>8. PICK b \in Nat : b = Len(s)
  BY <1>1
<1>9. PICK seq : seq = Numbers(s)
  OBVIOUS
<1>10. Len(seq) = b /\ \A k \in 1 .. b : seq[k] = k
  BY <1>1, <1>8, <1>9, NumbersFacts
<1>11. PICK g : ProgCopies(g, t0, seq, i, s, found, src) /\ ProgCopiesLoop(t0, seq, i, s, found, src) = g[Len(seq)]
  <2>1. Len(seq) \in Nat
    BY <1>10
  <2> QED BY <2>1, ProgCopiesDef
<1>12. r = g[b]
  BY <1>3, <1>9, <1>10, <1>11, CopyProgsRaw
<1> DEFINE G == {k \in 0 .. b : g[k].err = "SUCCESS" /\ \E Q : CopiedProgs(t0, g[k].t, Q, W, i, OW, s, k)}
<1>13. 0 \in G
  <2>1. g[0] = Ok(t0)
    BY <1>11 DEF ProgCopies
  <2>2. g[0].t = t0 /\ g[0].err = "SUCCESS"
    BY <2>1 DEF Ok
  <2>3. Len(P[i]) = 0
    <3>1. PICK w : w = P[i]
      OBVIOUS
    <3>2. w = << >>
      BY <3>1
    <3>3. Len(w) = 0
      BY <3>2
    <3> QED BY <3>1, <3>3
  <2>4. \E V : State(t0, P, V, {i}, OW, {}) /\ \A m \in Names : m[1] \in TSType => V[m] = W[m]
    BY <1>6
  <2>5. \A x \in 1 .. Len(s) : ~t0.prog[s[x]].valid
    BY <1>5
  <2>6. CopiedProgs(t0, t0, P, W, i, OW, s, 0)
    BY <2>3, <2>4, <2>5 DEF CopiedProgs, PIDsStay, ProgsStay
  <2> QED BY <2>2, <2>6
<1>14. ASSUME NEW k \in 1 .. b, k - 1 \in G PROVE k \in G
  <2>1. g[k] = IF g[k - 1].err = "SUCCESS" THEN OneProg(g[k - 1].t, i, s, found, src, k) ELSE g[k - 1]
    <3>1. k \in 1 .. Len(seq) /\ seq[k] = k
      BY <1>10
    <3> QED BY <1>11, <3>1 DEF ProgCopies
  <2>2. PICK u, q : u = g[k - 1].t /\ q = g[k]
    OBVIOUS
  <2>3. q = OneProg(u, i, s, found, src, k)
    BY <1>14, <2>1, <2>2
  <2>4. PICK Q : CopiedProgs(t0, u, Q, W, i, OW, s, k - 1)
    BY <1>14, <2>2
  <2>5. k \in 1 .. Len(s)
    BY <1>8
  <2>6. q.err = "SUCCESS" /\ \E Q2 : CopiedProgs(t0, q.t, Q2, W, i, OW, s, k)
    BY <1>7, <2>3, <2>4, <2>5, CopyProgStep
  <2> QED BY <2>2, <2>6
<1>15. G \in SUBSET (0 .. b)
  OBVIOUS
<1> HIDE DEF G
<1>16. \A k \in 0 .. b : k \in G
  BY <1>13, <1>14, <1>15, Upwards, Zenon
<1>17. b \in G
  BY <1>16
<1>18. PICK u : u = r.t
  OBVIOUS
<1>19. r.err = "SUCCESS"
  BY <1>12, <1>17 DEF G
<1>20. PICK Q : CopiedProgs(t0, u, Q, W, i, OW, s, b)
  BY <1>12, <1>17, <1>18 DEF G
<1>21. /\ u.ts = t0.ts /\ DOMAIN u.prog = DOMAIN t0.prog
       /\ Len(Q[i]) = b /\ \A x \in 1 .. b : Q[i][x] = s[x] /\ u.prog[s[x]].next = After(s, x)
  BY <1>20 DEF CopiedProgs
<1>22. PICK V : State(u, Q, V, {i}, OW, {}) /\ \A m \in Names : m[1] \in TSType => V[m] = W[m]
  BY <1>20 DEF CopiedProgs
<1>23. Q[i] = s
  <2>1. Q \in [Nat -> Seq(Nat)] /\ i \in Nat
    BY <1>1, <1>2, <1>22, ShapeFacts, Zenon DEF State, Layout, Placed
  <2>2. Q[i] \in Seq(Nat)
    BY <2>1
  <2> QED BY <1>1, <1>8, <1>21, <2>2, SameSequence
<1>24. Chain(u.prog, u.ts[i].prog, Q[i])
  <2>1. PICK l : l = u.ts[i].prog
    OBVIOUS
  <2>2. l.num = Len(s) /\ (s # << >> => l.head = s[1])
    BY <1>4, <1>21, <2>1 DEF HeadIs
  <2>3. \A k \in 1 .. Len(s) : s[k] \in DOMAIN u.prog
    BY <1>1, <1>5, <1>21
  <2>4. Chain(u.prog, l, s)
    BY <1>8, <1>21, <2>2, <2>3 DEF Chain
  <2> QED BY <1>23, <2>1, <2>4
<1>25. State(u, Q, V, {}, OW, {})
  <2>1. State(u, Q, V, {} \cup {i}, OW, {})
    <3>1. {i} = {} \cup {i}
      OBVIOUS
    <3> QED BY <1>22, <3>1
  <2> QED BY <1>24, <2>1, CloseProgs, Zenon
<1>26. /\ DOMAIN u.ts = DOMAIN t.ts /\ \A x \in DOMAIN t.ts : x # i => u.ts[x] = t.ts[x]
       /\ u.ts[i].valid /\ u.ts[i].channel = t.ts[i].channel /\ u.ts[i].emm = t.ts[i].emm /\ u.ts[i].other = t.ts[i].other
  BY <1>1, <1>4, <1>5, <1>21, Zenon
<1>27. \E Q2, V2 : State(u, Q2, V2, {}, OW, {}) /\ \A m \in Names : m[1] \in TSType => V2[m] = W[m]
  BY <1>22, <1>25
<1>28. PIDsStay(t, u) /\ ProgsStay(t, u)
  <2>1. PIDsStay(t0, u) /\ ProgsStay(t0, u)
    BY <1>20 DEF CopiedProgs
  <2> QED BY <1>5, <2>1 DEF PIDsStay, ProgsStay
<1> QED BY <1>18, <1>19, <1>26, <1>27, <1>28 DEF ProgsCopied

\* The heads of the two lists of PIDs of a stream are set.
HeadedPIDs(t, i, emm, other) == [t EXCEPT !.ts[i].emm = HeadAt(@, emm), !.ts[i].other = HeadAt(@, other)]
TSLists(t, i, emm, other, found, e) ==
    Then(CopyPIDList(t, i, INDEX_INVALID_VALUE, emm, found, e.emm),
         LAMBDA u : CopyPIDList(u, i, INDEX_INVALID_VALUE, other, found, e.other))
EMMsOf(e, new) == SubSeq(new, 1, e.emm.num)
OthersOf(e, new) == SubSeq(new, e.emm.num + 1, e.emm.num + e.other.num)

\* CopyTSPIDs is heading both lists and copying them.
LEMMA CopyTSPIDsRaw ==
    ASSUME NEW t, NEW i, NEW found, NEW e, NEW new
    PROVE  CopyTSPIDs(t, i, found, e, new) =
             TSLists(HeadedPIDs(t, i, EMMsOf(e, new), OthersOf(e, new)), i, EMMsOf(e, new), OthersOf(e, new), found, e)
BY Zenon DEF CopyTSPIDs, TSLists, HeadedPIDs, EMMsOf, OthersOf

\* The second list is copied if the first is.
LEMMA TSListsRaw ==
    ASSUME NEW t, NEW i, NEW emm, NEW other, NEW found, NEW e,
           NEW r, r = CopyPIDList(t, i, INDEX_INVALID_VALUE, emm, found, e.emm)
    PROVE  TSLists(t, i, emm, other, found, e) =
             IF r.err = "SUCCESS" THEN CopyPIDList(r.t, i, INDEX_INVALID_VALUE, other, found, e.other) ELSE r
BY Zenon DEF TSLists, Then

\* The heads of the PID lists of a stream are overwritten, and nothing else.
LEMMA HeadedPIDsIs ==
    ASSUME NEW t, Shape(t), NEW i \in DOMAIN t.ts, NEW emm \in Seq(Nat), NEW other \in Seq(Nat),
           NEW u, u = HeadedPIDs(t, i, emm, other)
    PROVE  /\ TSTouched(t, u, i) /\ u.ts[i].valid = t.ts[i].valid /\ u.ts[i].channel = t.ts[i].channel
           /\ u.ts[i].prog = t.ts[i].prog
           /\ HeadIs(u.ts[i].emm, emm, t.ts[i].emm) /\ HeadIs(u.ts[i].other, other, t.ts[i].other)
<1>1. PICK e : e = t.ts[i]
  OBVIOUS
<1>2. e \in TSRec
  BY <1>1, ShapeFacts
<1>3. PICK l, h, m, g : l = e.emm /\ h = HeadAt(l, emm) /\ m = e.other /\ g = HeadAt(m, other)
  OBVIOUS
<1>4. l \in ListRec /\ m \in ListRec
  BY <1>2, <1>3 DEF TSRec
<1>5. HeadIs(h, emm, l) /\ HeadIs(g, other, m)
  BY <1>3, <1>4, HeadAtIs
<1>6. PICK f : f = [e EXCEPT !.emm = h, !.other = g]
  OBVIOUS
<1>7. h \in ListRec /\ g \in ListRec
  BY <1>5 DEF HeadIs
<1>8. f \in TSRec /\ f.valid = e.valid /\ f.channel = e.channel /\ f.prog = e.prog /\ f.emm = h /\ f.other = g
  BY <1>2, <1>6, <1>7, Zenon DEF TSRec
<1>9. u = [t EXCEPT !.ts[i] = f]
  <2>1. t.ts = [x \in DOMAIN t.ts |-> t.ts[x]] /\ DOMAIN e = {"valid", "channel", "prog", "emm", "other"}
    BY <1>2 DEF Shape, Tables, TSRec
  <2> QED BY <1>1, <1>3, <1>6, <2>1, ZenonT(60) DEF HeadedPIDs
<1>10. f \in TSRec
  BY <1>8
<1>11. TSTouched(t, u, i) /\ u.ts[i] = f
  BY <1>9, <1>10, EnterTS
<1> QED BY <1>1, <1>3, <1>5, <1>8, <1>11

\* The lists of PIDs of the stream i are copied.
StreamCopied(t, r, i) ==
    /\ r.err = "SUCCESS" /\ DOMAIN r.t.ts = DOMAIN t.ts /\ \A x \in DOMAIN t.ts : x # i => r.t.ts[x] = t.ts[x]
    /\ r.t.ts[i].valid /\ r.t.ts[i].channel = t.ts[i].channel /\ r.t.prog = t.prog /\ PIDsStay(t, r.t)
    /\ \E P, V : State(r.t, P, V, {}, {}, {})

\* The indices s are for a list of stream i.
TSListFor(t, head, from, found, type, s) ==
    /\ HeadIs(head, s, from) /\ s \in Seq(Nat) /\ Distinct(s) /\ Len(s) = from.num /\ Len(s) < MAX_INDEX_LIST_NUMBER
    /\ \A k \in 1 .. Len(s) : s[k] \in DOMAIN t.pid /\ t.pid[s[k]].type = "UNKNOWN"
    /\ \E src : TempList(found, from, src, type)

\* Where the list n of stream i is for the indices s, CopyPIDList copies it.
LEMMA TSListCopied ==
    ASSUME NEW t, NEW P, NEW W, NEW OW, NEW i \in DOMAIN t.ts, t.ts[i].valid, NEW n \in Names, n[1] \in TSType, n[2] = i,
           State(t, P, W, {}, OW \cup {n}, {}), W[n] = << >>,
           NEW found, Shape(found), TempECMs(found), NEW from, NEW s, TSListFor(t, HeadRec(t, n), from, found, n[1], s),
           NEW r, r = CopyPIDList(t, i, INDEX_INVALID_VALUE, s, found, from)
    PROVE  ListCopied(t, r, P, W, {}, OW, {}, n, s)
<1>1. i \in Nat
  <2>1. Shape(t)
    BY DEF State, Layout
  <2> QED BY <2>1, ShapeFacts
<1>2. n[1] # "ES_ECMPID" /\ n[1] # "ESPID" /\ n[1] # "PCRPID"
  BY DEF TSType
<1>3. PICK src : TempList(found, from, src, n[1])
  BY <1>2 DEF TSListFor
<1>4. /\ HeadIs(HeadRec(t, n), s, from) /\ s \in Seq(Nat) /\ Distinct(s) /\ Len(s) = from.num /\ Len(s) < MAX_INDEX_LIST_NUMBER
      /\ \A k \in 1 .. Len(s) : s[k] \in DOMAIN t.pid /\ t.pid[s[k]].type = "UNKNOWN"
  BY DEF TSListFor
<1>5. HeadRec(t, n).num = Len(s) /\ (s # << >> => HeadRec(t, n).head = s[1])
  BY <1>4 DEF HeadIs
<1>6. Len(src) = Len(s)
  BY <1>3, <1>4 DEF TempList
<1>7. Owned(t, n) /\ Right(t, n, i, INDEX_INVALID_VALUE)
  BY <1>2 DEF Owned, Right, TSType
<1>8. INDEX_INVALID_VALUE \in Nat /\ n \in OW \cup {n}
  BY DEF INDEX_INVALID_VALUE
<1>9. CopyFor(t, OW \cup {n}, {}, n, s, i, INDEX_INVALID_VALUE, found, from, src)
  BY <1>1, <1>2, <1>3, <1>4, <1>6, <1>7, <1>8 DEF CopyFor
<1>10. \A x \in 1 .. Len(s) : t.pid[s[x]].type = "UNKNOWN"
  BY <1>4
<1> QED BY <1>2, <1>5, <1>9, <1>10, CopyListDone

\* The sequences s and v are the first a and the last b of new.
Halves(s, v, new, a, b) ==
    /\ s \in Seq(Nat) /\ Distinct(s) /\ Len(s) = a /\ \A k \in 1 .. a : s[k] \in Elems(new)
    /\ v \in Seq(Nat) /\ Distinct(v) /\ Len(v) = b /\ \A k \in 1 .. b : v[k] \in Elems(new)
    /\ \A k \in 1 .. a, m \in 1 .. b : s[k] # v[m]

\* The indices of the EMMs and of the other PIDs have nothing in common.
LEMMA TSHalves ==
    ASSUME NEW new \in Seq(Nat), Distinct(new), NEW a \in Nat, NEW b \in Nat, Len(new) = a + b,
           NEW s, Slice(s, new, 1, a), NEW v, Slice(v, new, a + 1, a + b)
    PROVE  Halves(s, v, new, a, b)
<1>3. s \in Seq(Nat) /\ Distinct(s) /\ Len(s) = a /\ \A k \in 1 .. a : s[k] = new[k]
  <2>1. s \in Seq(Nat) /\ Distinct(s) /\ Len(s) = a - 1 + 1 /\ \A k \in 1 .. Len(s) : s[k] = new[1 + k - 1]
    BY DEF Slice
  <2>2. a - 1 + 1 = a /\ \A k \in Nat : 1 + k - 1 = k
    OBVIOUS
  <2> QED BY <2>1, <2>2
<1>4. v \in Seq(Nat) /\ Distinct(v) /\ Len(v) = b /\ \A k \in 1 .. b : v[k] = new[a + k]
  <2>1. v \in Seq(Nat) /\ Distinct(v) /\ Len(v) = a + b - (a + 1) + 1 /\ \A k \in 1 .. Len(v) : v[k] = new[a + 1 + k - 1]
    BY DEF Slice
  <2>2. a + b - (a + 1) + 1 = b /\ \A k \in Nat : a + 1 + k - 1 = a + k
    OBVIOUS
  <2> QED BY <2>1, <2>2
<1>5. \A k \in 1 .. a + b : new[k] \in Elems(new)
  BY DEF Elems
<1>6. \A k \in 1 .. a : k \in 1 .. a + b
  OBVIOUS
<1>7. \A k \in 1 .. b : a + k \in 1 .. a + b
  OBVIOUS
<1>8. \A k \in 1 .. a, m \in 1 .. b : k # a + m
  OBVIOUS
<1>9. ASSUME NEW k \in 1 .. a, NEW m \in 1 .. b PROVE s[k] # v[m]
  <2>1. s[k] = new[k] /\ v[m] = new[a + m]
    BY <1>3, <1>4
  <2>2. k # a + m /\ k \in 1 .. a + b /\ a + m \in 1 .. a + b
    BY <1>6, <1>7, <1>8
  <2> QED BY <2>1, <2>2 DEF Distinct
<1>10. \A k \in 1 .. a : s[k] \in Elems(new)
  BY <1>3, <1>5, <1>6
<1>11. \A k \in 1 .. b : v[k] \in Elems(new)
  BY <1>4, <1>5, <1>7
<1> QED BY <1>3, <1>4, <1>9, <1>10, <1>11 DEF Halves

\* They are the first and the last of the unused ones.
LEMMA HalvesAre ==
    ASSUME NEW new \in Seq(Nat), Distinct(new), NEW a \in Nat, NEW b \in Nat, Len(new) = a + b
    PROVE  Halves(SubSeq(new, 1, a), SubSeq(new, a + 1, a + b), new, a, b)
<1>1. PICK s, v : s = SubSeq(new, 1, a) /\ v = SubSeq(new, a + 1, a + b)
  BY Zenon
<1>2. Slice(s, new, 1, a) /\ Slice(v, new, a + 1, a + b)
  BY <1>1, SliceFacts
<1>3. Halves(s, v, new, a, b)
  BY <1>2, TSHalves
<1> QED BY <1>1, <1>3, Zenon

\* The heads of the lists of stream i are those of emm and other.
PIDsHeaded(t, u, i, emm, other) ==
    /\ TSTouched(t, u, i) /\ u.ts[i].valid = t.ts[i].valid /\ u.ts[i].channel = t.ts[i].channel
    /\ u.ts[i].prog = t.ts[i].prog
    /\ HeadIs(u.ts[i].emm, emm, t.ts[i].emm) /\ HeadIs(u.ts[i].other, other, t.ts[i].other)

\* Heading both lists of a stream.
LEMMA PIDsAreHeaded ==
    ASSUME NEW t, Shape(t), NEW i \in DOMAIN t.ts, NEW emm \in Seq(Nat), NEW other \in Seq(Nat)
    PROVE  PIDsHeaded(t, HeadedPIDs(t, i, emm, other), i, emm, other)
BY HeadedPIDsIs DEF PIDsHeaded

\* CopyTSPIDs: the stream has its EMMs and its other PIDs, and no list is open any more.
LEMMA CopyTSPIDsDone ==
    ASSUME NEW t, NEW P, NEW W, NEW i \in DOMAIN t.ts, t.ts[i].valid, State(t, P, W, {}, OpenTS(i), {}),
           W[<<"EMMPID", i>>] = << >>, W[<<"OTHERPID", i>>] = << >>,
           NEW found, Shape(found), TempECMs(found), 0 \in DOMAIN found.ts, TempTS(found), NEW e, e = found.ts[0],
           t.ts[i].emm = e.emm, t.ts[i].other = e.other,
           NEW new, Fresh(t.pid, new, e.emm.num + e.other.num),
           NEW r, r = CopyTSPIDs(t, i, found, e, new)
    PROVE  StreamCopied(t, r, i)
<1>1. e \in TSRec
  BY ShapeFacts
<1>2. PICK a \in Nat, b \in Nat : a = e.emm.num /\ b = e.other.num
  BY <1>1 DEF TSRec, ListRec
<1>3. a < MAX_INDEX_LIST_NUMBER /\ b < MAX_INDEX_LIST_NUMBER
  BY <1>2 DEF TempTS
<1>4. new \in Seq(Nat) /\ Len(new) = a + b /\ Distinct(new)
  BY <1>2 DEF Fresh, Distinct
<1>5. \A j \in Elems(new) : j \in DOMAIN t.pid /\ t.pid[j].type = "UNKNOWN"
  <2>1. \A k \in 1 .. a + b : new[k] \in DOMAIN t.pid /\ ~t.pid[new[k]].valid
    BY <1>2 DEF Fresh
  <2>2. Known(t, {})
    BY DEF State, Layout
  <2> QED BY <1>4, <2>1, <2>2 DEF Elems, Known
<1>6. PICK s, v : s = EMMsOf(e, new) /\ v = OthersOf(e, new)
  OBVIOUS
<1>7. /\ s \in Seq(Nat) /\ Distinct(s) /\ Len(s) = a /\ \A k \in 1 .. a : s[k] \in Elems(new)
      /\ v \in Seq(Nat) /\ Distinct(v) /\ Len(v) = b /\ \A k \in 1 .. b : v[k] \in Elems(new)
      /\ \A k \in 1 .. a, m \in 1 .. b : s[k] # v[m]
  <2>1. Halves(SubSeq(new, 1, a), SubSeq(new, a + 1, a + b), new, a, b)
    BY <1>4, HalvesAre
  <2>2. s = SubSeq(new, 1, a) /\ v = SubSeq(new, a + 1, a + b)
    BY <1>2, <1>6, Zenon DEF EMMsOf, OthersOf
  <2>3. Halves(s, v, new, a, b)
    BY <2>1, <2>2, Zenon
  <2> QED BY <2>3 DEF Halves
<1>8. PICK t0 : t0 = HeadedPIDs(t, i, s, v)
  OBVIOUS
<1>9. r = TSLists(t0, i, s, v, found, e)
  BY <1>6, <1>8, CopyTSPIDsRaw
<1>10. Shape(t) /\ i \in Nat
  <2>1. Shape(t)
    BY DEF State, Layout
  <2> QED BY <2>1, ShapeFacts
<1>11. /\ TSTouched(t, t0, i) /\ t0.ts[i].valid = t.ts[i].valid /\ t0.ts[i].channel = t.ts[i].channel
       /\ t0.ts[i].prog = t.ts[i].prog
       /\ HeadIs(t0.ts[i].emm, s, t.ts[i].emm) /\ HeadIs(t0.ts[i].other, v, t.ts[i].other)
  <2>1. s \in Seq(Nat) /\ v \in Seq(Nat)
    BY <1>7
  <2>2. PIDsHeaded(t, HeadedPIDs(t, i, s, v), i, s, v)
    BY <1>10, <2>1, PIDsAreHeaded
  <2>3. PIDsHeaded(t, t0, i, s, v)
    BY <1>8, <2>2, Zenon
  <2> QED BY <2>3 DEF PIDsHeaded
<1>12. /\ t0.prog = t.prog /\ t0.pid = t.pid /\ DOMAIN t0.ts = DOMAIN t.ts
       /\ \A x \in DOMAIN t.ts : x # i => t0.ts[x] = t.ts[x]
  BY <1>11 DEF TSTouched
<1>13. PICK n, m, E, OW, OV : n = <<"EMMPID", i>> /\ m = <<"OTHERPID", i>> /\ E = {} /\ OW = {m} /\ OV = OpenTS(i)
  BY Zenon
<1>14. /\ n \in Names /\ m \in Names /\ n[1] = "EMMPID" /\ m[1] = "OTHERPID" /\ n[2] = i /\ m[2] = i /\ n # m
       /\ n[1] \in TSType /\ m[1] \in TSType
  BY <1>10, <1>13 DEF Names, Types, TSType
<1>15. OV = OW \cup {n} /\ OW = E \cup {m}
  BY <1>13 DEF OpenTS
<1>16. State(t0, P, W, E, OV, E)
  <2>1. OpenTS(i) \subseteq OV /\ OV \subseteq OV /\ E \subseteq E /\ State(t, P, W, E, OV, E)
    BY <1>13
  <2>2. t0.ts[i].valid
    BY <1>11
  <2> QED BY <1>11, <2>1, <2>2, TouchTS
<1>17. HeadRec(t0, n) = t0.ts[i].emm /\ HeadRec(t0, m) = t0.ts[i].other
  BY <1>14 DEF HeadRec
<1>18. PICK src1 : TempList(found, e.emm, src1, "EMMPID")
  BY DEF TempTS
<1>19. PICK src2 : TempList(found, e.other, src2, "OTHERPID")
  BY DEF TempTS
<1>20. TSListFor(t0, HeadRec(t0, n), e.emm, found, n[1], s)
  <2>1. HeadIs(HeadRec(t0, n), s, e.emm)
    BY <1>11, <1>17
  <2>2. \A k \in 1 .. Len(s) : s[k] \in DOMAIN t0.pid /\ t0.pid[s[k]].type = "UNKNOWN"
    BY <1>5, <1>7, <1>12
  <2> QED BY <1>2, <1>3, <1>7, <1>14, <1>18, <2>1, <2>2 DEF TSListFor
<1>21. PICK r1, u : r1 = CopyPIDList(t0, i, INDEX_INVALID_VALUE, s, found, e.emm) /\ u = r1.t
  OBVIOUS
<1>22. ListCopied(t0, r1, P, W, {}, OW, {}, n, s)
  <2>1. State(t0, P, W, {}, OW \cup {n}, {}) /\ W[n] = << >>
    BY <1>13, <1>15, <1>16
  <2>2. i \in DOMAIN t0.ts /\ t0.ts[i].valid
    BY <1>11, <1>12
  <2>3. r1 = CopyPIDList(t0, i, INDEX_INVALID_VALUE, s, found, e.emm)
    BY <1>21
  <2> QED BY <1>14, <1>20, <2>1, <2>2, <2>3, TSListCopied
<1>23. /\ r1.err = "SUCCESS" /\ u.ts = t0.ts /\ u.prog = t0.prog /\ DOMAIN t0.pid \subseteq DOMAIN u.pid
       /\ \A y \in DOMAIN t0.pid : (\A x \in 1 .. Len(s) : s[x] # y) => u.pid[y] = t0.pid[y]
  <2>1. n[1] # "ESPID"
    BY <1>14
  <2> QED BY <1>21, <1>22, <2>1 DEF ListCopied
<1>24. PICK V1 : State(u, P, V1, {}, OW, Less({}, s, Len(s))) /\ \A y \in Names : y # n /\ y[1] # "ES_ECMPID" => V1[y] = W[y]
  BY <1>21, <1>22 DEF ListCopied
<1>25. Less({}, s, Len(s)) = {} /\ Less({}, v, Len(v)) = {}
  BY DEF Less
<1>26. State(u, P, V1, {}, {} \cup {m}, {}) /\ V1[m] = << >>
  <2>1. V1[m] = W[m]
    BY <1>14, <1>24
  <2> QED BY <1>13, <1>15, <1>24, <1>25, <2>1, Zenon
<1>27. HeadRec(u, m) = t0.ts[i].other
  BY <1>14, <1>23 DEF HeadRec
<1>28. TSListFor(u, HeadRec(u, m), e.other, found, m[1], v)
  <2>1. HeadIs(HeadRec(u, m), v, e.other)
    BY <1>11, <1>27
  <2>2. ASSUME NEW k \in 1 .. Len(v) PROVE v[k] \in DOMAIN u.pid /\ u.pid[v[k]].type = "UNKNOWN"
    <3>1. PICK y : y = v[k]
      OBVIOUS
    <3>2. y \in Elems(new) /\ \A x \in 1 .. Len(s) : s[x] # y
      BY <1>7, <3>1
    <3>3. y \in DOMAIN t0.pid /\ t0.pid[y].type = "UNKNOWN"
      BY <1>5, <1>12, <3>2
    <3>4. u.pid[y] = t0.pid[y]
      BY <1>23, <3>2, <3>3
    <3> QED BY <1>23, <3>1, <3>3, <3>4
  <2> QED BY <1>2, <1>3, <1>7, <1>14, <1>19, <2>1, <2>2 DEF TSListFor
<1>29. PICK r2 : r2 = CopyPIDList(u, i, INDEX_INVALID_VALUE, v, found, e.other)
  OBVIOUS
<1>30. ListCopied(u, r2, P, V1, {}, {}, {}, m, v)
  <2>1. i \in DOMAIN u.ts /\ u.ts[i].valid
    BY <1>11, <1>12, <1>23, Zenon
  <2> QED BY <1>14, <1>26, <1>28, <1>29, <2>1, TSListCopied
<1>31. r = r2
  <2>1. r1 = CopyPIDList(t0, i, INDEX_INVALID_VALUE, s, found, e.emm)
    BY <1>21
  <2>2. TSLists(t0, i, s, v, found, e) =
          IF r1.err = "SUCCESS" THEN CopyPIDList(r1.t, i, INDEX_INVALID_VALUE, v, found, e.other) ELSE r1
    BY <2>1, TSListsRaw
  <2> QED BY <1>9, <1>21, <1>23, <1>29, <2>2
<1>32. r2.err = "SUCCESS" /\ r2.t.ts = t0.ts /\ r2.t.prog = t.prog
  BY <1>12, <1>23, <1>30 DEF ListCopied
<1>st. PIDsStay(t, r2.t)
  <2>1. PIDsStay(t0, u)
    <3>1. \A x \in 1 .. Len(s) : t0.pid[s[x]].type = "UNKNOWN"
      BY <1>20 DEF TSListFor
    <3> QED BY <1>16, <1>21, <1>22, <3>1, ListStays
  <2>2. PIDsStay(u, r2.t)
    <3>1. \A x \in 1 .. Len(v) : u.pid[v[x]].type = "UNKNOWN"
      BY <1>28 DEF TSListFor
    <3> QED BY <1>26, <1>30, <3>1, ListStays
  <2>3. PIDsStay(t0, r2.t)
    BY <2>1, <2>2, PIDsStayOn
  <2> QED BY <1>12, <2>3 DEF PIDsStay
<1>33. \E X : State(r2.t, P, X, {}, {}, {})
  BY <1>25, <1>30, Zenon DEF ListCopied
<1> QED BY <1>11, <1>12, <1>31, <1>32, <1>st, <1>33, Zenon DEF StreamCopied

\* How CopyInputTS comes to its result.
EnteredTS(t, i, f) == [t EXCEPT !.ts[i] = f]
ProgsRoom(a, i, found, e) ==
    IF a.err = "SUCCESS" THEN CopyProgs(a.t, i, a.list, found, Follow(found.prog, e.prog.head, e.prog.num))
    ELSE Err(a.err, a.t)
PIDsRoom(a, i, found, e) ==
    IF a.err = "SUCCESS" THEN CopyTSPIDs(a.t, i, found, e, a.list) ELSE Err(a.err, a.t)

TSProgs(t, i, found, e) ==
    ProgsRoom(UnusedProgs(EnteredTS(t, i, [e EXCEPT !.valid = TRUE]), e.prog.num), i, found, e)
TSPIDs(b, i, found, e) ==
    IF b.err = "SUCCESS" THEN PIDsRoom(UnusedPIDs(b.t, e.emm.num + e.other.num), i, found, e) ELSE b

\* CopyInputTS in three parts: the entry, the programs, and the PIDs of the stream itself.
LEMMA CopyTSRaw ==
    ASSUME NEW t, NEW i, NEW found
    PROVE  CopyInputTS(t, i, found) = TSPIDs(TSProgs(t, i, found, found.ts[0]), i, found, found.ts[0])
BY Zenon DEF CopyInputTS, Then, Using, ProgsRoom, PIDsRoom, EnteredTS, TSProgs, TSPIDs

\* The entry f is e, in use.
TSEntry(e, f) ==
    f \in TSRec /\ f.valid /\ f.channel = e.channel /\ f.prog = e.prog /\ f.emm = e.emm /\ f.other = e.other

\* The entry of a stream as it is copied.
LEMMA TSEntryOf ==
    ASSUME NEW e \in TSRec
    PROVE  TSEntry(e, [e EXCEPT !.valid = TRUE])
BY Zenon DEF TSRec, TSEntry

\* The stream i of t gets the entry f.
TSEntered(t, u, i, f) == TSTouched(t, u, i) /\ u.ts[i] = f

\* It is entered at an unused index.
LEMMA TSEnteredIs ==
    ASSUME NEW t, Shape(t), NEW i \in DOMAIN t.ts, NEW f \in TSRec
    PROVE  TSEntered(t, EnteredTS(t, i, f), i, f)
BY EnterTS DEF EnteredTS, TSEntered

\* A stream that is not in use has no lists.
LEMMA NoTSLists ==
    ASSUME NEW t, NEW P, NEW W, NEW OP, NEW OW, NEW R, Layout(t, P, W, OP, OW, R), NEW i \in DOMAIN t.ts, ~t.ts[i].valid
    PROVE  i \in Nat /\ P[i] = << >> /\ W[<<"EMMPID", i>>] = << >> /\ W[<<"OTHERPID", i>>] = << >>
<1>1. i \in Nat
  <2>1. Shape(t)
    BY DEF Layout
  <2> QED BY <2>1, ShapeFacts
<1>2. Placed(t, P, W)
  BY DEF Layout
<1>3. P[i] = << >>
  BY <1>1, <1>2, Zenon DEF Placed
<1>4. ASSUME NEW n \in Names, n[1] \in TSType, n[2] = i PROVE W[n] = << >>
  <2>1. ~Owned(t, n)
    BY <1>4 DEF Owned, TSType
  <2> QED BY <1>2, <2>1 DEF Placed
<1>5. <<"EMMPID", i>> \in Names /\ <<"OTHERPID", i>> \in Names
  BY <1>1 DEF Names, Types
<1>6. W[<<"EMMPID", i>>] = << >>
  BY <1>4, <1>5 DEF TSType
<1>7. W[<<"OTHERPID", i>>] = << >>
  BY <1>4, <1>5 DEF TSType
<1> QED BY <1>1, <1>3, <1>6, <1>7

\* The stream i has the entry e of a scan, its programs and no PIDs.
TSProgsCopied(t, b, i, e) ==
    /\ b.err = "SUCCESS" /\ DOMAIN b.t.ts = DOMAIN t.ts /\ \A x \in DOMAIN t.ts : x # i => b.t.ts[x] = t.ts[x]
    /\ b.t.ts[i].valid /\ b.t.ts[i].channel = e.channel /\ b.t.ts[i].emm = e.emm /\ b.t.ts[i].other = e.other
    /\ PIDsStay(t, b.t) /\ ProgsStay(t, b.t)
    /\ \E Q, V : /\ State(b.t, Q, V, {}, OpenTS(i), {})
                 /\ V[<<"EMMPID", i>>] = << >> /\ V[<<"OTHERPID", i>>] = << >>

\* The programs are copied to unused entries.
LEMMA ProgsRoomDone ==
    ASSUME NEW t, NEW P, NEW W, State(t, P, W, {}, {}, {}), NEW i \in DOMAIN t.ts, ~t.ts[i].valid,
           NEW found, NEW ch, Copyable(found, ch), NEW e, e = found.ts[0], NEW f, TSEntry(e, f),
           NEW u, TSEntered(t, u, i, f), NEW b, b = ProgsRoom(UnusedProgs(u, e.prog.num), i, found, e)
    PROVE  TSProgsCopied(t, b, i, e)
<1>1. Shape(found) /\ Scan(found, ch) /\ TempECMs(found) /\ TempTS(found)
  BY DEF Copyable
<1>2. e \in TSRec
  BY <1>1, ShapeFacts DEF Scan
<1>3. /\ f \in TSRec /\ f.valid /\ f.channel = e.channel
      /\ f.prog = e.prog /\ f.emm = e.emm /\ f.other = e.other
  BY DEF TSEntry
<1>4. Layout(t, P, W, {}, {}, {}) /\ Shape(t)
  BY DEF State, Layout
<1>5. i \in Nat /\ P[i] = << >> /\ W[<<"EMMPID", i>>] = << >> /\ W[<<"OTHERPID", i>>] = << >>
  BY <1>4, NoTSLists
<1>6. TSTouched(t, u, i) /\ u.ts[i] = f
  BY DEF TSEntered
<1>7. PICK NP, NW : NP = {i} /\ NW = OpenTS(i)
  BY Zenon
<1>8. State(u, P, W, NP, NW, {})
  <2>1. u.ts[i].valid /\ {} \subseteq NP /\ {} \subseteq NW /\ OpenTS(i) \subseteq NW /\ i \in NP
    BY <1>3, <1>6, <1>7
  <2> QED BY <1>6, <2>1, TouchTS
<1>9. PICK src : TempProgs(found, e.prog, src)
  BY DEF Copyable
<1>10. src \in Seq(Nat) /\ Len(src) = e.prog.num /\ Follow(found.prog, e.prog.head, e.prog.num) = src
       /\ Len(src) < MAX_INDEX_LIST_NUMBER /\ \A k \in 1 .. Len(src) : TempProg(found, src[k])
  BY <1>9 DEF TempProgs
<1>11. PICK n \in Nat : n = e.prog.num
  BY <1>2 DEF TSRec, ListRec
<1>12. MAX_INDEX_LIST_NUMBER \in Nat
  BY TableAssumption
<1>13. PICK a : a = UnusedProgs(u, n)
  OBVIOUS
<1>14. GrowsProgs(u, a, n)
  <2>1. n <= MAX_INDEX_LIST_NUMBER
    BY <1>10, <1>11, <1>12
  <2>2. Shape(u)
    BY <1>6 DEF TSTouched
  <2> QED BY <1>13, <2>1, <2>2, NewProgs
<1>15. PICK v, s : v = a.t /\ s = a.list
  OBVIOUS
<1>16. a.err = "SUCCESS" /\ Grows(u, v) /\ v.pid = u.pid /\ Fresh(v.prog, s, n)
  BY <1>14, <1>15 DEF GrowsProgs
<1>17. v.ts = u.ts /\ s \in Seq(Nat) /\ Len(s) = n /\ Distinct(s)
       /\ \A k \in 1 .. n : s[k] \in DOMAIN v.prog /\ ~v.prog[s[k]].valid
  BY <1>16 DEF Grows, Fresh, Distinct
<1>18. State(v, P, W, NP, NW, {})
  <2>1. Layout(u, P, W, NP, NW, {}) /\ Reserved(u, {}) /\ Unowned(u)
    BY <1>8 DEF State
  <2>2. Layout(v, P, W, NP, NW, {})
    BY <1>16, <2>1, MoreProgs
  <2>3. Reserved(v, {}) /\ Unowned(v)
    BY <1>16, <2>1 DEF Reserved, Unowned
  <2> QED BY <2>2, <2>3 DEF State
<1>19. v.ts[i].valid /\ i \in DOMAIN v.ts /\ v.ts[i].prog.num = Len(s)
  <2>1. u.ts[i] = f /\ i \in DOMAIN u.ts
    BY <1>6 DEF TSTouched
  <2>2. v.ts[i] = f /\ i \in DOMAIN v.ts
    BY <1>17, <2>1
  <2> QED BY <1>3, <1>11, <1>17, <2>2
<1>20. ProgsFor(v, i, s, found, src)
  <2>1. Len(s) < MAX_INDEX_LIST_NUMBER /\ Len(src) = Len(s)
    BY <1>10, <1>11, <1>17
  <2>2. \A k \in 1 .. Len(s) : TempProg(found, src[k])
    BY <1>10, <2>1
  <2> QED BY <1>1, <1>17, <1>19, <2>1, <2>2 DEF ProgsFor
<1>21. b = CopyProgs(v, i, s, found, src)
  BY <1>10, <1>11, <1>13, <1>15, <1>16, Zenon DEF ProgsRoom
<1>22. ProgsCopied(v, b, W, i, NW, s)
  <2>1. State(v, P, W, {i}, NW, {}) /\ OpenTS(i) \subseteq NW
    BY <1>7, <1>18
  <2>2. \A k \in 1 .. Len(s) : ~v.prog[s[k]].valid
    BY <1>17
  <2> QED BY <1>5, <1>19, <1>20, <1>21, <2>1, <2>2, CopyProgsDone
<1>23. /\ b.err = "SUCCESS" /\ DOMAIN b.t.ts = DOMAIN v.ts /\ \A x \in DOMAIN v.ts : x # i => b.t.ts[x] = v.ts[x]
       /\ b.t.ts[i].valid /\ b.t.ts[i].channel = v.ts[i].channel
       /\ b.t.ts[i].emm = v.ts[i].emm /\ b.t.ts[i].other = v.ts[i].other
  BY <1>22, Zenon DEF ProgsCopied
<1>24. PICK Q, V : State(b.t, Q, V, {}, NW, {}) /\ \A m \in Names : m[1] \in TSType => V[m] = W[m]
  BY <1>22, Zenon DEF ProgsCopied
<1>25. V[<<"EMMPID", i>>] = << >> /\ V[<<"OTHERPID", i>>] = << >>
  <2>1. <<"EMMPID", i>> \in Names /\ <<"OTHERPID", i>> \in Names
    BY <1>5 DEF Names, Types
  <2>2. V[<<"EMMPID", i>>] = W[<<"EMMPID", i>>]
    BY <1>24, <2>1 DEF TSType
  <2>3. V[<<"OTHERPID", i>>] = W[<<"OTHERPID", i>>]
    BY <1>24, <2>1 DEF TSType
  <2> QED BY <1>5, <2>2, <2>3
<1>26. \E X, Y : /\ State(b.t, X, Y, {}, OpenTS(i), {})
                 /\ Y[<<"EMMPID", i>>] = << >> /\ Y[<<"OTHERPID", i>>] = << >>
  BY <1>7, <1>24, <1>25
<1>27. DOMAIN v.ts = DOMAIN t.ts /\ v.ts[i] = f /\ \A x \in DOMAIN t.ts : x # i => v.ts[x] = t.ts[x]
  BY <1>6, <1>17 DEF TSTouched
<1>28. DOMAIN b.t.ts = DOMAIN t.ts /\ \A x \in DOMAIN t.ts : x # i => b.t.ts[x] = t.ts[x]
  BY <1>23, <1>27, Zenon
<1>29. b.t.ts[i].channel = e.channel /\ b.t.ts[i].emm = e.emm /\ b.t.ts[i].other = e.other
  BY <1>3, <1>23, <1>27, Zenon
<1>30. PIDsStay(t, b.t) /\ ProgsStay(t, b.t)
  <2>1. PIDsStay(v, b.t) /\ ProgsStay(v, b.t)
    BY <1>22, Zenon DEF ProgsCopied
  <2>2. v.pid = t.pid
    BY <1>6, <1>16 DEF TSTouched
  <2>3. \A p \in DOMAIN t.prog : p \in DOMAIN v.prog /\ v.prog[p] = t.prog[p]
    BY <1>6, <1>16 DEF TSTouched, Grows
  <2> QED BY <2>1, <2>2, <2>3 DEF PIDsStay, ProgsStay
<1> QED BY <1>23, <1>26, <1>28, <1>29, <1>30, Zenon DEF TSProgsCopied

\* The stream i is there, of channel ch.
TSCopied(t, r, i, ch) ==
    /\ r.err = "SUCCESS" /\ DOMAIN r.t.ts = DOMAIN t.ts /\ \A x \in DOMAIN t.ts : x # i => r.t.ts[x] = t.ts[x]
    /\ r.t.ts[i].valid /\ r.t.ts[i].channel = ch /\ PIDsStay(t, r.t) /\ ProgsStay(t, r.t)
    /\ \E P, W : State(r.t, P, W, {}, {}, {})

\* CopyInputTS of what a scan has found succeeds: one more stream with all its lists, in tables as sound as before.
LEMMA CopyInputTSDone ==
    ASSUME NEW t, NEW P, NEW W, State(t, P, W, {}, {}, {}), NEW i \in DOMAIN t.ts, ~t.ts[i].valid,
           NEW found, NEW ch, Copyable(found, ch), NEW r, r = CopyInputTS(t, i, found)
    PROVE  TSCopied(t, r, i, ch)
<1>1. Shape(found) /\ Scan(found, ch) /\ TempECMs(found) /\ TempTS(found)
  BY DEF Copyable
<1>2. PICK e : e = found.ts[0]
  OBVIOUS
<1>3. e \in TSRec /\ 0 \in DOMAIN found.ts /\ e.channel = ch
  BY <1>1, <1>2, ShapeFacts DEF Scan
<1>4. PICK f : f = [e EXCEPT !.valid = TRUE]
  BY Zenon
<1>5. PICK u : u = EnteredTS(t, i, f)
  OBVIOUS
<1>6. PICK b : b = ProgsRoom(UnusedProgs(u, e.prog.num), i, found, e)
  OBVIOUS
<1>7. TSProgsCopied(t, b, i, e)
  <2>1. Layout(t, P, W, {}, {}, {}) /\ Shape(t)
    BY DEF State, Layout
  <2>2. TSEntry(e, f)
    <3>1. TSEntry(e, [e EXCEPT !.valid = TRUE])
      BY <1>3, TSEntryOf
    <3> QED BY <1>4, <3>1, Zenon
  <2>3. TSEntered(t, u, i, f)
    <3>1. f \in TSRec
      BY <2>2 DEF TSEntry
    <3>2. TSEntered(t, EnteredTS(t, i, f), i, f)
      BY <2>1, <3>1, TSEnteredIs
    <3> QED BY <1>5, <3>2, Zenon
  <2> QED BY <1>2, <1>6, <2>2, <2>3, ProgsRoomDone
<1>8. /\ b.err = "SUCCESS" /\ DOMAIN b.t.ts = DOMAIN t.ts /\ \A x \in DOMAIN t.ts : x # i => b.t.ts[x] = t.ts[x]
      /\ b.t.ts[i].valid /\ b.t.ts[i].channel = e.channel /\ b.t.ts[i].emm = e.emm /\ b.t.ts[i].other = e.other
  BY <1>7 DEF TSProgsCopied
<1>9. PICK Q, V : /\ State(b.t, Q, V, {}, OpenTS(i), {})
                  /\ V[<<"EMMPID", i>>] = << >> /\ V[<<"OTHERPID", i>>] = << >>
  BY <1>7 DEF TSProgsCopied
<1>10. PICK w : w = b.t
  OBVIOUS
<1>11. PICK n : n = e.emm.num + e.other.num
  OBVIOUS
<1>12. n \in Nat /\ n <= MAX_INDEX_LIST_NUMBER
  BY <1>1, <1>2, <1>3, <1>11 DEF TSRec, ListRec, TempTS
<1>13. r = PIDsRoom(UnusedPIDs(w, n), i, found, e)
  <2>1. b = TSProgs(t, i, found, found.ts[0])
    BY <1>2, <1>4, <1>5, <1>6, Zenon DEF TSProgs
  <2>2. r = TSPIDs(TSProgs(t, i, found, found.ts[0]), i, found, found.ts[0])
    BY CopyTSRaw, Zenon
  <2>3. r = TSPIDs(b, i, found, e)
    BY <1>2, <2>1, <2>2, Zenon
  <2> QED BY <1>8, <1>10, <1>11, <2>3, Zenon DEF TSPIDs
<1>14. PICK a : a = UnusedPIDs(w, n)
  OBVIOUS
<1>15. GrowsPIDs(w, a, n)
  <2>1. Shape(w)
    BY <1>9, <1>10 DEF State, Layout
  <2> QED BY <1>12, <1>14, <2>1, NewPIDs
<1>16. PICK v, new : v = a.t /\ new = a.list
  OBVIOUS
<1>17. a.err = "SUCCESS" /\ Grows(w, v) /\ v.prog = w.prog /\ Fresh(v.pid, new, n)
  BY <1>15, <1>16 DEF GrowsPIDs
<1>18. State(v, Q, V, {}, OpenTS(i), {})
  <2>1. State(w, Q, V, {}, OpenTS(i), {})
    BY <1>9, <1>10
  <2> QED BY <1>17, <2>1, GrowState
<1>19. v.ts = w.ts
  BY <1>17 DEF Grows
<1>20. r = CopyTSPIDs(v, i, found, e, new)
  BY <1>13, <1>14, <1>16, <1>17, Zenon DEF PIDsRoom
<1>21. StreamCopied(v, r, i)
  <2>1. i \in DOMAIN v.ts /\ v.ts[i].valid /\ v.ts[i].emm = e.emm /\ v.ts[i].other = e.other
    BY <1>8, <1>10, <1>19
  <2>2. Fresh(v.pid, new, e.emm.num + e.other.num)
    BY <1>11, <1>17
  <2> QED BY <1>1, <1>2, <1>3, <1>9, <1>18, <1>20, <2>1, <2>2, CopyTSPIDsDone, Zenon
<1>22. /\ r.err = "SUCCESS" /\ DOMAIN r.t.ts = DOMAIN v.ts /\ \A x \in DOMAIN v.ts : x # i => r.t.ts[x] = v.ts[x]
       /\ r.t.ts[i].valid /\ r.t.ts[i].channel = v.ts[i].channel
       /\ \E X, Y : State(r.t, X, Y, {}, {}, {})
  BY <1>21 DEF StreamCopied
<1>23. DOMAIN v.ts = DOMAIN t.ts /\ v.ts[i].channel = ch /\ \A x \in DOMAIN t.ts : x # i => v.ts[x] = t.ts[x]
  BY <1>3, <1>8, <1>10, <1>19
<1>24. PIDsStay(t, r.t) /\ ProgsStay(t, r.t)
  <2>1. PIDsStay(t, w) /\ ProgsStay(t, w)
    BY <1>7, <1>10 DEF TSProgsCopied
  <2>2. PIDsStay(w, v)
    BY <1>17 DEF PIDsStay, Grows
  <2>3. PIDsStay(v, r.t) /\ r.t.prog = w.prog
    BY <1>17, <1>21 DEF StreamCopied
  <2>4. ProgsStay(t, r.t)
    BY <2>1, <2>3 DEF ProgsStay
  <2> QED BY <2>1, <2>2, <2>3, <2>4, PIDsStayOn
<1> QED BY <1>22, <1>23, <1>24 DEF TSCopied

-----------------------------------------------------------------------------
(* What a layout says of the lists.                                        *)

\* TSP_GetIn...IndexList finds a list that is linked to its end.
LEMMA StrungFound ==
    ASSUME NEW t, Fits(t), NEW n \in Names, Owned(t, n), NEW s \in Seq(Nat), Len(s) < MAX_INDEX_LIST_NUMBER,
           \A k \in 1 .. Len(s) : s[k] \in DOMAIN t.pid, Strung(t, n, s)
    PROVE  ListNamed(t, n) = Found(s)
<1>1. Strung(t, n, s)
  OBVIOUS
<1>2. s \in Seq(Nat) /\ Len(s) < MAX_INDEX_LIST_NUMBER /\ \A k \in 1 .. Len(s) : s[k] \in DOMAIN t.pid
  OBVIOUS
<1>3. n[1] \in Types \ {"UNKNOWN"}
  BY NameFacts
<1>4. CASE n[1] = "PCRPID"
  <2>1. n[1] = "PCRPID"
    BY <1>4
  <2>2. HeadRec(t, n).head = t.prog[n[2]].pcr
    BY <2>1 DEF HeadRec
  <2>3. ListNamed(t, n) = Found(IF t.prog[n[2]].pcr \in DOMAIN t.pid THEN <<t.prog[n[2]].pcr>> ELSE << >>)
    BY <2>1 DEF ListNamed
  <2>4. (s = << >> /\ t.prog[n[2]].pcr = INDEX_INVALID_VALUE) \/ s = <<t.prog[n[2]].pcr>>
    BY <1>1, <2>1, <2>2 DEF Strung
  <2>5. CASE s = << >> /\ t.prog[n[2]].pcr = INDEX_INVALID_VALUE
    BY <2>3, <2>5 DEF Fits
  <2>6. CASE s = <<t.prog[n[2]].pcr>>
    <3>1. Len(s) = 1 /\ s[1] = t.prog[n[2]].pcr
      BY <2>6
    <3>2. t.prog[n[2]].pcr \in DOMAIN t.pid
      BY <1>2, <3>1
    <3> QED BY <2>3, <2>6, <3>2
  <2> QED BY <2>4, <2>5, <2>6
<1>5. CASE n[1] # "PCRPID"
  <2>1. Chain(t.pid, HeadRec(t, n), s)
    BY <1>1, <1>5 DEF Strung
  <2>2. s \in Seq(DOMAIN t.pid)
    BY <1>2, SeqIn, Zenon
  <2>3. IndexList(t.pid, HeadRec(t, n)) = Found(s)
    BY <1>2, <2>1, <2>2, IndexListSucceeds DEF Fits
  <2>4. ListNamed(t, n) = IndexList(t.pid, HeadRec(t, n))
    <3>1. n[1] \in {"ESPID", "PS_ECMPID", "ES_ECMPID", "EMMPID", "OTHERPID"}
      BY <1>3, <1>5 DEF Types
    <3>2. CASE n[1] = "ESPID"
      BY <3>2 DEF ListNamed, HeadRec, InProgESPIDIndexList, Owned
    <3>3. CASE n[1] = "PS_ECMPID"
      BY <3>3 DEF ListNamed, HeadRec, InProgPSECMPIDIndexList, Owned
    <3>4. CASE n[1] = "ES_ECMPID"
      BY <3>4 DEF ListNamed, HeadRec, InPIDESECMPIDIndexList, Owned
    <3>5. CASE n[1] = "EMMPID"
      BY <3>5 DEF ListNamed, HeadRec, InTSEMMPIDIndexList, Owned
    <3>6. CASE n[1] = "OTHERPID"
      BY <3>6 DEF ListNamed, HeadRec, InTSOtherPIDIndexList, Owned
    <3> QED BY <3>1, <3>2, <3>3, <3>4, <3>5, <3>6
  <2> QED BY <2>3, <2>4
<1> QED BY <1>4, <1>5

\* It finds the list n.
LEMMA ListNamedIs ==
    ASSUME NEW t, NEW P, NEW W, Layout(t, P, W, {}, {}, {}), Fits(t), NEW n \in Names, Owned(t, n)
    PROVE  ListNamed(t, n) = Found(W[n])
<1>1. Strung(t, n, W[n])
  BY DEF Layout, Linked
<1>2. W[n] \in Seq(Nat) /\ Len(W[n]) < MAX_INDEX_LIST_NUMBER /\ \A k \in 1 .. Len(W[n]) : W[n][k] \in DOMAIN t.pid
  BY DEF Layout, Placed, Short
<1> QED BY <1>1, <1>2, StrungFound

\* What is found.
LEMMA FoundFacts ==
    ASSUME NEW s
    PROVE  Found(s).err = "SUCCESS" /\ Found(s).list = s /\ ListOf(Found(s)) = s
BY DEF Found, ListOf

\* What TSP_GetIn...IndexList finds is what the layout has.
LEMMA PIDsInIs ==
    ASSUME NEW t, NEW P, NEW W, Layout(t, P, W, {}, {}, {}), Fits(t), NEW n \in Names, Owned(t, n)
    PROVE  PIDsIn(t, n) = W[n]
BY ListNamedIs, FoundFacts DEF PIDsIn

\* It finds the programs of stream i.
LEMMA ProgsOfIs ==
    ASSUME NEW t, NEW P, NEW W, Layout(t, P, W, {}, {}, {}), Fits(t), NEW i \in ValidTS(t)
    PROVE  InTSProgIndexList(t, i) = Found(P[i]) /\ ProgsOf(t, i) = P[i] /\ P[i] \in Seq(Nat) /\ i \in Nat
<1>1. i \in DOMAIN t.ts /\ t.ts[i].valid
  BY DEF ValidTS
<1>2. i \in Nat
  <2>1. Shape(t)
    BY DEF Layout
  <2> QED BY <1>1, <2>1, ShapeFacts
<1>3. Chain(t.prog, t.ts[i].prog, P[i])
  BY <1>1 DEF Layout, Linked
<1>4. P[i] \in Seq(Nat) /\ Len(P[i]) < MAX_INDEX_LIST_NUMBER /\ \A k \in 1 .. Len(P[i]) : P[i][k] \in DOMAIN t.prog
  BY <1>2, Zenon DEF Layout, Placed, Short
<1>5. P[i] \in Seq(DOMAIN t.prog)
  BY <1>4, SeqIn, Zenon
<1>6. IndexList(t.prog, t.ts[i].prog) = Found(P[i])
  BY <1>3, <1>4, <1>5, IndexListSucceeds DEF Fits
<1>7. InTSProgIndexList(t, i) = Found(P[i])
  BY <1>1, <1>6 DEF InTSProgIndexList
<1> QED BY <1>2, <1>4, <1>7, FoundFacts DEF ProgsOf

\* The lists that Sound and OnlyPCRLost look at are those with an owner.
LEMMA PIDListsOwned ==
    ASSUME NEW t, NEW P, NEW W, Layout(t, P, W, {}, {}, {}), Fits(t), NEW n \in PIDLists(t)
    PROVE  n \in Names /\ Owned(t, n)
<1>1. PICK i \in ValidTS(t) : n \in ListsOfTS(t, i)
  BY DEF PIDLists
<1>2. ProgsOf(t, i) = P[i] /\ P[i] \in Seq(Nat) /\ i \in Nat
  BY ProgsOfIs
<1>3. Placed(t, P, W) /\ Back(t, P, W)
  BY DEF Layout
<1>4. CASE n \in {"EMMPID", "OTHERPID"} \X {i}
  <2>1. n \in Names
    BY <1>2, <1>4 DEF Names, Types
  <2>2. n[1] \in {"EMMPID", "OTHERPID"} /\ n[2] = i
    BY <1>4
  <2>3. i \in DOMAIN t.ts /\ t.ts[i].valid
    BY DEF ValidTS
  <2> QED BY <2>1, <2>2, <2>3 DEF Owned
<1>5. ASSUME NEW p \in ToSet(P[i]), n \in ListsOfProg(t, p) PROVE n \in Names /\ Owned(t, n)
  <2>1. PICK k \in 1 .. Len(P[i]) : p = P[i][k]
    BY <1>2, <1>5 DEF ToSet
  <2>2. p \in Nat /\ p \in DOMAIN t.prog /\ t.prog[p].valid
    <3>1. p \in DOMAIN t.prog
      BY <1>2, <1>3, <2>1 DEF Placed
    <3>2. t.prog[p].valid
      BY <1>2, <1>3, <2>1 DEF Back
    <3>3. Shape(t)
      BY DEF Layout
    <3> QED BY <3>1, <3>2, <3>3, ShapeFacts
  <2>3. CASE n \in {"PCRPID", "ESPID", "PS_ECMPID"} \X {p}
    <3>1. n \in Names
      BY <2>2, <2>3 DEF Names, Types
    <3>2. n[1] \in {"PCRPID", "ESPID", "PS_ECMPID"} /\ n[2] = p
      BY <2>3
    <3> QED BY <2>2, <3>1, <3>2 DEF Owned
  <2>4. CASE n \in {"ES_ECMPID"} \X ToSet(PIDsIn(t, <<"ESPID", p>>))
    <3>1. PICK m : m = <<"ESPID", p>>
      BY Zenon
    <3>2. m \in Names /\ m[1] = "ESPID" /\ m[2] = p
      BY <2>2, <3>1 DEF Names, Types
    <3>3. Owned(t, m)
      BY <2>2, <3>2 DEF Owned
    <3>4. PIDsIn(t, m) = W[m]
      BY <3>2, <3>3, PIDsInIs
    <3>5. n[1] = "ES_ECMPID" /\ n[2] \in ToSet(W[m]) /\ n = <<n[1], n[2]>>
      BY <2>4, <3>1, <3>4
    <3>6. W[m] \in Seq(Nat)
      BY <1>3, <3>2 DEF Placed
    <3>7. PICK x \in 1 .. Len(W[m]) : n[2] = W[m][x]
      BY <3>5, <3>6 DEF ToSet
    <3>8. n[2] \in Nat /\ n[2] \in DOMAIN t.pid /\ t.pid[n[2]].type = "ESPID"
    <4>1. n[2] \in DOMAIN t.pid
        BY <1>3, <3>2, <3>7 DEF Placed
      <4>2. t.pid[n[2]].type = "ESPID"
        BY <1>3, <3>2, <3>7 DEF Back
      <4>3. Shape(t)
        BY DEF Layout
      <4> QED BY <4>1, <4>2, <4>3, ShapeFacts
    <3>9. n \in Names
      BY <3>5, <3>8 DEF Names, Types
    <3> QED BY <3>5, <3>8, <3>9 DEF Owned
  <2> QED BY <1>5, <2>3, <2>4 DEF ListsOfProg
<1> QED BY <1>1, <1>2, <1>4, <1>5 DEF ListsOfTS

\* ... all of them.
LEMMA OwnedPIDLists ==
    ASSUME NEW t, NEW P, NEW W, Layout(t, P, W, {}, {}, {}), Fits(t), NEW n \in Names, Owned(t, n)
    PROVE  n \in PIDLists(t)
<1>1. n = <<n[1], n[2]>> /\ n[1] \in Types \ {"UNKNOWN"}
  BY NameFacts
<1>2. Placed(t, P, W) /\ Back(t, P, W) /\ Covered(t, P, W)
  BY DEF Layout
<1>3. ASSUME NEW p \in DOMAIN t.prog, t.prog[p].valid, NEW l \in ListsOfProg(t, p) PROVE l \in PIDLists(t)
  <2>1. PICK i \in Nat : \E k \in 1 .. Len(P[i]) : P[i][k] = p
    BY <1>2, <1>3 DEF Covered
  <2>2. PICK k \in 1 .. Len(P[i]) : P[i][k] = p
    BY <2>1
  <2>3. P[i] # << >> /\ P[i] \in Seq(Nat)
    BY <1>2, <2>1 DEF Placed
  <2>4. i \in ValidTS(t)
    BY <1>2, <2>3, Zenon DEF Placed, ValidTS
  <2>5. p \in ToSet(ProgsOf(t, i))
    BY <2>2, <2>3, <2>4, ProgsOfIs DEF ToSet
  <2> QED BY <1>3, <2>4, <2>5 DEF PIDLists, ListsOfTS
<1>4. CASE n[1] \in {"EMMPID", "OTHERPID"}
  <2>1. n[2] \in ValidTS(t)
    BY <1>4 DEF Owned, ValidTS
  <2>2. n \in {"EMMPID", "OTHERPID"} \X {n[2]}
    BY <1>1, <1>4
  <2> QED BY <2>1, <2>2 DEF PIDLists, ListsOfTS
<1>5. CASE n[1] \in {"PCRPID", "ESPID", "PS_ECMPID"}
  <2>1. n[2] \in DOMAIN t.prog /\ t.prog[n[2]].valid
    BY <1>5 DEF Owned
  <2>2. n \in {"PCRPID", "ESPID", "PS_ECMPID"} \X {n[2]}
    BY <1>1, <1>5
  <2>3. n \in ListsOfProg(t, n[2])
    BY <2>2 DEF ListsOfProg
  <2> QED BY <1>3, <2>1, <2>3
<1>6. CASE n[1] = "ES_ECMPID"
  <2>1. PICK j : j = n[2]
    OBVIOUS
  <2>2. j \in DOMAIN t.pid /\ t.pid[j].type = "ESPID"
    BY <1>6, <2>1 DEF Owned
  <2>3. PICK m \in Names : \E k \in 1 .. Len(W[m]) : W[m][k] = j
    BY <1>2, <2>2 DEF Covered
  <2>4. PICK k \in 1 .. Len(W[m]) : W[m][k] = j
    BY <2>3
  <2>5. m[1] = "ESPID"
    BY <1>2, <2>2, <2>4 DEF Back
  <2>6. W[m] \in Seq(Nat) /\ W[m] # << >>
    BY <1>2, <2>4 DEF Placed
  <2>7. Owned(t, m)
    BY <1>2, <2>6 DEF Placed
  <2>8. m[2] \in DOMAIN t.prog /\ t.prog[m[2]].valid
    BY <2>5, <2>7 DEF Owned
  <2>9. PIDsIn(t, m) = W[m] /\ m = <<"ESPID", m[2]>>
    BY <2>5, <2>7, PIDsInIs, NameFacts
  <2>10. j \in ToSet(PIDsIn(t, <<"ESPID", m[2]>>))
    <3>1. j \in ToSet(W[m])
      BY <2>4, <2>6 DEF ToSet
    <3> QED BY <2>9, <3>1
  <2>11. n \in {"ES_ECMPID"} \X ToSet(PIDsIn(t, <<"ESPID", m[2]>>))
    BY <1>1, <1>6, <2>1, <2>10
  <2>12. n \in ListsOfProg(t, m[2])
    BY <2>11 DEF ListsOfProg
  <2> QED BY <1>3, <2>8, <2>12
<1> QED BY <1>1, <1>4, <1>5, <1>6 DEF Types

ProgEntries(t) == Entries(ValidTS(t), LAMBDA i : ProgsOf(t, i))
PIDEntries(t) == Entries(PIDLists(t), LAMBDA l : PIDsIn(t, l))

\* A program at a place.
LEMMA ProgEntry3 ==
    ASSUME NEW t, NEW e \in ProgEntries(t)
    PROVE  \E i \in ValidTS(t) : \E k \in DOMAIN ProgsOf(t, i) : e = <<i, k, ProgsOf(t, i)[k]>>
BY Zenon DEF ProgEntries, Entries

\* A PID at a place.
LEMMA PIDEntry3 ==
    ASSUME NEW t, NEW e \in PIDEntries(t)
    PROVE  \E l \in PIDLists(t) : \E k \in DOMAIN PIDsIn(t, l) : e = <<l, k, PIDsIn(t, l)[k]>>
BY Zenon DEF PIDEntries, Entries

\* No program is at two places.
LEMMA ProgsNotTwice ==
    ASSUME NEW t, NEW P, NEW W, Layout(t, P, W, {}, {}, {}), Fits(t)
    PROVE  NoneTwice(ProgEntries(t))
<1>1. Once(Nat, P)
  BY DEF Layout
<1>2. SUFFICES ASSUME NEW a \in ProgEntries(t), NEW b \in ProgEntries(t), a[3] = b[3] PROVE a = b
  BY DEF NoneTwice
<1>a. PICK i \in ValidTS(t) : \E k \in DOMAIN ProgsOf(t, i) : a = <<i, k, ProgsOf(t, i)[k]>>
  BY ProgEntry3
<1>3. PICK k \in DOMAIN ProgsOf(t, i) : a = <<i, k, ProgsOf(t, i)[k]>>
  BY <1>a
<1>b. PICK j \in ValidTS(t) : \E m \in DOMAIN ProgsOf(t, j) : b = <<j, m, ProgsOf(t, j)[m]>>
  BY ProgEntry3
<1>4. PICK m \in DOMAIN ProgsOf(t, j) : b = <<j, m, ProgsOf(t, j)[m]>>
  BY <1>b
<1>5. ProgsOf(t, i) = P[i] /\ P[i] \in Seq(Nat) /\ i \in Nat
  BY ProgsOfIs
<1>6. ProgsOf(t, j) = P[j] /\ P[j] \in Seq(Nat) /\ j \in Nat
  BY ProgsOfIs
<1>7. k \in 1 .. Len(P[i]) /\ m \in 1 .. Len(P[j])
  BY <1>3, <1>4, <1>5, <1>6, SMTT(30)
<1>8. P[i][k] = P[j][m]
  BY <1>2, <1>3, <1>4, <1>5, <1>6
<1>9. i = j /\ k = m
  <2>1. PICK N : N = Nat
    BY Zenon
  <2>2. Once(N, P) /\ i \in N /\ j \in N
    BY <1>1, <1>5, <1>6, <2>1
  <2> QED BY <1>7, <1>8, <2>2, OnceUse
<1> QED BY <1>3, <1>4, <1>9

\* No PID is at two places.
LEMMA PIDsNotTwice ==
    ASSUME NEW t, NEW P, NEW W, Layout(t, P, W, {}, {}, {}), Fits(t)
    PROVE  NoneTwice(PIDEntries(t))
<1>1. Once(Names, W) /\ Placed(t, P, W)
  BY DEF Layout
<1>2. SUFFICES ASSUME NEW a \in PIDEntries(t), NEW b \in PIDEntries(t), a[3] = b[3] PROVE a = b
  BY DEF NoneTwice
<1>a. PICK i \in PIDLists(t) : \E k \in DOMAIN PIDsIn(t, i) : a = <<i, k, PIDsIn(t, i)[k]>>
  BY PIDEntry3
<1>3. PICK k \in DOMAIN PIDsIn(t, i) : a = <<i, k, PIDsIn(t, i)[k]>>
  BY <1>a
<1>b. PICK j \in PIDLists(t) : \E m \in DOMAIN PIDsIn(t, j) : b = <<j, m, PIDsIn(t, j)[m]>>
  BY PIDEntry3
<1>4. PICK m \in DOMAIN PIDsIn(t, j) : b = <<j, m, PIDsIn(t, j)[m]>>
  BY <1>b
<1>5. PIDsIn(t, i) = W[i] /\ W[i] \in Seq(Nat) /\ i \in Names
  BY <1>1, PIDListsOwned, PIDsInIs DEF Placed
<1>6. PIDsIn(t, j) = W[j] /\ W[j] \in Seq(Nat) /\ j \in Names
  BY <1>1, PIDListsOwned, PIDsInIs DEF Placed
<1>7. k \in 1 .. Len(W[i]) /\ m \in 1 .. Len(W[j])
  BY <1>3, <1>4, <1>5, <1>6
<1>8. W[i][k] = W[j][m]
  BY <1>2, <1>3, <1>4, <1>5, <1>6
<1>9. i = j /\ k = m
  BY <1>1, <1>5, <1>6, <1>7, <1>8, OnceUse
<1> QED BY <1>3, <1>4, <1>9

\* No two streams of a channel.
OneEach(t) == \A i, j \in ValidTS(t) : t.ts[i].channel = t.ts[j].channel => i = j

\* Tables that have a layout are sound.
LEMMA LayoutSound ==
    ASSUME NEW t, NEW P, NEW W, Layout(t, P, W, {}, {}, {}), Fits(t), OneEach(t)
    PROVE  Sound(t)
<1>1. Placed(t, P, W) /\ Back(t, P, W) /\ Known(t, {})
  BY DEF Layout
<1>2. ASSUME NEW i \in ValidTS(t)
      PROVE  /\ InTSProgIndexList(t, i).err = "SUCCESS"
             /\ \A p \in ToSet(ProgsOf(t, i)) : t.prog[p].valid /\ t.prog[p].ts = i
  <2>1. InTSProgIndexList(t, i) = Found(P[i]) /\ ProgsOf(t, i) = P[i] /\ P[i] \in Seq(Nat) /\ i \in Nat
    BY ProgsOfIs
  <2>2. ASSUME NEW p \in ToSet(P[i]) PROVE t.prog[p].valid /\ t.prog[p].ts = i
    <3>1. PICK k \in 1 .. Len(P[i]) : p = P[i][k]
      BY <2>1, <2>2 DEF ToSet
    <3> QED BY <1>1, <2>1, <3>1 DEF Back
  <2> QED BY <2>1, <2>2, FoundFacts
<1>3. ASSUME NEW l \in PIDLists(t)
      PROVE  LET r == ListNamed(t, l) IN
             /\ r.err = "SUCCESS"
             /\ \A j \in ToSet(r.list) : t.pid[j].valid /\ t.pid[j].type = l[1] /\ PointsBack(t, l, j)
  <2>1. l \in Names /\ Owned(t, l)
    BY PIDListsOwned
  <2>2. ListNamed(t, l).err = "SUCCESS" /\ ListNamed(t, l).list = W[l]
    BY <2>1, ListNamedIs, FoundFacts
  <2>3. W[l] \in Seq(Nat) /\ l[1] \in Types \ {"UNKNOWN"}
    BY <1>1, <2>1, NameFacts DEF Placed
  <2>4. ASSUME NEW j \in ToSet(W[l]) PROVE t.pid[j].valid /\ t.pid[j].type = l[1] /\ PointsBack(t, l, j)
    <3>1. PICK k \in 1 .. Len(W[l]) : j = W[l][k]
      BY <2>3, <2>4 DEF ToSet
    <3>2. t.pid[j].type = l[1] /\ PointsBack(t, l, j)
      BY <1>1, <2>1, <3>1 DEF Back
    <3>3. j \in DOMAIN t.pid
      BY <1>1, <2>1, <3>1 DEF Placed
    <3>4. t.pid[j].valid
      BY <1>1, <2>3, <3>2, <3>3 DEF Known
    <3> QED BY <3>2, <3>4
  <2> QED BY <2>2, <2>4
<1>4. NoneTwice(Entries(ValidTS(t), LAMBDA i : ProgsOf(t, i)))
  <2>1. NoneTwice(ProgEntries(t))
    BY ProgsNotTwice
  <2> QED BY <2>1, Zenon DEF ProgEntries
<1>5. NoneTwice(Entries(PIDLists(t), LAMBDA l : PIDsIn(t, l)))
  <2>1. NoneTwice(PIDEntries(t))
    BY PIDsNotTwice
  <2> QED BY <2>1, Zenon DEF PIDEntries
<1>6. \A i, j \in ValidTS(t) : t.ts[i].channel = t.ts[j].channel => i = j
  BY DEF OneEach
<1> QED BY <1>2, <1>3, <1>4, <1>5, <1>6, Zenon DEF Sound

\* Nothing is lost but PCRs.
LEMMA LayoutLost ==
    ASSUME NEW t, NEW P, NEW W, Layout(t, P, W, {}, {}, {}), Fits(t)
    PROVE  /\ \A j \in Lost(t) : t.pid[j].type = "PCRPID"
           /\ {p \in DOMAIN t.prog : t.prog[p].valid} = UNION {ToSet(ProgsOf(t, i)) : i \in ValidTS(t)}
<1>1. Placed(t, P, W) /\ Back(t, P, W) /\ Known(t, {}) /\ Covered(t, P, W)
  BY DEF Layout
<1>2. ASSUME NEW j \in Lost(t) PROVE t.pid[j].type = "PCRPID"
  <2>1. j \in DOMAIN t.pid /\ t.pid[j].valid /\ j \notin UNION {ToSet(PIDsIn(t, l)) : l \in PIDLists(t)}
    BY <1>2 DEF Lost
  <2>2. t.pid[j].type # "UNKNOWN"
    BY <1>1, <2>1 DEF Known
  <2>3. SUFFICES ASSUME t.pid[j].type # "PCRPID" PROVE FALSE
    OBVIOUS
  <2>4. PICK n \in Names : \E k \in 1 .. Len(W[n]) : W[n][k] = j
    BY <1>1, <2>1, <2>2, <2>3 DEF Covered
  <2>5. PICK k \in 1 .. Len(W[n]) : W[n][k] = j
    BY <2>4
  <2>6. W[n] \in Seq(Nat) /\ W[n] # << >>
    BY <1>1, <2>5 DEF Placed
  <2>7. Owned(t, n)
    BY <1>1, <2>6 DEF Placed
  <2>8. n \in PIDLists(t) /\ PIDsIn(t, n) = W[n]
    BY <2>7, OwnedPIDLists, PIDsInIs
  <2>9. j \in ToSet(W[n])
    BY <2>5, <2>6 DEF ToSet
  <2> QED BY <2>1, <2>8, <2>9
<1>3. ASSUME NEW p \in DOMAIN t.prog, t.prog[p].valid PROVE \E i \in ValidTS(t) : p \in ToSet(ProgsOf(t, i))
  <2>1. PICK i \in Nat : \E k \in 1 .. Len(P[i]) : P[i][k] = p
    BY <1>1, <1>3 DEF Covered
  <2>2. PICK k \in 1 .. Len(P[i]) : P[i][k] = p
    BY <2>1
  <2>3. P[i] # << >> /\ P[i] \in Seq(Nat)
    BY <1>1, <2>1 DEF Placed
  <2>4. i \in ValidTS(t)
    BY <1>1, <2>3, Zenon DEF Placed, ValidTS
  <2>5. p \in ToSet(P[i])
    BY <2>2, <2>3 DEF ToSet
  <2>6. ProgsOf(t, i) = P[i]
    BY <2>4, ProgsOfIs
  <2> QED BY <2>4, <2>5, <2>6
<1>4. ASSUME NEW i \in ValidTS(t), NEW p \in ToSet(ProgsOf(t, i)) PROVE p \in DOMAIN t.prog /\ t.prog[p].valid
  <2>1. ProgsOf(t, i) = P[i] /\ P[i] \in Seq(Nat) /\ i \in Nat
    BY ProgsOfIs
  <2>2. PICK k \in 1 .. Len(P[i]) : p = P[i][k]
    BY <1>4, <2>1 DEF ToSet
  <2>3. p \in DOMAIN t.prog
    BY <1>1, <2>1, <2>2, Zenon DEF Placed
  <2>4. t.prog[p].valid
    BY <1>1, <2>1, <2>2 DEF Back
  <2> QED BY <2>3, <2>4
<1> QED BY <1>2, <1>3, <1>4

\* The entries have their fields.
LEMMA ShapeEntries ==
    ASSUME NEW t, Shape(t)
    PROVE  EntryOK(t.ts, ZeroTS) /\ EntryOK(t.prog, ZeroProg) /\ EntryOK(t.pid, ZeroPID)
<1>1. EntryOK(t.ts, ZeroTS)
  BY ShapeFacts, ZeroFacts DEF EntryOK, TSRec
<1>2. EntryOK(t.prog, ZeroProg)
  BY ShapeFacts, ZeroFacts DEF EntryOK, ProgRec
<1>3. EntryOK(t.pid, ZeroPID)
  BY ShapeFacts, ZeroFacts DEF EntryOK, PIDRec
<1> QED BY <1>1, <1>2, <1>3

-----------------------------------------------------------------------------
(* What a change of one stream leaves of the others.                       *)

\* The stream of the list n.
StreamOf(t, n) ==
    IF n[1] \in {"EMMPID", "OTHERPID"} THEN n[2] ELSE IF n[1] = "ES_ECMPID" THEN t.pid[n[2]].ts ELSE t.prog[n[2]].ts

\* An elementary stream is of the stream of its program.
LEMMA OwnersStream ==
    ASSUME NEW t, NEW P, NEW W, Layout(t, P, W, {}, {}, {}), NEW j \in DOMAIN t.pid, t.pid[j].type = "ESPID"
    PROVE  t.pid[j].ts = t.prog[t.pid[j].prog].ts
<1>1. PICK n \in Names : \E k \in 1 .. Len(W[n]) : W[n][k] = j
  BY DEF Layout, Covered
<1>2. PICK k \in 1 .. Len(W[n]) : W[n][k] = j
  BY <1>1
<1>3. n[1] = "ESPID" /\ PointsBack(t, n, j)
  BY <1>2 DEF Layout, Back
<1> QED BY <1>3 DEF PointsBack

\* The entries of a list are of its stream.
LEMMA EntriesStream ==
    ASSUME NEW t, NEW P, NEW W, Layout(t, P, W, {}, {}, {}), NEW n \in Names, Owned(t, n), NEW k \in 1 .. Len(W[n])
    PROVE  W[n][k] \in DOMAIN t.pid /\ t.pid[W[n][k]].type = n[1] /\ t.pid[W[n][k]].ts = StreamOf(t, n)
<1>1. PICK j : j = W[n][k]
  OBVIOUS
<1>2. j \in DOMAIN t.pid
  BY <1>1 DEF Layout, Placed
<1>3. t.pid[j].type = n[1] /\ PointsBack(t, n, j)
  BY <1>1 DEF Layout, Back
<1>4. t.pid[j].ts = StreamOf(t, n)
  <2>1. CASE n[1] = "EMMPID" \/ n[1] = "OTHERPID"
    BY <1>3, <2>1 DEF PointsBack, StreamOf
  <2>2. CASE n[1] = "ES_ECMPID"
    <3>1. n[2] \in DOMAIN t.pid /\ t.pid[n[2]].type = "ESPID"
      BY <2>2 DEF Owned
    <3>2. t.pid[n[2]].ts = t.prog[t.pid[n[2]].prog].ts
      BY <3>1, OwnersStream
    <3>3. t.pid[j].prog = t.pid[n[2]].prog /\ t.pid[j].ts = t.prog[t.pid[n[2]].prog].ts
      BY <1>3, <2>2 DEF PointsBack
    <3>4. StreamOf(t, n) = t.pid[n[2]].ts
      BY <2>2 DEF StreamOf
    <3> QED BY <3>2, <3>3, <3>4
  <2>3. CASE n[1] # "EMMPID" /\ n[1] # "OTHERPID" /\ n[1] # "ES_ECMPID"
    BY <1>3, <2>3 DEF PointsBack, StreamOf
  <2> QED BY <2>1, <2>2, <2>3
<1> QED BY <1>1, <1>2, <1>3, <1>4

\* The owner of a list of another stream is as it was.
LEMMA OwnerApart ==
    ASSUME NEW t, NEW u, NEW i, Apart(t, u, i), NEW n \in Names, Owned(t, n), StreamOf(t, n) # i
    PROVE  Owned(u, n) /\ HeadRec(u, n) = HeadRec(t, n)
<1>1. n[1] \in Types \ {"UNKNOWN"}
  BY NameFacts
<1>2. CASE n[1] \in {"EMMPID", "OTHERPID"}
  <2>1. n[2] \in DOMAIN u.ts /\ u.ts[n[2]] = t.ts[n[2]] /\ t.ts[n[2]].valid
    BY <1>2 DEF Apart, Owned, StreamOf
  <2> QED BY <1>2, <2>1 DEF Owned, HeadRec
<1>3. CASE n[1] \in {"PCRPID", "ESPID", "PS_ECMPID"}
  <2>1. n[2] \in DOMAIN u.prog /\ u.prog[n[2]] = t.prog[n[2]] /\ t.prog[n[2]].valid
    BY <1>3 DEF Apart, Owned, StreamOf
  <2> QED BY <1>3, <2>1 DEF Owned, HeadRec
<1>4. CASE n[1] = "ES_ECMPID"
  <2>1. n[2] \in DOMAIN t.pid /\ t.pid[n[2]].type = "ESPID" /\ t.pid[n[2]].ts # i
    BY <1>4 DEF Owned, StreamOf
  <2>2. n[2] \in DOMAIN u.pid /\ u.pid[n[2]] = t.pid[n[2]]
    BY <2>1 DEF Apart
  <2> QED BY <1>4, <2>1, <2>2 DEF Owned, HeadRec
<1> QED BY <1>1, <1>2, <1>3, <1>4 DEF Types

\* The list n is found as it was, and its entries are what they were.
ListStands(t, u, n, s) ==
    /\ ListNamed(t, n) = Found(s) /\ ListNamed(u, n) = Found(s)
    /\ \A k \in 1 .. Len(s) : s[k] \in DOMAIN t.pid /\ s[k] \in DOMAIN u.pid /\ u.pid[s[k]] = t.pid[s[k]]

\* A list of another stream stands.
LEMMA OtherList ==
    ASSUME NEW t, NEW P, NEW W, Layout(t, P, W, {}, {}, {}), Fits(t), NEW u, Fits(u), NEW i, Apart(t, u, i),
           NEW n \in Names, Owned(t, n), StreamOf(t, n) # i
    PROVE  ListStands(t, u, n, W[n]) /\ W[n] \in Seq(Nat)
<1>1. Owned(u, n) /\ HeadRec(u, n) = HeadRec(t, n)
  BY OwnerApart
<1>2. W[n] \in Seq(Nat) /\ Len(W[n]) < MAX_INDEX_LIST_NUMBER
  BY DEF Layout, Placed, Short
<1>3. ASSUME NEW k \in 1 .. Len(W[n])
      PROVE  W[n][k] \in DOMAIN t.pid /\ W[n][k] \in DOMAIN u.pid /\ u.pid[W[n][k]] = t.pid[W[n][k]]
  <2>1. W[n][k] \in DOMAIN t.pid /\ t.pid[W[n][k]].type # "UNKNOWN" /\ t.pid[W[n][k]].ts # i
    BY EntriesStream, NameFacts
  <2> QED BY <2>1 DEF Apart
<1>4. Strung(t, n, W[n])
  BY DEF Layout, Linked
<1>5. Strung(u, n, W[n])
  <2>1. CASE n[1] = "PCRPID"
    BY <1>1, <1>4, <2>1 DEF Strung
  <2>2. CASE n[1] # "PCRPID"
    <3>1. Chain(t.pid, HeadRec(t, n), W[n])
      BY <1>4, <2>2 DEF Strung
    <3>2. Chain(u.pid, HeadRec(u, n), W[n])
      BY <1>1, <1>3, <3>1 DEF Chain
    <3> QED BY <2>2, <3>2 DEF Strung
  <2> QED BY <2>1, <2>2
<1>6. ListNamed(u, n) = Found(W[n])
  BY <1>1, <1>2, <1>3, <1>5, StrungFound
<1>7. ListNamed(t, n) = Found(W[n])
  BY ListNamedIs
<1> QED BY <1>2, <1>3, <1>6, <1>7 DEF ListStands

\* The parts of what the lists show of a stream.
Labels(t, s) == [n \in DOMAIN s |-> t.pid[s[n]].pid]
ViewStream(t, j) == [pid |-> t.pid[j].pid, ecm |-> Labels(t, ListOf(InPIDESECMPIDIndexList(t, j)))]
ViewStreams(t, s) == [k \in DOMAIN s |-> ViewStream(t, s[k])]
ViewProgs(t, s) == [k \in DOMAIN s |-> ViewProg(t, s[k])]
ViewPCR(t, p) == IF t.prog[p].pcr \in DOMAIN t.pid THEN t.pid[t.prog[p].pcr].pid ELSE NoPID

LEMMA ViewProgRaw ==
    ASSUME NEW t, NEW p
    PROVE  ViewProg(t, p) = [sid |-> t.prog[p].sid, pcr |-> ViewPCR(t, p),
                             es |-> ViewStreams(t, ListOf(InProgESPIDIndexList(t, p))),
                             cas |-> Labels(t, ListOf(InProgPSECMPIDIndexList(t, p)))]
BY Zenon DEF ViewProg, ViewPCR, ViewStreams, ViewStream, Labels

LEMMA ViewRaw ==
    ASSUME NEW t, NEW i
    PROVE  View(t, i) = [progs |-> ViewProgs(t, ListOf(InTSProgIndexList(t, i))),
                         emm |-> Labels(t, ListOf(InTSEMMPIDIndexList(t, i))),
                         other |-> Labels(t, ListOf(InTSOtherPIDIndexList(t, i)))]
BY Zenon DEF View, ViewProgs, Labels

\* The labels of a list that stands.
LEMMA LabelsStand ==
    ASSUME NEW t, NEW u, NEW n, NEW s \in Seq(Nat), ListStands(t, u, n, s)
    PROVE  Labels(u, s) = Labels(t, s)
<1>1. \A k \in DOMAIN s : u.pid[s[k]].pid = t.pid[s[k]].pid
  <2>1. DOMAIN s = 1 .. Len(s)
    OBVIOUS
  <2> QED BY <2>1 DEF ListStands
<1> QED BY <1>1, Zenon DEF Labels

\* Two tables that differ in what is of stream i only.
Beside(t, u, i) == Fits(t) /\ Fits(u) /\ Apart(t, u, i) /\ \E P, W : Layout(t, P, W, {}, {}, {})

\* An elementary stream of another stream shows what it did.
LEMMA StreamStands ==
    ASSUME NEW t, NEW u, NEW i, Beside(t, u, i), NEW j \in DOMAIN t.pid, t.pid[j].type = "ESPID", t.pid[j].ts # i
    PROVE  ViewStream(u, j) = ViewStream(t, j)
<1>1. PICK P, W : Layout(t, P, W, {}, {}, {})
  BY DEF Beside
<1>2. PICK n : n = <<"ES_ECMPID", j>>
  BY Zenon
<1>3. j \in Nat
  BY <1>1, ShapeFacts DEF Layout
<1>4. n \in Names /\ n[1] = "ES_ECMPID" /\ n[2] = j
  BY <1>2, <1>3 DEF Names, Types
<1>5. Owned(t, n) /\ StreamOf(t, n) # i
  BY <1>4 DEF Owned, StreamOf
<1>6. ListStands(t, u, n, W[n]) /\ W[n] \in Seq(Nat)
  BY <1>1, <1>4, <1>5, OtherList DEF Beside
<1>7. ListNamed(t, n) = InPIDESECMPIDIndexList(t, j) /\ ListNamed(u, n) = InPIDESECMPIDIndexList(u, j)
  BY <1>4 DEF ListNamed
<1>8. ListOf(InPIDESECMPIDIndexList(t, j)) = W[n] /\ ListOf(InPIDESECMPIDIndexList(u, j)) = W[n]
  BY <1>6, <1>7, FoundFacts DEF ListStands
<1>9. Labels(u, W[n]) = Labels(t, W[n])
  BY <1>6, LabelsStand
<1>10. u.pid[j] = t.pid[j]
  BY DEF Beside, Apart
<1> QED BY <1>8, <1>9, <1>10, Zenon DEF ViewStream

\* A program of another stream shows what it did.
LEMMA ProgStands ==
    ASSUME NEW t, NEW u, NEW i, Beside(t, u, i), NEW p \in DOMAIN t.prog, t.prog[p].valid, t.prog[p].ts # i
    PROVE  ViewProg(u, p) = ViewProg(t, p)
<1>1. PICK P, W : Layout(t, P, W, {}, {}, {})
  BY DEF Beside
<1>2. PICK c : c = <<"PCRPID", p>>
  BY Zenon
<1>3. PICK e : e = <<"ESPID", p>>
  BY Zenon
<1>4. PICK a : a = <<"PS_ECMPID", p>>
  BY Zenon
<1>5. p \in Nat
  BY <1>1, ShapeFacts DEF Layout
<1>6. c \in Names /\ c[1] = "PCRPID" /\ c[2] = p
  BY <1>2, <1>5 DEF Names, Types
<1>7. e \in Names /\ e[1] = "ESPID" /\ e[2] = p
  BY <1>3, <1>5 DEF Names, Types
<1>8. a \in Names /\ a[1] = "PS_ECMPID" /\ a[2] = p
  BY <1>4, <1>5 DEF Names, Types
<1>9. \A n \in {c, e, a} : Owned(t, n) /\ StreamOf(t, n) # i
  BY <1>6, <1>7, <1>8 DEF Owned, StreamOf
<1>10. \A n \in {c, e, a} : ListStands(t, u, n, W[n]) /\ W[n] \in Seq(Nat)
  BY <1>1, <1>6, <1>7, <1>8, <1>9, OtherList DEF Beside
<1>11. u.prog[p] = t.prog[p]
  BY DEF Beside, Apart
<1>12. ViewPCR(u, p) = ViewPCR(t, p)
  <2>1. PICK j : j = t.prog[p].pcr
    OBVIOUS
  <2>2. /\ ListNamed(t, c) = Found(IF j \in DOMAIN t.pid THEN <<j>> ELSE << >>)
        /\ ListNamed(u, c) = Found(IF j \in DOMAIN u.pid THEN <<j>> ELSE << >>)
    BY <1>6, <1>11, <2>1 DEF ListNamed
  <2>3. W[c] = IF j \in DOMAIN t.pid THEN <<j>> ELSE << >>
    BY <1>10, <2>2 DEF ListStands, Found
  <2>4. W[c] = IF j \in DOMAIN u.pid THEN <<j>> ELSE << >>
    BY <1>10, <2>2 DEF ListStands, Found
  <2>5. CASE j \in DOMAIN t.pid
    <3>1. Len(W[c]) = 1 /\ W[c][1] = j
      BY <2>3, <2>5
    <3>2. j \in DOMAIN u.pid /\ u.pid[j] = t.pid[j]
      BY <1>10, <3>1 DEF ListStands
    <3> QED BY <1>11, <2>1, <2>5, <3>2 DEF ViewPCR
  <2>6. CASE j \notin DOMAIN t.pid
    <3>1. j \notin DOMAIN u.pid
      BY <2>3, <2>4, <2>6
    <3> QED BY <1>11, <2>1, <2>6, <3>1 DEF ViewPCR
  <2> QED BY <2>5, <2>6
<1>13. ListNamed(t, e) = InProgESPIDIndexList(t, p) /\ ListNamed(u, e) = InProgESPIDIndexList(u, p)
  BY <1>7 DEF ListNamed
<1>14. ListNamed(t, a) = InProgPSECMPIDIndexList(t, p) /\ ListNamed(u, a) = InProgPSECMPIDIndexList(u, p)
  BY <1>8 DEF ListNamed
<1>15. ListOf(InProgESPIDIndexList(t, p)) = W[e] /\ ListOf(InProgESPIDIndexList(u, p)) = W[e]
  BY <1>10, <1>13, FoundFacts DEF ListStands
<1>16. ListOf(InProgPSECMPIDIndexList(t, p)) = W[a] /\ ListOf(InProgPSECMPIDIndexList(u, p)) = W[a]
  BY <1>10, <1>14, FoundFacts DEF ListStands
<1>17. Labels(u, W[a]) = Labels(t, W[a])
  BY <1>10, LabelsStand
<1>18. ViewStreams(u, W[e]) = ViewStreams(t, W[e])
  <2>1. ASSUME NEW k \in DOMAIN W[e] PROVE ViewStream(u, W[e][k]) = ViewStream(t, W[e][k])
    <3>1. k \in 1 .. Len(W[e])
      BY <1>10
    <3>2. W[e][k] \in DOMAIN t.pid /\ t.pid[W[e][k]].type = "ESPID" /\ t.pid[W[e][k]].ts # i
      BY <1>1, <1>7, <1>9, <3>1, EntriesStream
    <3> QED BY <3>2, StreamStands
  <2> QED BY <2>1, Zenon DEF ViewStreams
<1> QED BY <1>11, <1>12, <1>15, <1>16, <1>17, <1>18, ViewProgRaw, Zenon

\* Another stream shows what it did.
LEMMA ViewStands ==
    ASSUME NEW t, NEW u, NEW i, Beside(t, u, i), NEW k \in ValidTS(t), k # i
    PROVE  View(u, k) = View(t, k)
<1>1. PICK P, W : Layout(t, P, W, {}, {}, {})
  BY DEF Beside
<1>2. k \in DOMAIN t.ts /\ t.ts[k].valid /\ k \in DOMAIN u.ts /\ u.ts[k] = t.ts[k]
  BY DEF ValidTS, Beside, Apart
<1>3. InTSProgIndexList(t, k) = Found(P[k]) /\ P[k] \in Seq(Nat) /\ k \in Nat
  BY <1>1, ProgsOfIs DEF Beside
<1>4. ASSUME NEW x \in 1 .. Len(P[k])
      PROVE  /\ P[k][x] \in DOMAIN t.prog /\ t.prog[P[k][x]].valid /\ t.prog[P[k][x]].ts # i
             /\ P[k][x] \in DOMAIN u.prog /\ u.prog[P[k][x]] = t.prog[P[k][x]]
  <2>1. P[k][x] \in DOMAIN t.prog
    BY <1>1, <1>3 DEF Layout, Placed
  <2>2. t.prog[P[k][x]].valid /\ t.prog[P[k][x]].ts = k
    BY <1>1, <1>3 DEF Layout, Back
  <2> QED BY <2>1, <2>2 DEF Beside, Apart
<1>5. InTSProgIndexList(u, k) = Found(P[k])
  <2>1. Chain(t.prog, t.ts[k].prog, P[k])
    BY <1>1, <1>2 DEF Layout, Linked
  <2>2. Chain(u.prog, u.ts[k].prog, P[k])
    BY <1>2, <1>4, <2>1 DEF Chain
  <2>3. Len(P[k]) < MAX_INDEX_LIST_NUMBER
    BY <1>1, <1>3 DEF Layout, Short
  <2>4. P[k] \in Seq(DOMAIN u.prog)
    BY <1>3, <1>4, SeqIn, Zenon
  <2>5. IndexList(u.prog, u.ts[k].prog) = Found(P[k])
    BY <2>2, <2>3, <2>4, IndexListSucceeds DEF Beside, Fits
  <2> QED BY <1>2, <2>5 DEF InTSProgIndexList
<1>6. ViewProgs(u, P[k]) = ViewProgs(t, P[k])
  <2>1. ASSUME NEW x \in DOMAIN P[k] PROVE ViewProg(u, P[k][x]) = ViewProg(t, P[k][x])
    <3>1. x \in 1 .. Len(P[k])
      BY <1>3
    <3> QED BY <1>4, <3>1, ProgStands
  <2> QED BY <2>1, Zenon DEF ViewProgs
<1>7. PICK e : e = <<"EMMPID", k>>
  BY Zenon
<1>8. PICK o : o = <<"OTHERPID", k>>
  BY Zenon
<1>9. e \in Names /\ e[1] = "EMMPID" /\ e[2] = k
  BY <1>3, <1>7 DEF Names, Types
<1>10. o \in Names /\ o[1] = "OTHERPID" /\ o[2] = k
  BY <1>3, <1>8 DEF Names, Types
<1>11. \A n \in {e, o} : Owned(t, n) /\ StreamOf(t, n) # i
  BY <1>2, <1>9, <1>10 DEF Owned, StreamOf
<1>12. \A n \in {e, o} : ListStands(t, u, n, W[n]) /\ W[n] \in Seq(Nat)
  BY <1>1, <1>9, <1>10, <1>11, OtherList DEF Beside
<1>13. ListNamed(t, e) = InTSEMMPIDIndexList(t, k) /\ ListNamed(u, e) = InTSEMMPIDIndexList(u, k)
  BY <1>9 DEF ListNamed
<1>14. ListNamed(t, o) = InTSOtherPIDIndexList(t, k) /\ ListNamed(u, o) = InTSOtherPIDIndexList(u, k)
  BY <1>10 DEF ListNamed
<1>15. ListOf(InTSEMMPIDIndexList(t, k)) = W[e] /\ ListOf(InTSEMMPIDIndexList(u, k)) = W[e]
  BY <1>12, <1>13, FoundFacts DEF ListStands
<1>16. ListOf(InTSOtherPIDIndexList(t, k)) = W[o] /\ ListOf(InTSOtherPIDIndexList(u, k)) = W[o]
  BY <1>12, <1>14, FoundFacts DEF ListStands
<1>17. Labels(u, W[e]) = Labels(t, W[e]) /\ Labels(u, W[o]) = Labels(t, W[o])
  BY <1>12, LabelsStand
<1>18. ListOf(InTSProgIndexList(t, k)) = P[k] /\ ListOf(InTSProgIndexList(u, k)) = P[k]
  BY <1>3, <1>5, FoundFacts
<1> QED BY <1>6, <1>15, <1>16, <1>17, <1>18, ViewRaw, Zenon

-----------------------------------------------------------------------------
(* What the operations do to the tables as a whole.                        *)

TabOK(t) == OneEach(t) /\ \E P, W : State(t, P, W, {}, {}, {})

\* The tables are what the property asks of them.
LEMMA TabOKFacts ==
    ASSUME NEW t, TabOK(t)
    PROVE  Shape(t) /\ (Fits(t) => Sound(t))
<1>1. PICK P, W : State(t, P, W, {}, {}, {})
  BY DEF TabOK
<1>2. Layout(t, P, W, {}, {}, {}) /\ OneEach(t)
  BY <1>1 DEF State, TabOK
<1>3. Shape(t)
  BY <1>2 DEF Layout
<1> QED BY <1>2, <1>3, LayoutSound

\* Tables that were just allocated.
LEMMA NewTabOK ==
    ASSUME NEW a \in Nat, NEW b \in Nat, NEW c \in Nat
    PROVE  TabOK(InitTSInfo(a, b, c))
<1>1. PICK t : t = InitTSInfo(a, b, c)
  OBVIOUS
<1>2. Bare(t) /\ \A i \in DOMAIN t.ts : ~t.ts[i].valid
  BY <1>1, InitBare
<1>3. Layout(t, Nothing(Nat), Nothing(Names), {}, {}, {})
  BY <1>2, BareLayout
<1>4. Reserved(t, {})
  BY DEF Reserved
<1>5. Unowned(t)
  BY <1>2 DEF Unowned, Bare
<1>6. OneEach(t)
  BY <1>2 DEF OneEach, ValidTS
<1>7. TabOK(t)
  BY <1>3, <1>4, <1>5, <1>6 DEF TabOK, State
<1> QED BY <1>1, <1>7

\* Tables that were cleared, whatever was in them.
LEMMA ClearTabOK ==
    ASSUME NEW t, Shape(t)
    PROVE  TabOK(ClearTSInfo(t))
<1>1. PICK a \in Nat, b \in Nat, c \in Nat : t \in Tables(a, b, c)
  BY DEF Shape
<1>2. DOMAIN t.ts = 0 .. a - 1 /\ DOMAIN t.prog = 0 .. b - 1 /\ DOMAIN t.pid = 0 .. c - 1
  BY <1>1, Parts
<1>3. \A n \in Nat : Cardinality(0 .. n - 1) \in Nat
  BY FS_Interval, FS_CardinalityType
<1> QED BY <1>2, <1>3, NewTabOK DEF ClearTSInfo

\* The streams of a channel.
ChannelTS(t, ch) == {i \in DOMAIN t.ts : t.ts[i].valid /\ t.ts[i].channel = ch}
Lowest(S) == CHOOSE i \in S : \A j \in S : i <= j

\* The stream of a channel is the first of the array.
LEMMA TSIndexRaw ==
    ASSUME NEW t, NEW ch
    PROVE  InputTSIndex(t, ch) = IF ChannelTS(t, ch) = {} THEN NotFound("NOT_EXIST") ELSE Found(<<Lowest(ChannelTS(t, ch))>>)
BY Zenon DEF InputTSIndex, ChannelTS, Lowest

\* What TSP_GetInputTSIndex finds for a channel.
LEMMA TSIndexFacts ==
    ASSUME NEW t, Shape(t), NEW ch, NEW r, r = InputTSIndex(t, ch)
    PROVE  \/ /\ r.err = "SUCCESS" /\ r.list[1] \in DOMAIN t.ts
              /\ t.ts[r.list[1]].valid /\ t.ts[r.list[1]].channel = ch
           \/ r.err = "NOT_EXIST" /\ \A i \in DOMAIN t.ts : t.ts[i].valid => t.ts[i].channel # ch
<1>1. PICK S : S = ChannelTS(t, ch)
  OBVIOUS
<1>2. r = IF S = {} THEN NotFound("NOT_EXIST") ELSE Found(<<Lowest(S)>>)
  BY <1>1, TSIndexRaw, Zenon
<1>3. \A i \in DOMAIN t.ts : i \in S <=> t.ts[i].valid /\ t.ts[i].channel = ch
  BY <1>1 DEF ChannelTS
<1>4. S \subseteq DOMAIN t.ts
  BY <1>1 DEF ChannelTS
<1>5. CASE S = {}
  <2>1. r.err = "NOT_EXIST"
    BY <1>2, <1>5 DEF NotFound
  <2> QED BY <1>3, <1>5, <2>1
<1>6. CASE S # {}
  <2>1. S \in SUBSET Nat
    BY <1>4, ShapeFacts
  <2>2. \E m \in S : \A j \in S : m <= j
    BY <1>6, <2>1, Least
  <2>3. Lowest(S) \in S
    BY <2>2 DEF Lowest
  <2>4. r.err = "SUCCESS" /\ r.list[1] = Lowest(S)
    BY <1>2, <1>6 DEF Found
  <2> QED BY <1>3, <1>4, <2>3, <2>4
<1> QED BY <1>5, <1>6

\* A stream that is not in use.
LEMMA UnusedTSFacts ==
    ASSUME NEW t, Shape(t), NEW r, r = UnusedTS(t, 1), r.err = "SUCCESS"
    PROVE  r.list[1] \in DOMAIN t.ts /\ ~t.ts[r.list[1]].valid
<1>1. PICK a \in Nat, b \in Nat, c \in Nat : t \in Tables(a, b, c)
  BY DEF Shape
<1>2. DOMAIN t.ts = 0 .. a - 1
  BY <1>1, Parts
<1>3. DOMAIN t.ts \subseteq Nat /\ IsFiniteSet(DOMAIN t.ts)
  BY <1>2, FS_Interval
<1>4. 1 <= Cardinality(Free(t.ts)) /\ r.list = FirstOf(Free(t.ts), 1)
  BY DEF UnusedTS
<1>5. Fresh(t.ts, FirstOf(Free(t.ts), 1), 1)
  BY <1>3, <1>4, FirstOfFresh
<1> QED BY <1>4, <1>5 DEF Fresh

\* The deletion of a stream, whatever it comes to.
LEMMA DelTabOK ==
    ASSUME NEW t, TabOK(t), Fits(t), NEW i \in DOMAIN t.ts, t.ts[i].valid
    PROVE  TabOK(DelInputTS(t, i).t)
<1>1. PICK P, W : State(t, P, W, {}, {}, {})
  BY DEF TabOK
<1>2. Layout(t, P, W, {}, {}, {}) /\ Unowned(t) /\ OneEach(t)
  BY <1>1 DEF State, TabOK
<1>3. Orphans(t)
  BY <1>2 DEF Unowned, Orphans, Fits
<1>4. PICK r : r = DelInputTS(t, i)
  OBVIOUS
<1>5. Deleted(t, r, i)
  BY <1>2, <1>3, <1>4, DelTS
<1>6. PICK Q, V : Layout(r.t, Q, V, {}, {}, {})
  BY <1>5 DEF Deleted
<1>7. Unowned(r.t) /\ Reserved(r.t, {})
  BY <1>5 DEF Deleted, Orphans, Unowned, Reserved
<1>8. /\ DOMAIN r.t.ts = DOMAIN t.ts
      /\ \A x \in DOMAIN t.ts : r.t.ts[x].valid => t.ts[x].valid /\ r.t.ts[x].channel = t.ts[x].channel
  BY <1>5 DEF Deleted, StreamGone, SameStreams
<1>9. OneEach(r.t)
  BY <1>2, <1>8 DEF OneEach, ValidTS
<1> QED BY <1>4, <1>6, <1>7, <1>9 DEF TabOK, State

\* The copy of what a scan found succeeds.
LEMMA CopyTabOK ==
    ASSUME NEW t, TabOK(t), NEW ch, \A i \in DOMAIN t.ts : t.ts[i].valid => t.ts[i].channel # ch,
           NEW i \in DOMAIN t.ts, ~t.ts[i].valid, NEW found, TempOK(found, ch)
    PROVE  CopyInputTS(t, i, found).err = "SUCCESS" /\ TabOK(CopyInputTS(t, i, found).t)
<1>1. PICK P, W : State(t, P, W, {}, {}, {})
  BY DEF TabOK
<1>2. Copyable(found, ch)
  BY ScanCopyable
<1>3. PICK r : r = CopyInputTS(t, i, found)
  OBVIOUS
<1>4. TSCopied(t, r, i, ch)
  BY <1>1, <1>2, <1>3, CopyInputTSDone
<1>5. /\ r.err = "SUCCESS" /\ DOMAIN r.t.ts = DOMAIN t.ts /\ \A x \in DOMAIN t.ts : x # i => r.t.ts[x] = t.ts[x]
      /\ r.t.ts[i].valid /\ r.t.ts[i].channel = ch
      /\ \E Q, V : State(r.t, Q, V, {}, {}, {})
  BY <1>4 DEF TSCopied
<1>6. OneEach(t)
  BY DEF TabOK
<1>7. ASSUME NEW x \in ValidTS(r.t), NEW y \in ValidTS(r.t), r.t.ts[x].channel = r.t.ts[y].channel PROVE x = y
  <2>1. x \in DOMAIN t.ts /\ y \in DOMAIN t.ts /\ r.t.ts[x].valid /\ r.t.ts[y].valid
    BY <1>5 DEF ValidTS
  <2>2. CASE x = i /\ y = i
    BY <2>2
  <2>3. CASE x = i /\ y # i
    BY <1>5, <1>7, <2>1, <2>3
  <2>4. CASE x # i /\ y = i
    BY <1>5, <1>7, <2>1, <2>4
  <2>5. CASE x # i /\ y # i
    BY <1>5, <1>6, <1>7, <2>1, <2>5 DEF OneEach, ValidTS
  <2> QED BY <2>2, <2>3, <2>4, <2>5
<1>8. OneEach(r.t)
  BY <1>7 DEF OneEach
<1>9. TabOK(r.t)
  BY <1>5, <1>8 DEF TabOK
<1> QED BY <1>3, <1>5, <1>9

-----------------------------------------------------------------------------
(* What a scan leaves of the tables of the other channels.                 *)

\* Stream i is of channel c or not in use.
OfChannel(t, i, c) == t.ts[i].valid => t.ts[i].channel = c

\* Where stream i was of channel c or of none, and is, the table of another channel is what it was.
LEMMA TableStands ==
    ASSUME NEW t, NEW u, NEW i \in DOMAIN t.ts, Beside(t, u, i), NEW c, NEW d, d # c,
           OfChannel(t, i, c), OfChannel(u, i, c)
    PROVE  TableOf(u, d) = TableOf(t, d)
<1>1. Shape(t)
  BY DEF Beside, Layout
<1>2. DOMAIN u.ts = DOMAIN t.ts /\ \A x \in DOMAIN t.ts : x # i => u.ts[x] = t.ts[x]
  BY DEF Beside, Apart
<1>3. ChannelTS(u, d) = ChannelTS(t, d)
  <2>1. ASSUME NEW x \in DOMAIN t.ts
        PROVE  u.ts[x].valid /\ u.ts[x].channel = d <=> t.ts[x].valid /\ t.ts[x].channel = d
    <3>1. CASE x = i
      <4>1. ~(t.ts[x].valid /\ t.ts[x].channel = d)
        BY <3>1 DEF OfChannel
      <4>2. ~(u.ts[x].valid /\ u.ts[x].channel = d)
        BY <3>1 DEF OfChannel
      <4> QED BY <4>1, <4>2
    <3>2. CASE x # i
      <4>1. u.ts[x] = t.ts[x]
        BY <1>2, <3>2
      <4> QED BY <4>1
    <3> QED BY <3>1, <3>2
  <2> QED BY <1>2, <2>1 DEF ChannelTS
<1>4. InputTSIndex(u, d) = InputTSIndex(t, d)
  BY <1>3, TSIndexRaw, Zenon
<1>5. PICK r : r = InputTSIndex(t, d)
  OBVIOUS
<1>6. CASE r.err = "SUCCESS"
  <2>1. r.list[1] \in DOMAIN t.ts /\ t.ts[r.list[1]].valid /\ t.ts[r.list[1]].channel = d
    BY <1>1, <1>5, <1>6, TSIndexFacts
  <2>2. r.list[1] \in ValidTS(t) /\ r.list[1] # i
    BY <2>1 DEF ValidTS, OfChannel
  <2>3. View(u, r.list[1]) = View(t, r.list[1])
    BY <2>2, ViewStands
  <2> QED BY <1>4, <1>5, <1>6, <2>3, Zenon DEF TableOf
<1>7. CASE r.err # "SUCCESS"
  BY <1>4, <1>5, <1>7, Zenon DEF TableOf
<1> QED BY <1>6, <1>7

\* A deletion, also one that fails half way, changes nothing of other channels.
LEMMA DelStands ==
    ASSUME NEW t, TabOK(t), Fits(t), NEW i \in DOMAIN t.ts, t.ts[i].valid, Fits(DelInputTS(t, i).t),
           NEW d, d # t.ts[i].channel
    PROVE  TableOf(DelInputTS(t, i).t, d) = TableOf(t, d)
<1>1. PICK P, W : State(t, P, W, {}, {}, {})
  BY DEF TabOK
<1>2. Layout(t, P, W, {}, {}, {}) /\ Orphans(t)
  BY <1>1 DEF State, Unowned, Orphans, Fits
<1>3. PICK r : r = DelInputTS(t, i)
  OBVIOUS
<1>4. Deleted(t, r, i)
  BY <1>2, <1>3, DelTS
<1>5. Beside(t, r.t, i)
  BY <1>2, <1>3, <1>4 DEF Deleted, Beside
<1>6. OfChannel(t, i, t.ts[i].channel) /\ OfChannel(r.t, i, t.ts[i].channel)
  BY <1>4 DEF Deleted, StreamGone, SameStreams, OfChannel
<1>7. TableOf(r.t, d) = TableOf(t, d)
  BY <1>5, <1>6, TableStands
<1> QED BY <1>3, <1>7

\* A copy takes only entries that no channel uses.
LEMMA CopyStands ==
    ASSUME NEW t, TabOK(t), Fits(t), NEW ch, NEW i \in DOMAIN t.ts, ~t.ts[i].valid, NEW found, TempOK(found, ch),
           Fits(CopyInputTS(t, i, found).t), NEW d, d # ch
    PROVE  TableOf(CopyInputTS(t, i, found).t, d) = TableOf(t, d)
<1>1. PICK P, W : State(t, P, W, {}, {}, {})
  BY DEF TabOK
<1>2. Copyable(found, ch)
  BY ScanCopyable
<1>3. PICK r : r = CopyInputTS(t, i, found)
  OBVIOUS
<1>4. TSCopied(t, r, i, ch)
  BY <1>1, <1>2, <1>3, CopyInputTSDone
<1>5. Apart(t, r.t, i)
  BY <1>4 DEF TSCopied, PIDsStay, ProgsStay, Apart
<1>6. Beside(t, r.t, i)
  BY <1>1, <1>3, <1>5 DEF State, Beside
<1>7. OfChannel(t, i, ch) /\ OfChannel(r.t, i, ch)
  BY <1>4 DEF TSCopied, OfChannel
<1>8. TableOf(r.t, d) = TableOf(t, d)
  BY <1>6, <1>7, TableStands
<1> QED BY <1>3, <1>8

-----------------------------------------------------------------------------
(* The invariant.                                                          *)

\* The tables of the scan of channel c, while it has something in them.
ScanOK(t, at, c) == IF at = "copy" THEN TempOK(t, c) ELSE t = NoTemp

\* The threads of the scans: where each is, and what it has found.
ScansOK ==
    /\ pc \in [Channels -> Places] /\ DOMAIN temp = Channels
    /\ \A c \in Channels : ScanOK(temp[c], pc[c], c)

FlagsOK ==
    /\ aru8Count \in [Channels -> BOOLEAN] /\ s_aru8ClearTSFlag \in [Channels -> BOOLEAN]
    /\ events \in 0 .. MaxEvents

\* The file holds tables that were the shared ones at some time.
Inv ==
    /\ TunerTypeOK /\ ScansOK /\ FlagsOK
    /\ TabOK(tab) /\ TabOK(stored) /\ Fits(stored)

\* A scan that has something found is not one that has nothing.
LEMMA TempNotNone ==
    ASSUME NEW t, NEW c, TempOK(t, c)
    PROVE  t # NoTemp
<1>1. DOMAIN t.ts = {0}
  BY DEF TempOK, Scan
<1>2. SUFFICES ASSUME t = NoTemp PROVE FALSE
  OBVIOUS
<1>3. t.ts = << >>
  BY <1>2 DEF NoTemp
<1>4. DOMAIN << >> = {}
  OBVIOUS
<1> QED BY <1>1, <1>3, <1>4

\* The tables at the start.
LEMMA NewTablesOK ==
    TabOK(NewTables)
BY NewTabOK, TableAssumption DEF NewTables

\* What is on air, or nothing.
LEMMA StreamFits ==
    ASSUME AirFits, NEW c
    PROVE  ScanFits(Stream(c))
<1>1. ScanFits(NoMultiplex)
  <2>1. PICK m : m = NoMultiplex
    OBVIOUS
  <2>2. m.pat = FALSE /\ m.progs = << >> /\ m.emm = << >> /\ m.other = << >>
    BY <2>1 DEF NoMultiplex
  <2>3. m \in Multiplex
    BY <2>1 DEF NoMultiplex, Multiplex
  <2>4. Len(m.progs) = 0 /\ Len(m.emm) = 0 /\ Len(m.other) = 0
    BY <2>2
  <2>5. MAX_INDEX_LIST_NUMBER \in Nat /\ MAX_INDEX_LIST_NUMBER > 1
    BY TableAssumption
  <2>6. ScanFits(m)
    BY <2>3, <2>4, <2>5 DEF ScanFits
  <2> QED BY <2>1, <2>6
<1>2. CASE isChannelLock(tuner_ts_map(c))
  <2>1. tuned[tuner_ts_map(c)] \in LockedFreqs
    BY <1>2 DEF isChannelLock
  <2>2. Stream(c) = OnAir[tuned[tuner_ts_map(c)]]
    BY <1>2 DEF Stream
  <2> QED BY <2>1, <2>2 DEF AirFits
<1>3. CASE ~isChannelLock(tuner_ts_map(c))
  BY <1>1, <1>3 DEF Stream
<1> QED BY <1>2, <1>3

\* The scans at the start of the program.
LEMMA StartScans ==
    ASSUME NEW t, NEW at, NEW count, NEW clear, ScanStart(t, at, count, clear)
    PROVE  /\ at \in [Channels -> Places] /\ DOMAIN t = Channels /\ \A c \in Channels : ScanOK(t[c], at[c], c)
           /\ count \in [Channels -> BOOLEAN] /\ clear \in [Channels -> BOOLEAN]
<1>1. /\ t = [c \in Channels |-> NoTemp] /\ at = [c \in Channels |-> "sleep"]
      /\ count = [c \in Channels |-> FALSE] /\ clear = [c \in Channels |-> FALSE]
  BY DEF ScanStart
<1>2. at \in [Channels -> Places] /\ DOMAIN t = Channels /\ count \in [Channels -> BOOLEAN] /\ clear \in [Channels -> BOOLEAN]
  BY <1>1 DEF Places
<1>3. ASSUME NEW c \in Channels PROVE ScanOK(t[c], at[c], c)
  <2>1. t[c] = NoTemp /\ at[c] = "sleep"
    BY <1>1
  <2> QED BY <2>1 DEF ScanOK
<1> QED BY <1>2, <1>3

\* The tuner thread at the start of the program.
LEMMA StartTuners ==
    ASSUME NEW params \in [Tuners -> Freqs], NEW old, NEW at, NEW flag, NEW place, NEW idx,
           TunerStart(params, old, at, flag, place, idx)
    PROVE  /\ old \in [Tuners -> Freqs] /\ at \in [Tuners -> Freqs \cup {NoFreq}] /\ flag \in [Tuners -> BOOLEAN]
           /\ place \in {"poll", "lock", "flag"} /\ idx \in Tuners
BY TunerAssumption DEF TunerStart, Tuners

\* At the start there is nothing in the tables.
LEMMA InitInv ==
    ASSUME TablesFit, Init
    PROVE  Inv
<1>1. TabOK(tab) /\ TabOK(stored) /\ Fits(stored)
  BY NewTablesOK DEF Init, TablesFit
<1>2. ScansOK
  BY StartScans DEF Init, ScansOK
<1>3. FlagsOK
  BY StartScans, ScanAssumption DEF Init, FlagsOK
<1>4. stCParams \in [Tuners -> Freqs] /\ sets \in 0 .. MaxSets
  BY TunerAssumption DEF Init
<1>5. TunerTypeOK
  BY <1>4, StartTuners DEF Init, TunerTypeOK
<1> QED BY <1>1, <1>2, <1>3, <1>5 DEF Inv

\* The scan of channel c has moved to another place, with what it found.
LEMMA ScanMoves ==
    ASSUME ScansOK, NEW c \in Channels, NEW to \in Places, pc' = [pc EXCEPT ![c] = to],
           DOMAIN temp' = Channels, \A d \in Channels : d # c => temp'[d] = temp[d], ScanOK(temp'[c], to, c)
    PROVE  ScansOK'
<1>1. pc' \in [Channels -> Places]
  BY DEF ScansOK
<1>2. ASSUME NEW d \in Channels PROVE ScanOK(temp'[d], pc'[d], d)
  <2>1. CASE d = c
    <3>1. pc'[d] = to
      BY <2>1 DEF ScansOK
    <3> QED BY <2>1, <3>1
  <2>2. CASE d # c
    <3>1. pc'[d] = pc[d] /\ temp'[d] = temp[d]
      BY <2>2 DEF ScansOK
    <3> QED BY <3>1 DEF ScansOK
  <2> QED BY <2>1, <2>2
<1> QED BY <1>1, <1>2 DEF ScansOK

\* ... with nothing, as before.
LEMMA IdleMoves ==
    ASSUME ScansOK, NEW c \in Channels, pc[c] # "copy", NEW to \in Places, to # "copy", Goto(c, to), UNCHANGED temp
    PROVE  ScansOK'
<1>1. temp[c] = NoTemp
  BY DEF ScansOK, ScanOK
<1>2. ScanOK(temp'[c], to, c)
  BY <1>1 DEF ScanOK
<1>3. DOMAIN temp' = Channels /\ \A d \in Channels : d # c => temp'[d] = temp[d]
  BY DEF ScansOK
<1> QED BY <1>2, <1>3, ScanMoves, Zenon DEF Goto

\* Tables that may follow, in memory and in the file.
TablesOK == TabOK(tab) /\ TabOK(stored) /\ Fits(stored)

\* The tables are replaced by sound ones, saved or not.
LEMMA ChangedOK ==
    ASSUME TablesOK, NEW r, TabOK(r.t), Changed(r), Fits(tab')
    PROVE  TablesOK'
<1>1. tab' = r.t /\ (stored' = r.t \/ stored' = stored)
  BY DEF Changed
<1>2. TabOK(tab') /\ TabOK(stored') /\ Fits(stored')
  BY <1>1 DEF TablesOK
<1> QED BY <1>2 DEF TablesOK

\* IsNeedToScanTS touches flags only.
LEMMA NeedStep ==
    ASSUME Inv, NEW c \in Channels, IsNeedToScanTS(c)
    PROVE  Inv'
<1>1. ScansOK'
  <2>1. "delete" \in Places /\ pc[c] # "copy"
    BY DEF Places, IsNeedToScanTS
  <2> QED BY <2>1, IdleMoves DEF IsNeedToScanTS, Inv
<1>2. FlagsOK'
  BY DEF Inv, FlagsOK, IsNeedToScanTS
<1>3. TunerTypeOK'
  BY DEF Inv, TunerTypeOK, IsNeedToScanTS, tunerVars
<1> QED BY <1>1, <1>2, <1>3 DEF Inv, IsNeedToScanTS

\* DelInputTSByChannel: the stream of the channel goes with its lists, or the tables stay sound.
LEMMA DelStep ==
    ASSUME Inv, TablesFit, TablesFit', NEW c \in Channels, DelInputTSByChannel(c)
    PROVE  Inv'
<1>1. ScansOK'
  <2>1. "ready" \in Places /\ pc[c] # "copy"
    BY DEF Places, DelInputTSByChannel
  <2> QED BY <2>1, IdleMoves DEF DelInputTSByChannel, Inv
<1>2. FlagsOK' /\ TunerTypeOK'
  BY DEF Inv, FlagsOK, TunerTypeOK, DelInputTSByChannel, tunerVars
<1>3. TablesOK'
  <2>1. PICK r : r = InputTSIndex(tab, c)
    OBVIOUS
  <2>2. CASE r.err = "NOT_EXIST"
    <3>1. UNCHANGED <<tab, stored>>
      BY <2>1, <2>2 DEF DelInputTSByChannel
    <3> QED BY <3>1 DEF Inv, TablesOK
  <2>3. CASE r.err # "NOT_EXIST"
    <3>1. Shape(tab)
      BY TabOKFacts DEF Inv
    <3>2. r.list[1] \in DOMAIN tab.ts /\ tab.ts[r.list[1]].valid
      BY <2>1, <2>3, <3>1, TSIndexFacts
    <3>3. TabOK(DelInputTS(tab, r.list[1]).t)
      BY <3>2, DelTabOK DEF Inv, TablesFit
    <3>4. Changed(DelInputTS(tab, r.list[1]))
      BY <2>1, <2>3 DEF DelInputTSByChannel
    <3>5. TablesOK /\ Fits(tab')
      BY DEF Inv, TablesOK, TablesFit
    <3> QED BY <3>3, <3>4, <3>5, ChangedOK
  <2> QED BY <2>2, <2>3
<1> QED BY <1>1, <1>2, <1>3 DEF Inv, TablesOK

\* IsReadyToScanTS touches flags only.
LEMMA ReadyStep ==
    ASSUME Inv, NEW c \in Channels, IsReadyToScanTS(c)
    PROVE  Inv'
<1>1. ScansOK'
  <2>1. PICK to : to = IF isChannelLock(c) THEN "parse" ELSE "sleep"
    OBVIOUS
  <2>2. to \in Places /\ to # "copy" /\ pc[c] # "copy" /\ Goto(c, to)
    BY <2>1 DEF Places, IsReadyToScanTS
  <2> QED BY <2>2, IdleMoves DEF IsReadyToScanTS, Inv
<1>2. FlagsOK' /\ TunerTypeOK'
  BY DEF Inv, FlagsOK, TunerTypeOK, IsReadyToScanTS, tunerVars
<1> QED BY <1>1, <1>2 DEF Inv, IsReadyToScanTS

\* A scan finds what is on air.
LEMMA ParseStep ==
    ASSUME AirFits, Inv, NEW c \in Channels, ScanParse(c)
    PROVE  Inv'
<1>1. ScansOK'
  <2>1. PICK r : r = ParseSI(c, Stream(c))
    OBVIOUS
  <2>2. CASE r.err = "SUCCESS"
    <3>1. temp' = [temp EXCEPT ![c] = r.t] /\ Goto(c, "copy")
      BY <2>1, <2>2 DEF ScanParse, Parsed
    <3>2. c \in Nat
      BY TableAssumption DEF Channels
    <3>3. PICK m : m = Stream(c)
      OBVIOUS
    <3>4. ScanFits(m)
      BY <3>3, StreamFits
    <3>5. TempOK(r.t, c)
      BY <2>1, <2>2, <3>2, <3>3, <3>4, ParseSIDone
    <3>6. DOMAIN temp' = Channels /\ temp'[c] = r.t /\ \A d \in Channels : d # c => temp'[d] = temp[d]
      BY <3>1 DEF Inv, ScansOK
    <3>7. ScanOK(temp'[c], "copy", c)
      BY <3>5, <3>6 DEF ScanOK
    <3>8. "copy" \in Places
      BY DEF Places
    <3> QED BY <3>1, <3>6, <3>7, <3>8, ScanMoves, Zenon DEF Goto, Inv
  <2>3. CASE r.err # "SUCCESS"
    <3>1. UNCHANGED temp /\ Goto(c, "sleep") /\ pc[c] # "copy" /\ "sleep" \in Places
      BY <2>1, <2>3 DEF ScanParse, Parsed, Places
    <3> QED BY <3>1, IdleMoves DEF Inv
  <2> QED BY <2>2, <2>3
<1>2. FlagsOK' /\ TunerTypeOK'
  BY DEF Inv, FlagsOK, TunerTypeOK, ScanParse, tunerVars
<1> QED BY <1>1, <1>2 DEF Inv, ScanParse

\* A scan that fails leaves nothing behind.
LEMMA ParseErrorStep ==
    ASSUME Inv, NEW c \in Channels, ScanParseError(c)
    PROVE  Inv'
<1>1. ScansOK'
  <2>1. "sleep" \in Places /\ pc[c] # "copy"
    BY DEF Places, ScanParseError
  <2> QED BY <2>1, IdleMoves DEF ScanParseError, Inv
<1>2. FlagsOK' /\ TunerTypeOK'
  BY DEF Inv, FlagsOK, TunerTypeOK, ScanParseError, tunerVars
<1> QED BY <1>1, <1>2 DEF Inv, ScanParseError

\* A scan that is copied leaves its own tables empty.
LEMMA CopyScans ==
    ASSUME ScansOK, NEW c \in Channels, ScanCopy(c)
    PROVE  ScansOK'
<1>1. \E place \in {"clear", "sleep"} : Goto(c, place)
  BY DEF ScanCopy, CopyScanned, Copied
<1>2. PICK place \in {"clear", "sleep"} : Goto(c, place)
  BY <1>1
<1>3. place \in Places /\ place # "copy"
  BY DEF Places
<1>4. DOMAIN temp' = Channels /\ temp'[c] = NoTemp /\ \A d \in Channels : d # c => temp'[d] = temp[d]
  BY DEF ScanCopy, ScansOK
<1>5. ScanOK(temp'[c], place, c)
  BY <1>3, <1>4 DEF ScanOK
<1> QED BY <1>2, <1>3, <1>4, <1>5, ScanMoves, Zenon DEF Goto

\* What a scan found is copied into the shared tables.
LEMMA CopyTables ==
    ASSUME TablesOK, Fits(tab'), NEW c \in Channels, TempOK(temp[c], c), ScanCopy(c)
    PROVE  TablesOK'
<1>1. CASE UNCHANGED <<tab, stored>>
  BY <1>1 DEF TablesOK
<1>2. CASE ~UNCHANGED <<tab, stored>>
  <2>1. /\ InputTSIndex(tab, c).err # "SUCCESS" /\ UnusedTS(tab, 1).err = "SUCCESS"
        /\ Changed(CopyInputTS(tab, UnusedTS(tab, 1).list[1], temp[c]))
    BY <1>2 DEF ScanCopy, CopyScanned, Copied
  <2>2. Shape(tab) /\ TabOK(tab)
    BY TabOKFacts DEF TablesOK
  <2>3. \A i \in DOMAIN tab.ts : tab.ts[i].valid => tab.ts[i].channel # c
    BY <2>1, <2>2, TSIndexFacts
  <2>4. UnusedTS(tab, 1).list[1] \in DOMAIN tab.ts /\ ~tab.ts[UnusedTS(tab, 1).list[1]].valid
    BY <2>1, <2>2, UnusedTSFacts
  <2>5. TabOK(CopyInputTS(tab, UnusedTS(tab, 1).list[1], temp[c]).t)
    BY <2>2, <2>3, <2>4, CopyTabOK
  <2> QED BY <2>1, <2>5, ChangedOK
<1> QED BY <1>1, <1>2

\* The copy, after which the scan has nothing left.
LEMMA ScanCopyStep ==
    ASSUME Inv, TablesFit', NEW c \in Channels, ScanCopy(c)
    PROVE  Inv'
<1>1. ScansOK'
  BY CopyScans DEF Inv
<1>2. TempOK(temp[c], c)
  <2>1. pc[c] = "copy" /\ ScanOK(temp[c], pc[c], c)
    BY DEF ScanCopy, Inv, ScansOK
  <2> QED BY <2>1 DEF ScanOK
<1>3. TablesOK'
  BY <1>2, CopyTables DEF Inv, TablesOK, TablesFit
<1>4. FlagsOK' /\ TunerTypeOK'
  BY DEF Inv, FlagsOK, TunerTypeOK, ScanCopy, tunerVars
<1> QED BY <1>1, <1>3, <1>4 DEF Inv, TablesOK

\* The flags of a channel are cleared.
LEMMA FlagsStep ==
    ASSUME Inv, NEW c \in Channels, ClearFlags(c)
    PROVE  Inv'
<1>1. ScansOK'
  <2>1. "sleep" \in Places /\ pc[c] # "copy"
    BY DEF Places, ClearFlags
  <2> QED BY <2>1, IdleMoves DEF ClearFlags, Inv
<1>2. FlagsOK'
  BY DEF Inv, FlagsOK, ClearFlags
<1>3. TunerTypeOK'
  BY Zenon DEF Inv, TunerTypeOK, ClearFlags
<1> QED BY <1>1, <1>2, <1>3 DEF Inv, ClearFlags

\* ClearTSConfiguration empties the tables and gives all channels to be scanned again.
LEMMA ClearStep ==
    ASSUME Inv, TablesFit', ClearTSConfiguration
    PROVE  Inv'
<1>1. TabOK(ClearTSInfo(tab))
  BY TabOKFacts, ClearTabOK DEF Inv
<1>2. TabOK(tab') /\ TabOK(stored') /\ Fits(stored')
  BY <1>1 DEF ClearTSConfiguration, TablesFit
<1>3. ScansOK'
  BY DEF Inv, ScansOK, ClearTSConfiguration
<1>4. FlagsOK'
  BY ScanAssumption DEF Inv, FlagsOK, ClearTSConfiguration
<1>5. TunerTypeOK'
  BY DEF Inv, TunerTypeOK, ClearTSConfiguration, tunerVars
<1> QED BY <1>2, <1>3, <1>4, <1>5 DEF Inv

\* What the web thread and the tuner thread leave alone.
LEMMA OthersKeep ==
    ASSUME Inv, TunerTypeOK', UNCHANGED <<tab, stored, scanVars, events>>
    PROVE  Inv'
BY DEF Inv, ScansOK, FlagsOK, scanVars

\* A tuner is set over the web.
LEMMA WebStep ==
    ASSUME Inv, WebSetTuner
    PROVE  Inv'
<1>1. PICK k \in Tuners, f \in Freqs : SetLockParam(k, f)
  BY DEF WebSetTuner
<1>2. stCParams' \in [Tuners -> Freqs]
  BY <1>1 DEF SetLockParam, Inv, TunerTypeOK
<1>3. sets' \in 0 .. MaxSets
  BY <1>1, TunerAssumption DEF SetLockParam, Inv, TunerTypeOK
<1>4. UNCHANGED <<stCOldParams, tuned, b_IsLockFreqChange, tunerAt, u8TunerIdx>>
  BY <1>1 DEF SetLockParam
<1>5. TunerTypeOK'
  BY <1>2, <1>3, <1>4 DEF Inv, TunerTypeOK
<1> QED BY <1>5, OthersKeep DEF WebSetTuner

\* The tuner thread keeps its variables what they are.
LEMMA CheckLockKeeps ==
    ASSUME TunerTypeOK, CheckLock
    PROVE  /\ tuned' \in [Tuners -> Freqs \cup {NoFreq}] /\ u8TunerIdx' \in Tuners
           /\ tunerAt' \in {"poll", "lock", "flag"}
<1>1. stCParams[u8TunerIdx] \in Freqs
  BY DEF TunerTypeOK
<1>2. tuned' \in [Tuners -> Freqs \cup {NoFreq}]
  BY <1>1 DEF TunerTypeOK, CheckLock
<1>3. \A n \in Nat \ {0}, x \in Nat : (x + 1) % n \in 0 .. n - 1
  OBVIOUS
<1>4. u8TunerIdx \in Nat
  BY TunerAssumption DEF TunerTypeOK, Tuners
<1>5. u8TunerIdx' \in Tuners
  BY <1>3, <1>4, TunerAssumption DEF CheckLock, Tuners
<1> QED BY <1>2, <1>5 DEF CheckLock

\* The tuner thread.
LEMMA TunerStep ==
    ASSUME Inv, TunerThread
    PROVE  Inv'
<1>1. TunerTypeOK
  BY DEF Inv
<1>2. stCParams[u8TunerIdx] \in Freqs
  BY <1>1 DEF TunerTypeOK
<1>3. ASSUME IslockParamChange PROVE TunerTypeOK'
  BY <1>1, <1>2, <1>3 DEF TunerTypeOK, IslockParamChange
<1>4. ASSUME NoParamChange PROVE TunerTypeOK'
  BY <1>1, <1>4, CheckLockKeeps DEF TunerTypeOK, NoParamChange
<1>5. ASSUME lockSignal PROVE TunerTypeOK'
  BY <1>1, <1>2, <1>5 DEF TunerTypeOK, lockSignal
<1>6. ASSUME SetLockFreqChangeFlag PROVE TunerTypeOK'
  BY <1>1, <1>6, CheckLockKeeps DEF TunerTypeOK, SetLockFreqChangeFlag
<1>7. TunerTypeOK'
  BY <1>3, <1>4, <1>5, <1>6 DEF TunerThread, Tuner_process
<1> QED BY <1>7, OthersKeep DEF TunerThread

\* A restart: the tables are what the file has.
LEMMA RebootStep ==
    ASSUME Inv, TablesFit', Reboot
    PROVE  Inv'
<1>1. TabOK(tab') /\ TabOK(stored') /\ Fits(stored')
  BY NewTablesOK DEF Reboot, Inv, TablesFit
<1>2. ScanStart(temp', pc', aru8Count', s_aru8ClearTSFlag')
  BY DEF Reboot
<1>3. ScansOK'
  BY <1>2, StartScans DEF ScansOK
<1>4. FlagsOK'
  <2>1. events' \in 0 .. MaxEvents
    BY ScanAssumption DEF Inv, FlagsOK, Reboot
  <2> QED BY <1>2, <2>1, StartScans DEF FlagsOK
<1>5. TunerTypeOK'
  <2>1. stCParams \in [Tuners -> Freqs] /\ stCParams' = stCParams /\ sets' = sets /\ sets \in 0 .. MaxSets
    BY DEF Inv, TunerTypeOK, Reboot
  <2>2. TunerStart(stCParams, stCOldParams', tuned', b_IsLockFreqChange', tunerAt', u8TunerIdx')
    BY DEF Reboot
  <2>3. /\ stCOldParams' \in [Tuners -> Freqs] /\ tuned' \in [Tuners -> Freqs \cup {NoFreq}]
        /\ b_IsLockFreqChange' \in [Tuners -> BOOLEAN]
        /\ tunerAt' \in {"poll", "lock", "flag"} /\ u8TunerIdx' \in Tuners
    BY <2>1, <2>2, StartTuners
  <2> QED BY <2>1, <2>3 DEF TunerTypeOK
<1> QED BY <1>1, <1>3, <1>4, <1>5 DEF Inv

\* Nothing happens.
LEMMA StutterStep ==
    ASSUME Inv, UNCHANGED vars
    PROVE  Inv'
<1>1. UNCHANGED <<tab, stored, scanVars, events>> /\ UNCHANGED tunerVars
  BY DEF vars
<1>2. TunerTypeOK'
  BY <1>1 DEF Inv, TunerTypeOK, tunerVars
<1> QED BY <1>1, <1>2, OthersKeep

\* Each step keeps the invariant: one lemma per action.
LEMMA NextInv ==
    ASSUME AirFits, TablesFit, TablesFit', Inv, [Next]_vars
    PROVE  Inv'
<1>1. ASSUME NEW c \in Channels, ScanTSRoutine(c) PROVE Inv'
  BY <1>1, NeedStep, DelStep, ReadyStep, ParseStep, ParseErrorStep, ScanCopyStep, FlagsStep DEF ScanTSRoutine
<1> QED BY <1>1, ClearStep, WebStep, TunerStep, RebootStep, StutterStep DEF Next

\* The properties the run checks follow from the invariant.
LEMMA InvProperties ==
    ASSUME TablesFit, Inv
    PROVE  TypeOK /\ ListsSound /\ OnlyPCRLost
<1>1. TypeOK
  <2>1. \A t \in {tab, stored} : EntryOK(t.ts, ZeroTS) /\ EntryOK(t.prog, ZeroProg) /\ EntryOK(t.pid, ZeroPID)
    BY TabOKFacts, ShapeEntries DEF Inv
  <2>2. ASSUME NEW c \in Channels PROVE (temp[c] # NoTemp) <=> (pc[c] = "copy")
    <3>1. ScanOK(temp[c], pc[c], c)
      BY DEF Inv, ScansOK
    <3> QED BY <3>1, TempNotNone DEF ScanOK
  <2> QED BY <2>1, <2>2 DEF TypeOK, Inv, ScansOK, FlagsOK
<1>2. ListsSound
  BY TabOKFacts DEF ListsSound, Inv, TablesFit
<1>3. OnlyPCRLost
  <2>1. PICK P, W : State(tab, P, W, {}, {}, {})
    BY DEF Inv, TabOK
  <2>2. Layout(tab, P, W, {}, {}, {})
    BY <2>1 DEF State
  <2> QED BY <2>2, LayoutLost DEF OnlyPCRLost, TablesFit
<1> QED BY <1>1, <1>2, <1>3

\* In a system whose streams fit the arrays, and for as long as no index of the tables has grown to
\* 65535, the tables are laid out as Layout says: each list linked from its head to its end, and each
\* entry in use at one place (TSProcess.c: TSP_InitTSInfo, TSP_DelInputTSByChannel, CopyInputTS, ...).
THEOREM InvHolds ==
    ASSUME AirFits
    PROVE  Spec /\ []TablesFit => []Inv
<1>1. TablesFit /\ Init => Inv
  BY InitInv
<1>2. TablesFit /\ TablesFit' /\ Inv /\ [Next]_vars => Inv'
  BY NextInv
<1> QED BY <1>1, <1>2, PTL DEF Spec

\* Type correctness.
THEOREM TypeOKHolds ==
    ASSUME AirFits
    PROVE  Spec /\ []TablesFit => []TypeOK
<1>1. TablesFit /\ Inv => TypeOK
  BY InvProperties
<1> QED BY <1>1, InvHolds, PTL

\* Every list of the tables and of the file that stores them is well formed, at every moment and
\* whichever scans of several channels have deleted and copied in turn (TSProcess.c:2559-2760): linked
\* to its end, of entries that are valid, of its type and pointing back, and no entry is at two places.
THEOREM ListsSoundHolds ==
    ASSUME AirFits
    PROVE  Spec /\ []TablesFit => []ListsSound
<1>1. TablesFit /\ Inv => ListsSound
  BY InvProperties
<1> QED BY <1>1, InvHolds, PTL

\* Every valid entry of the tables that no list has is the PCR entry of a program that was deleted:
\* nothing else leaks (DelInputProg deletes the lists of a program and forgets its PCR).
THEOREM OnlyPCRLostHolds ==
    ASSUME AirFits
    PROVE  Spec /\ []TablesFit => []OnlyPCRLost
<1>1. TablesFit /\ Inv => OnlyPCRLost
  BY InvProperties
<1> QED BY <1>1, InvHolds, PTL

\* A step of a scan that changes the tables changes those of its channel.
LEMMA ScanStands ==
    ASSUME Inv, TablesFit, TablesFit', NEW c \in Channels, tab' # tab, ScanTSRoutine(c), NEW d \in Channels \ {c}
    PROVE  TableOf(tab', d) = TableOf(tab, d)
<1>1. Shape(tab) /\ TabOK(tab) /\ Fits(tab) /\ Fits(tab') /\ d # c
  BY TabOKFacts DEF Inv, TablesFit
<1>2. CASE DelInputTSByChannel(c)
  <2>1. PICK i : i = InputTSIndex(tab, c)
    OBVIOUS
  <2>2. i.err # "NOT_EXIST" /\ tab' = DelInputTS(tab, i.list[1]).t
    BY <1>2, <2>1 DEF DelInputTSByChannel, Changed
  <2>3. i.list[1] \in DOMAIN tab.ts /\ tab.ts[i.list[1]].valid /\ tab.ts[i.list[1]].channel = c
    BY <1>1, <2>1, <2>2, TSIndexFacts
  <2> QED BY <1>1, <2>2, <2>3, DelStands
<1>3. CASE ScanCopy(c)
  <2>1. PICK i : i = UnusedTS(tab, 1)
    OBVIOUS
  <2>2. i.err = "SUCCESS" /\ tab' = CopyInputTS(tab, i.list[1], temp[c]).t
    BY <1>3, <2>1 DEF ScanCopy, CopyScanned, Copied, Changed
  <2>3. i.list[1] \in DOMAIN tab.ts /\ ~tab.ts[i.list[1]].valid
    BY <1>1, <2>1, <2>2, UnusedTSFacts
  <2>4. TempOK(temp[c], c)
    <3>1. pc[c] = "copy" /\ ScanOK(temp[c], pc[c], c)
      BY <1>3 DEF ScanCopy, Inv, ScansOK
    <3> QED BY <3>1 DEF ScanOK
  <2> QED BY <1>1, <2>2, <2>3, <2>4, CopyStands
<1> QED BY <1>2, <1>3 DEF ScanTSRoutine, IsNeedToScanTS, IsReadyToScanTS, ScanParse, ScanParseError, ClearFlags

\* No step of a scan changes what the lists of another channel hold, though all channels take their
\* entries from the same arrays and give them back there: neither a deletion, complete or not, nor a
\* copy into the entries that are free (TSProcess.c:2809-2929, under s_TSPMutex).
THEOREM OthersKeptHolds ==
    ASSUME AirFits
    PROVE  Spec /\ []TablesFit => OthersKept
<1>1. Inv /\ TablesFit /\ TablesFit' =>
        \A c \in Channels : tab' # tab /\ ScanTSRoutine(c) =>
            \A d \in Channels \ {c} : TableOf(tab', d) = TableOf(tab, d)
  BY ScanStands
<1> QED BY <1>1, InvHolds, PTL DEF OthersKept

=============================================================================
