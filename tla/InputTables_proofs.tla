-------------------------- MODULE InputTables_proofs --------------------------
(***************************************************************************)
(* Machine-checked facts about InputTables, for every size of the arrays:  *)
(* what it is for lists through an array to be sound together (Layout),    *)
(* that deleting entries and looking for unused ones keeps it, and what    *)
(* the list functions return.  The loops are functions on numbers;         *)
(* induction over them is by least counterexample (Upwards).               *)
(***************************************************************************)
EXTENDS InputTables, SequenceTheorems, FiniteSetTheorems, WellFoundedInduction, TLAPS

\* A set of numbers has a least one.
LEMMA Least ==
    ASSUME NEW S \in SUBSET Nat, S # {}
    PROVE  \E m \in S : \A k \in S : m <= k
<1> DEFINE R == {p \in Nat \X Nat : p[1] < p[2]}
<1>1. OpToRel(<, Nat) = R
  BY DEF OpToRel
<1>2. IsWellFoundedOn(R, Nat)
  BY <1>1, NatLessThanWellFounded, Zenon
<1> HIDE DEF R
<1>3. PICK m \in S : \A k \in S : ~(<<k, m>> \in R)
  BY <1>2, WFMin, Zenon
<1>4. \A k \in S : ~(k < m)
  BY <1>3, Zenon DEF R
<1> QED BY <1>4

\* What holds of 0, and of each number up to n when it holds of the one before.
LEMMA Upwards ==
    ASSUME NEW n \in Nat, NEW G \in SUBSET (0 .. n), 0 \in G,
           \A k \in 1 .. n : k - 1 \in G => k \in G
    PROVE  \A k \in 0 .. n : k \in G
<1> SUFFICES ASSUME NEW b \in 0 .. n, b \notin G PROVE FALSE
  OBVIOUS
<1> DEFINE B == {k \in 0 .. n : k \notin G}
<1>1. B \in SUBSET Nat /\ B # {}
  OBVIOUS
<1>2. PICK m \in B : \A k \in B : m <= k
  <2> HIDE DEF B
  <2> QED BY <1>1, Least
<1>3. m \in 1 .. n /\ m - 1 \in 0 .. n /\ m - 1 < m
  BY <1>2
<1>4. m - 1 \in G
  BY <1>2, <1>3
<1> QED BY <1>2, <1>3, <1>4

\* A recursive function on 1 .. n.
LEMMA FollowDef ==
    ASSUME NEW table, NEW head, NEW n \in Nat
    PROVE  \E g : g = [k \in 1 .. n |-> IF k = 1 THEN head ELSE Onward(table, g[k - 1])]
<1> DEFINE Fit(g, m) == g = [k \in 1 .. m |-> IF k = 1 THEN head ELSE Onward(table, g[k - 1])]
           G == {m \in 0 .. n : \E g : Fit(g, m)}
<1>1. 0 \in G
  <2> DEFINE z == [k \in 1 .. 0 |-> IF k = 1 THEN head ELSE head]
  <2>1. Fit(z, 0)
    OBVIOUS
  <2>2. 0 \in 0 .. n
    OBVIOUS
  <2> HIDE DEF z, Fit
  <2> QED BY <2>1, <2>2
<1>2. ASSUME NEW m \in 1 .. n, m - 1 \in G PROVE m \in G
  <2>1. PICK g : Fit(g, m - 1)
    BY <1>2
  <2> DEFINE h == [k \in 1 .. m |-> IF k = 1 THEN head ELSE Onward(table, g[k - 1])]
  <2>2. \A k \in 1 .. m - 1 : h[k] = g[k]
    BY <2>1
  <2>3. Fit(h, m)
    <3>1. \A k \in 1 .. m : k # 1 => k - 1 \in 1 .. m - 1
      OBVIOUS
    <3> QED BY <2>2, <3>1, ZenonT(30)
  <2> HIDE DEF h
  <2> QED BY <2>3
<1>3. n \in G
  <2> HIDE DEF G
  <2>1. G \in SUBSET (0 .. n)
    BY DEF G
  <2> QED BY <1>1, <1>2, <2>1, Upwards
<1> QED BY <1>3

\* The walk of Follow.
Walk(at, table, head, n) == at = [k \in 1 .. n |-> IF k = 1 THEN head ELSE Onward(table, at[k - 1])]

\* A walk is followed up to the point where it leaves the array.
LEMMA FollowWalk ==
    ASSUME NEW table, NEW head, NEW n \in Nat
    PROVE  \E at : /\ Walk(at, table, head, n)
                  /\ Follow(table, head, n) = SubSeq(at, 1, Cardinality({k \in 1 .. n : at[k] \in DOMAIN table}))
<1> DEFINE at == CHOOSE at : at = [k \in 1 .. n |-> IF k = 1 THEN head ELSE Onward(table, at[k - 1])]
<1>1. at = [k \in 1 .. n |-> IF k = 1 THEN head ELSE Onward(table, at[k - 1])]
  BY FollowDef
<1>2. Follow(table, head, n) = SubSeq(at, 1, Cardinality({k \in 1 .. n : at[k] \in DOMAIN table}))
  BY Zenon DEF Follow
<1> HIDE DEF at
<1> QED BY <1>1, <1>2, Zenon DEF Walk

\* The list [head, num] is s: its elements point to one another in the order of s.
Chain(table, list, s) ==
    /\ Len(s) = list.num
    /\ s # << >> => list.head = s[1]
    /\ \A k \in 1 .. Len(s) : table[s[k]].next = After(s, k)

\* A walk from the head of a chain meets its entries in order.
LEMMA WalkOnChain ==
    ASSUME NEW table, NEW list, NEW s \in Seq(DOMAIN table), Chain(table, list, s),
           NEW n \in Nat, NEW at, Walk(at, table, list.head, n)
    PROVE  \A k \in 1 .. n : k <= Len(s) => at[k] = s[k]
<1> DEFINE G == {k \in 0 .. n : k \in 1 .. Len(s) => at[k] = s[k]}
<1>1. G \in SUBSET (0 .. n) /\ 0 \in G
  OBVIOUS
<1>2. ASSUME NEW k \in 1 .. n, k - 1 \in G PROVE k \in G
  <2> SUFFICES ASSUME k \in 1 .. Len(s) PROVE at[k] = s[k]
    OBVIOUS
  <2>1. CASE k = 1
    BY <2>1 DEF Walk, Chain
  <2>2. CASE k # 1
    <3>1. k - 1 \in 1 .. Len(s) /\ k - 1 < Len(s)
      BY <2>2
    <3>2. at[k - 1] = s[k - 1] /\ s[k - 1] \in DOMAIN table
      BY <1>2, <3>1
    <3>3. at[k] = table[s[k - 1]].next
      BY <2>2, <3>2 DEF Walk, Onward
    <3>4. table[s[k - 1]].next = s[k]
      BY <3>1 DEF Chain, After
    <3> QED BY <3>3, <3>4
  <2> QED BY <2>1, <2>2
<1>3. \A k \in 0 .. n : k \in G
  <2> HIDE DEF G
  <2> QED BY <1>1, <1>2, Upwards, Zenon
<1> QED BY <1>3

\* How far a walk comes.
LEMMA Counted ==
    ASSUME NEW n \in Nat, NEW T, NEW at
    PROVE  Cardinality({k \in 1 .. n : at[k] \in T}) \in 0 .. n
<1> DEFINE C == {k \in 1 .. n : at[k] \in T}
<1>1. IsFiniteSet(1 .. n) /\ Cardinality(1 .. n) = n /\ C \subseteq 1 .. n
  BY FS_Interval
<1> HIDE DEF C
<1>2. IsFiniteSet(C) /\ Cardinality(C) \in Nat /\ Cardinality(C) <= n
  BY <1>1, FS_Subset, FS_CardinalityType, Zenon
<1> QED BY <1>2 DEF C

\* The first m of n.
LEMMA Cut ==
    ASSUME NEW n \in Nat, NEW at, DOMAIN at = 1 .. n, at = [k \in 1 .. n |-> at[k]], NEW m \in 0 .. n
    PROVE  /\ Len(SubSeq(at, 1, m)) = m /\ SubSeq(at, 1, m) \in Seq({at[k] : k \in 1 .. n})
           /\ \A k \in 1 .. m : SubSeq(at, 1, m)[k] = at[k]
<1>1. at \in Seq({at[k] : k \in 1 .. n}) /\ Len(at) = n
  OBVIOUS
<1> QED BY <1>1, SubSeqProperties

\* There are n numbers from 1 to n.
LEMMA CountTo == ASSUME NEW n \in Nat PROVE Cardinality(1 .. n) = n
<1>1. Cardinality(1 .. n) = IF 1 > n THEN 0 ELSE n - 1 + 1
  BY FS_Interval
<1> QED BY <1>1

\* What begins as s does is s, cut to its length.
LEMMA SameSeq ==
    ASSUME NEW S, NEW s \in Seq(S), NEW n \in Nat, NEW table, NEW head, NEW at, Walk(at, table, head, n),
           Len(s) <= n, \A k \in 1 .. Len(s) : at[k] = s[k]
    PROVE  SubSeq(at, 1, Len(s)) = s
<1>1. DOMAIN at = 1 .. n /\ at = [k \in 1 .. n |-> at[k]]
  BY DEF Walk
<1>2. Len(s) \in 0 .. n
  OBVIOUS
<1>3. /\ Len(SubSeq(at, 1, Len(s))) = Len(s) /\ SubSeq(at, 1, Len(s)) \in Seq({at[k] : k \in 1 .. n})
      /\ \A k \in 1 .. Len(s) : SubSeq(at, 1, Len(s))[k] = s[k]
  BY <1>1, <1>2, Cut, Zenon
<1> QED BY <1>3, SeqEqual

\* A walk as long as the list finds the list.
LEMMA FollowChain ==
    ASSUME NEW table, NEW list, NEW s \in Seq(DOMAIN table), Chain(table, list, s)
    PROVE  Follow(table, list.head, list.num) = s
<1> DEFINE n == Len(s)
<1>1. n \in Nat /\ n = list.num
  BY DEF Chain
<1>2. PICK at : /\ Walk(at, table, list.head, n)
                /\ Follow(table, list.head, n) = SubSeq(at, 1, Cardinality({k \in 1 .. n : at[k] \in DOMAIN table}))
  BY <1>1, FollowWalk, Zenon
<1>3. \A k \in 1 .. n : at[k] = s[k] /\ at[k] \in DOMAIN table
  BY <1>1, <1>2, WalkOnChain
<1>4. {k \in 1 .. n : at[k] \in DOMAIN table} = 1 .. n /\ Cardinality(1 .. n) = n
  <2>1. {k \in 1 .. n : at[k] \in DOMAIN table} = 1 .. n
    BY <1>3, Zenon
  <2> QED BY <1>1, <2>1, CountTo
<1>5. SubSeq(at, 1, Len(s)) = s
  BY <1>1, <1>2, <1>3, SameSeq
<1> QED BY <1>1, <1>2, <1>4, <1>5, Zenon

\* Where TSP_GetIn...IndexList succeeds, what it finds is the list ...
LEMMA IndexListFinds ==
    ASSUME NEW table, NEW list, NEW s \in Seq(DOMAIN table), Chain(table, list, s),
           IndexList(table, list).err = "SUCCESS"
    PROVE  IndexList(table, list) = Found(s)
<1> DEFINE n == MAX_INDEX_LIST_NUMBER
<1>1. n \in Nat \ {0} /\ Len(s) = list.num /\ Len(s) \in Nat
  BY TableAssumption DEF Chain
<1>2. CASE list.num = 0
  BY <1>1, <1>2 DEF IndexList, Found
<1>3. CASE list.num # 0
  <2>1. PICK at : /\ Walk(at, table, list.head, n)
                  /\ Follow(table, list.head, n) = SubSeq(at, 1, Cardinality({k \in 1 .. n : at[k] \in DOMAIN table}))
    <3>1. n \in Nat
      BY <1>1
    <3> HIDE DEF n
    <3> QED BY <3>1, FollowWalk, Zenon
  <2> DEFINE m == Cardinality({k \in 1 .. n : at[k] \in DOMAIN table})
  <2>2. m \in 0 .. n
    BY <1>1, Counted, Zenon
  <2> HIDE DEF m
  <2>3. Len(SubSeq(at, 1, m)) = m
    BY <1>1, <2>1, <2>2, Cut DEF Walk
  <2>4. Follow(table, list.head, n) = SubSeq(at, 1, m)
    BY <2>1 DEF m
  <2>5. m = Len(s) /\ IndexList(table, list) = Found(SubSeq(at, 1, m))
    BY <1>1, <1>3, <2>3, <2>4, Zenon DEF IndexList, NotFound
  <2>6. \A k \in 1 .. n : k <= Len(s) => at[k] = s[k]
    BY <1>1, <2>1, WalkOnChain
  <2>7. SubSeq(at, 1, m) = s
    BY <1>1, <2>1, <2>2, <2>5, <2>6, SameSeq
  <2> QED BY <2>5, <2>7, Zenon
<1> QED BY <1>2, <1>3

\* ... and it succeeds when the list is short and 65535 is no index.
LEMMA IndexListSucceeds ==
    ASSUME NEW table, NEW list, NEW s \in Seq(DOMAIN table), Chain(table, list, s),
           Len(s) < MAX_INDEX_LIST_NUMBER, INDEX_INVALID_VALUE \notin DOMAIN table
    PROVE  IndexList(table, list) = Found(s)
<1> DEFINE n == MAX_INDEX_LIST_NUMBER
<1>1. n \in Nat \ {0} /\ Len(s) = list.num /\ Len(s) \in Nat
  BY TableAssumption DEF Chain
<1>2. CASE list.num = 0
  BY <1>1, <1>2 DEF IndexList, Found
<1>3. CASE list.num # 0
  <2>1. PICK at : /\ Walk(at, table, list.head, n)
                  /\ Follow(table, list.head, n) = SubSeq(at, 1, Cardinality({k \in 1 .. n : at[k] \in DOMAIN table}))
    BY <1>1, FollowWalk, Zenon
  <2>2. \A k \in 1 .. n : k <= Len(s) => at[k] = s[k] /\ at[k] \in DOMAIN table
    BY <1>1, <2>1, WalkOnChain
  <2>3. \A k \in 1 .. n : k > Len(s) => at[k] = INDEX_INVALID_VALUE
    <3> DEFINE G == {k \in 0 .. n : k > Len(s) => at[k] = INDEX_INVALID_VALUE}
    <3>1. G \in SUBSET (0 .. n) /\ 0 \in G
      BY <1>1
    <3>2. ASSUME NEW k \in 1 .. n, k - 1 \in G PROVE k \in G
      <4> SUFFICES ASSUME k > Len(s) PROVE at[k] = INDEX_INVALID_VALUE
        OBVIOUS
      <4>1. k # 1 /\ k - 1 \in 1 .. n
        BY <1>1, <1>3
      <4>2. at[k] = Onward(table, at[k - 1])
        BY <2>1, <4>1 DEF Walk
      <4>3. CASE k - 1 > Len(s)
        BY <1>1, <3>2, <4>2, <4>3 DEF Onward
      <4>4. CASE k - 1 = Len(s)
        <5>1. at[k - 1] = s[Len(s)] /\ at[k - 1] \in DOMAIN table
          BY <2>2, <4>1, <4>4
        <5>2. table[s[Len(s)]].next = After(s, Len(s)) /\ After(s, Len(s)) = INDEX_INVALID_VALUE
          BY <1>1, <1>3 DEF Chain, After
        <5> QED BY <4>2, <5>1, <5>2 DEF Onward
      <4> QED BY <1>1, <4>3, <4>4
    <3>3. \A k \in 0 .. n : k \in G
      <4> HIDE DEF G
      <4> QED BY <1>1, <3>1, <3>2, Upwards, Zenon
    <3> QED BY <3>3
  <2>4. {k \in 1 .. n : at[k] \in DOMAIN table} = 1 .. Len(s) /\ Cardinality(1 .. Len(s)) = Len(s)
    <3>1. \A k \in 1 .. n : at[k] \in DOMAIN table <=> k <= Len(s)
      BY <1>1, <2>2, <2>3
    <3>2. {k \in 1 .. n : at[k] \in DOMAIN table} = 1 .. Len(s)
      BY <1>1, <3>1
    <3> QED BY <1>1, <3>2, CountTo
  <2>5. Follow(table, list.head, n) = s
    <3>1. Len(s) <= n /\ \A k \in 1 .. Len(s) : at[k] = s[k]
      BY <1>1, <2>2
    <3> QED BY <1>1, <2>1, <2>4, <3>1, SameSeq, Zenon
  <2> QED BY <1>1, <1>3, <2>5 DEF IndexList
<1> QED BY <1>2, <1>3

-----------------------------------------------------------------------------
(* What the tables are, and where everything in them is: the layout.       *)

\* The arrays and their entries.
ListRec == [head : Nat, num : Nat]
Types == {"UNKNOWN", "PCRPID", "ESPID", "PS_ECMPID", "ES_ECMPID", "EMMPID", "OTHERPID"}
TSRec == [valid : BOOLEAN, channel : Nat, prog : ListRec, emm : ListRec, other : ListRec]
ProgRec == [valid : BOOLEAN, next : Nat, ts : Nat, sid : Nat, pcr : Nat, es : ListRec, psecm : ListRec]
PIDRec == [valid : BOOLEAN, type : Types, next : Nat, ts : Nat, prog : Nat, owner : Nat, pid : Nat, esecm : ListRec]
Tables(a, b, c) == [ts : [0 .. a - 1 -> TSRec], prog : [0 .. b - 1 -> ProgRec], pid : [0 .. c - 1 -> PIDRec]]
Shape(t) == \E a, b, c \in Nat : t \in Tables(a, b, c)

\* The lists of PIDs, by type and owner.
Names == (Types \ {"UNKNOWN"}) \X Nat

\* The list l has an owner.
Owned(t, l) ==
    /\ l[1] \in {"EMMPID", "OTHERPID"} => l[2] \in DOMAIN t.ts /\ t.ts[l[2]].valid
    /\ l[1] \in {"PCRPID", "ESPID", "PS_ECMPID"} => l[2] \in DOMAIN t.prog /\ t.prog[l[2]].valid
    /\ l[1] = "ES_ECMPID" => l[2] \in DOMAIN t.pid /\ t.pid[l[2]].type = "ESPID"

\* The head and the length of the list l, in its owner's entry.
HeadRec(t, l) ==
    IF l[1] = "EMMPID" THEN t.ts[l[2]].emm
    ELSE IF l[1] = "OTHERPID" THEN t.ts[l[2]].other
    ELSE IF l[1] = "ESPID" THEN t.prog[l[2]].es
    ELSE IF l[1] = "PS_ECMPID" THEN t.prog[l[2]].psecm
    ELSE IF l[1] = "ES_ECMPID" THEN t.pid[l[2]].esecm
    ELSE [head |-> t.prog[l[2]].pcr, num |-> 1]

\* The list l of t is s; a program has one PCR or none.
Strung(t, l, s) ==
    IF l[1] = "PCRPID" THEN (s = << >> /\ HeadRec(t, l).head = INDEX_INVALID_VALUE) \/ s = <<HeadRec(t, l).head>>
    ELSE Chain(t.pid, HeadRec(t, l), s)

\* Where programs and PIDs are: P[i] are the programs of stream i, W[l] the PIDs of the list l.
Placed(t, P, W) ==
    /\ P \in [Nat -> Seq(Nat)] /\ \A i \in Nat : \A k \in 1 .. Len(P[i]) : P[i][k] \in DOMAIN t.prog
    /\ W \in [Names -> Seq(Nat)] /\ \A l \in Names : \A k \in 1 .. Len(W[l]) : W[l][k] \in DOMAIN t.pid
    /\ \A i \in Nat : P[i] # << >> => i \in DOMAIN t.ts /\ t.ts[i].valid
    /\ \A l \in Names : W[l] # << >> => Owned(t, l)
\* No entry is at two places.
Once(S, f) ==
    \A a, b \in S : \A k \in 1 .. Len(f[a]), n \in 1 .. Len(f[b]) : f[a][k] = f[b][n] => a = b /\ k = n
\* An entry is what its place asks: in use, of its list's type and pointing back.
Back(t, P, W) ==
    /\ \A i \in Nat : \A k \in 1 .. Len(P[i]) : t.prog[P[i][k]].valid /\ t.prog[P[i][k]].ts = i
    /\ \A l \in Names : \A k \in 1 .. Len(W[l]) : t.pid[W[l][k]].type = l[1] /\ PointsBack(t, l, W[l][k])
\* Every entry in use has a place, but for a PCR.
Covered(t, P, W) ==
    /\ \A p \in DOMAIN t.prog : t.prog[p].valid => \E i \in Nat : \E k \in 1 .. Len(P[i]) : P[i][k] = p
    /\ \A j \in DOMAIN t.pid : t.pid[j].type \notin {"UNKNOWN", "PCRPID"} =>
         \E l \in Names : \E k \in 1 .. Len(W[l]) : W[l][k] = j
\* The entries without a type are those not in use and those reserved for what comes, R.
Known(t, R) == \A j \in DOMAIN t.pid : t.pid[j].type = "UNKNOWN" <=> (~t.pid[j].valid \/ j \in R)
\* The lists are linked, but for the open ones.
Linked(t, P, W, OP, OW) ==
    /\ \A i \in DOMAIN t.ts : t.ts[i].valid /\ i \notin OP => Chain(t.prog, t.ts[i].prog, P[i])
    /\ \A l \in Names : Owned(t, l) /\ l \notin OW => Strung(t, l, W[l])
\* A list ends before the array it is read into does.
Short(P, W) ==
    /\ \A i \in Nat : Len(P[i]) < MAX_INDEX_LIST_NUMBER
    /\ \A l \in Names : Len(W[l]) < MAX_INDEX_LIST_NUMBER

\* P and W are the lists of t, of which those of OP and OW are open and the entries R reserved.
Layout(t, P, W, OP, OW, R) ==
    /\ Shape(t) /\ Placed(t, P, W) /\ Once(Nat, P) /\ Once(Names, W) /\ Back(t, P, W)
    /\ Covered(t, P, W) /\ Known(t, R) /\ Linked(t, P, W, OP, OW) /\ Short(P, W)

-----------------------------------------------------------------------------
\* The same streams and programs but for the heads of PID lists.
SameEntries(t, u) ==
    /\ DOMAIN u.ts = DOMAIN t.ts /\ DOMAIN u.prog = DOMAIN t.prog
    /\ \A i \in DOMAIN t.ts :
        u.ts[i].valid = t.ts[i].valid /\ u.ts[i].channel = t.ts[i].channel /\ u.ts[i].prog = t.ts[i].prog
    /\ \A p \in DOMAIN t.prog :
        u.prog[p].valid = t.prog[p].valid /\ u.prog[p].next = t.prog[p].next /\ u.prog[p].ts = t.prog[p].ts

\* A stream entry is overwritten, and nothing else.
LEMMA PutTS ==
    ASSUME NEW a \in Nat, NEW b \in Nat, NEW c \in Nat, NEW t \in Tables(a, b, c), NEW i \in 0 .. a - 1, NEW e \in TSRec
    PROVE  /\ [t EXCEPT !.ts[i] = e] \in Tables(a, b, c)
           /\ [t EXCEPT !.ts[i] = e].ts = [t.ts EXCEPT ![i] = e]
           /\ [t EXCEPT !.ts[i] = e].prog = t.prog /\ [t EXCEPT !.ts[i] = e].pid = t.pid
BY Zenon DEF Tables

\* A program entry is overwritten, and nothing else.
LEMMA PutProg ==
    ASSUME NEW a \in Nat, NEW b \in Nat, NEW c \in Nat, NEW t \in Tables(a, b, c), NEW p \in 0 .. b - 1, NEW e \in ProgRec
    PROVE  /\ [t EXCEPT !.prog[p] = e] \in Tables(a, b, c)
           /\ [t EXCEPT !.prog[p] = e].prog = [t.prog EXCEPT ![p] = e]
           /\ [t EXCEPT !.prog[p] = e].ts = t.ts /\ [t EXCEPT !.prog[p] = e].pid = t.pid
BY Zenon DEF Tables

\* A PID entry is overwritten, and nothing else.
LEMMA PutPID ==
    ASSUME NEW a \in Nat, NEW b \in Nat, NEW c \in Nat, NEW t \in Tables(a, b, c), NEW j \in 0 .. c - 1, NEW e \in PIDRec
    PROVE  /\ [t EXCEPT !.pid[j] = e] \in Tables(a, b, c)
           /\ [t EXCEPT !.pid[j] = e].pid = [t.pid EXCEPT ![j] = e]
           /\ [t EXCEPT !.pid[j] = e].ts = t.ts /\ [t EXCEPT !.pid[j] = e].prog = t.prog
BY Zenon DEF Tables

\* The three arrays of the tables.
LEMMA Parts ==
    ASSUME NEW a \in Nat, NEW b \in Nat, NEW c \in Nat, NEW t \in Tables(a, b, c)
    PROVE  /\ t.ts \in [0 .. a - 1 -> TSRec] /\ DOMAIN t.ts = 0 .. a - 1
           /\ t.prog \in [0 .. b - 1 -> ProgRec] /\ DOMAIN t.prog = 0 .. b - 1
           /\ t.pid \in [0 .. c - 1 -> PIDRec] /\ DOMAIN t.pid = 0 .. c - 1
BY DEF Tables

\* The PID lists of a stream entry are overwritten one by one.
LEMMA TSFields ==
    ASSUME NEW e \in TSRec, NEW list \in ListRec
    PROVE  /\ [e EXCEPT !.emm = list] \in TSRec
           /\ [e EXCEPT !.emm = list].emm = list /\ [e EXCEPT !.emm = list].other = e.other
           /\ [e EXCEPT !.emm = list].valid = e.valid /\ [e EXCEPT !.emm = list].channel = e.channel
           /\ [e EXCEPT !.emm = list].prog = e.prog
           /\ [e EXCEPT !.other = list] \in TSRec
           /\ [e EXCEPT !.other = list].other = list /\ [e EXCEPT !.other = list].emm = e.emm
           /\ [e EXCEPT !.other = list].valid = e.valid /\ [e EXCEPT !.other = list].channel = e.channel
           /\ [e EXCEPT !.other = list].prog = e.prog
           /\ [e EXCEPT !.prog = list] \in TSRec
           /\ [e EXCEPT !.prog = list].prog = list /\ [e EXCEPT !.prog = list].emm = e.emm
           /\ [e EXCEPT !.prog = list].valid = e.valid /\ [e EXCEPT !.prog = list].channel = e.channel
           /\ [e EXCEPT !.prog = list].other = e.other
BY DEF TSRec

\* The PID lists of a program entry are overwritten one by one.
LEMMA ProgFields ==
    ASSUME NEW e \in ProgRec, NEW list \in ListRec
    PROVE  /\ [e EXCEPT !.es = list] \in ProgRec
           /\ [e EXCEPT !.es = list].es = list /\ [e EXCEPT !.es = list].psecm = e.psecm
           /\ [e EXCEPT !.es = list].valid = e.valid /\ [e EXCEPT !.es = list].next = e.next
           /\ [e EXCEPT !.es = list].ts = e.ts /\ [e EXCEPT !.es = list].pcr = e.pcr
           /\ [e EXCEPT !.psecm = list] \in ProgRec
           /\ [e EXCEPT !.psecm = list].psecm = list /\ [e EXCEPT !.psecm = list].es = e.es
           /\ [e EXCEPT !.psecm = list].valid = e.valid /\ [e EXCEPT !.psecm = list].next = e.next
           /\ [e EXCEPT !.psecm = list].ts = e.ts /\ [e EXCEPT !.psecm = list].pcr = e.pcr
BY DEF ProgRec

\* The name of a list is a type and an owner.
LEMMA NameFacts ==
    ASSUME NEW n \in Names
    PROVE  n = <<n[1], n[2]>> /\ n[1] \in Types \ {"UNKNOWN"} /\ n[2] \in Nat
BY DEF Names

\* What an entry of each array is.
LEMMA ShapeFacts ==
    ASSUME NEW t, Shape(t)
    PROVE  /\ DOMAIN t.ts \subseteq Nat /\ DOMAIN t.prog \subseteq Nat /\ DOMAIN t.pid \subseteq Nat
           /\ \A i \in DOMAIN t.ts : t.ts[i] \in TSRec
           /\ \A p \in DOMAIN t.prog : t.prog[p] \in ProgRec
           /\ \A j \in DOMAIN t.pid : t.pid[j] \in PIDRec
BY DEF Shape, Tables

\* A sequence whose members are in T.
LEMMA SeqIn ==
    ASSUME NEW T, NEW s \in Seq(Nat), \A k \in 1 .. Len(s) : s[k] \in T
    PROVE  s \in Seq(T)
OBVIOUS

Joined(S, f, g) == [n \in S |-> f[n] \o g[n]]

\* The two parts of what was joined.
Parted(S, f, g, h) ==
    \A x \in S :
        /\ Len(f[x]) \in Nat /\ Len(g[x]) \in Nat /\ Len(h[x]) = Len(f[x]) + Len(g[x])
        /\ g[x] = << >> => h[x] = f[x]
        /\ f[x] = << >> => h[x] = g[x]
        /\ \A m \in 1 .. Len(h[x]) :
             \/ \E i \in 1 .. Len(f[x]) : h[x][m] = f[x][i] /\ m = i
             \/ \E i \in 1 .. Len(g[x]) : h[x][m] = g[x][i] /\ m = i + Len(f[x])
        /\ \A i \in 1 .. Len(f[x]) : i \in 1 .. Len(h[x]) /\ h[x][i] = f[x][i]
        /\ \A i \in 1 .. Len(g[x]) : i + Len(f[x]) \in 1 .. Len(h[x]) /\ h[x][i + Len(f[x])] = g[x][i]

\* Lists put behind lists, one by one.
LEMMA JoinedFacts ==
    ASSUME NEW S, NEW f \in [S -> Seq(Nat)], NEW g \in [S -> Seq(Nat)]
    PROVE  Joined(S, f, g) \in [S -> Seq(Nat)] /\ Parted(S, f, g, Joined(S, f, g))
<1> DEFINE h == Joined(S, f, g)
<1>0. \A x \in S : h[x] = f[x] \o g[x] /\ f[x] \in Seq(Nat) /\ g[x] \in Seq(Nat)
  BY DEF Joined
<1>1. h \in [S -> Seq(Nat)]
  BY DEF Joined
<1> HIDE DEF h
<1>2. ASSUME NEW x \in S
      PROVE  /\ Len(f[x]) \in Nat /\ Len(g[x]) \in Nat /\ Len(h[x]) = Len(f[x]) + Len(g[x])
             /\ g[x] = << >> => h[x] = f[x]
             /\ f[x] = << >> => h[x] = g[x]
             /\ \A i \in 1 .. Len(f[x]) : i \in 1 .. Len(h[x]) /\ h[x][i] = f[x][i]
             /\ \A i \in 1 .. Len(g[x]) : i + Len(f[x]) \in 1 .. Len(h[x]) /\ h[x][i + Len(f[x])] = g[x][i]
  <2>1. h[x] = f[x] \o g[x] /\ f[x] \in Seq(Nat) /\ g[x] \in Seq(Nat)
    BY <1>0
  <2>2. Len(f[x]) \in Nat /\ Len(g[x]) \in Nat /\ Len(h[x]) = Len(f[x]) + Len(g[x])
    BY <2>1
  <2>3. (g[x] = << >> => h[x] = f[x]) /\ (f[x] = << >> => h[x] = g[x])
    BY <2>1, ConcatEmptySeq, Zenon
  <2>4. ASSUME NEW i \in 1 .. Len(f[x]) PROVE i \in 1 .. Len(h[x]) /\ h[x][i] = f[x][i]
    BY <2>1
  <2>5. ASSUME NEW i \in 1 .. Len(g[x])
        PROVE i + Len(f[x]) \in 1 .. Len(h[x]) /\ h[x][i + Len(f[x])] = g[x][i]
    BY <2>1
  <2> QED BY <2>2, <2>3, <2>4, <2>5
<1>3. ASSUME NEW x \in S, NEW m \in 1 .. Len(h[x])
      PROVE  \/ \E i \in 1 .. Len(f[x]) : h[x][m] = f[x][i] /\ m = i
             \/ \E i \in 1 .. Len(g[x]) : h[x][m] = g[x][i] /\ m = i + Len(f[x])
  <2>1. \/ m \in 1 .. Len(f[x]) /\ h[x][m] = f[x][m]
        \/ m - Len(f[x]) \in 1 .. Len(g[x]) /\ h[x][m] = g[x][m - Len(f[x])]
    <3>1. PICK p, q : p = f[x] /\ q = g[x]
      OBVIOUS
    <3>2. p \in Seq(Nat) /\ q \in Seq(Nat) /\ h[x] = p \o q
      BY <1>0, <3>1
    <3>3. m \in 1 .. Len(p \o q)
      BY <3>2
    <3>4. \/ m \in 1 .. Len(p) /\ (p \o q)[m] = p[m]
          \/ m - Len(p) \in 1 .. Len(q) /\ (p \o q)[m] = q[m - Len(p)]
      BY <3>2, <3>3
    <3> QED BY <3>1, <3>2, <3>4, Zenon
  <2> QED BY <1>2, <2>1
<1>4. Parted(S, f, g, h)
  BY <1>2, <1>3 DEF Parted
<1> QED BY <1>1, <1>4 DEF h

\* An entry that is found at two places is found at one.
LEMMA OnceUse ==
    ASSUME NEW S, NEW f, Once(S, f), NEW x \in S, NEW y \in S,
           NEW m \in 1 .. Len(f[x]), NEW o \in 1 .. Len(f[y]), f[x][m] = f[y][o]
    PROVE  x = y /\ m = o
BY DEF Once

\* Entries that are placed once stay so when others are put behind them.
LEMMA OnceJoined ==
    ASSUME NEW S, NEW f \in [S -> Seq(Nat)], NEW g \in [S -> Seq(Nat)], Once(S, f), Once(S, g),
           \A a, b \in S : \A k \in 1 .. Len(f[a]), n \in 1 .. Len(g[b]) : f[a][k] # g[b][n]
    PROVE  Once(S, Joined(S, f, g))
<1> DEFINE h == Joined(S, f, g)
<1>0. Parted(S, f, g, h)
  BY JoinedFacts
<1>1. SUFFICES ASSUME NEW x \in S, NEW y \in S, NEW m \in 1 .. Len(h[x]), NEW q \in 1 .. Len(h[y]),
                      h[x][m] = h[y][q]
               PROVE  x = y /\ m = q
  BY DEF Once
<1> HIDE DEF h
<1>2. \A z \in S : \A k \in 1 .. Len(h[z]) :
        \/ \E i \in 1 .. Len(f[z]) : h[z][k] = f[z][i] /\ k = i
        \/ \E i \in 1 .. Len(g[z]) : h[z][k] = g[z][i] /\ k = i + Len(f[z])
  BY <1>0, Zenon DEF Parted
<1>3. ASSUME NEW i \in 1 .. Len(f[x]), h[x][m] = f[x][i], m = i PROVE x = y /\ m = q
  <2>1. ASSUME NEW j \in 1 .. Len(f[y]), h[y][q] = f[y][j], q = j PROVE x = y /\ m = q
    <3>1. f[x][i] = f[y][j]
      BY <1>1, <1>3, <2>1, Zenon
    <3>2. x = y /\ i = j
      BY <3>1, OnceUse
    <3> QED BY <3>2, <1>3, <2>1
  <2>2. ASSUME NEW j \in 1 .. Len(g[y]), h[y][q] = g[y][j] PROVE x = y /\ m = q
    <3>1. f[x][i] = g[y][j]
      BY <1>1, <1>3, <2>2, Zenon
    <3> QED BY <3>1
  <2> QED BY <1>2, <2>1, <2>2, Zenon
<1>4. ASSUME NEW i \in 1 .. Len(g[x]), h[x][m] = g[x][i], m = i + Len(f[x]) PROVE x = y /\ m = q
  <2>1. ASSUME NEW j \in 1 .. Len(f[y]), h[y][q] = f[y][j] PROVE x = y /\ m = q
    <3>1. f[y][j] = g[x][i]
      BY <1>1, <1>4, <2>1, Zenon
    <3> QED BY <3>1
  <2>2. ASSUME NEW j \in 1 .. Len(g[y]), h[y][q] = g[y][j], q = j + Len(f[y]) PROVE x = y /\ m = q
    <3>1. g[x][i] = g[y][j]
      BY <1>1, <1>4, <2>2, Zenon
    <3>2. x = y /\ i = j
      BY <3>1, OnceUse
    <3> QED BY <3>2, <1>4, <2>2
  <2> QED BY <1>2, <2>1, <2>2, Zenon
<1> QED BY <1>2, <1>3, <1>4

\* The PIDs X[l] were added to the lists l, all of them open in NW, where nothing else but the links of
\* open lists changed.
PIDsAdded(t, u, W, X, NW) ==
    /\ SameEntries(t, u) /\ DOMAIN t.pid \subseteq DOMAIN u.pid
    /\ X \in [Names -> Seq(Nat)] /\ Once(Names, X)
    /\ \A n \in Names : \A k \in 1 .. Len(X[n]) :
        /\ X[n][k] \in DOMAIN t.pid => t.pid[X[n][k]].type = "UNKNOWN"
        /\ X[n][k] \in DOMAIN u.pid /\ u.pid[X[n][k]].type = n[1] /\ PointsBack(u, n, X[n][k])
        /\ n \in NW /\ Owned(u, n)
    /\ \A j \in DOMAIN t.pid : t.pid[j].type # "UNKNOWN" =>
        u.pid[j].type = t.pid[j].type /\ u.pid[j].ts = t.pid[j].ts /\ u.pid[j].prog = t.pid[j].prog
    /\ \A j \in DOMAIN u.pid : u.pid[j].type \notin {"UNKNOWN", "PCRPID"} =>
        \/ j \in DOMAIN t.pid /\ t.pid[j].type \notin {"UNKNOWN", "PCRPID"}
        \/ \E n \in Names : \E k \in 1 .. Len(X[n]) : X[n][k] = j
    /\ \A n \in Names : n \notin NW =>
        /\ \A k \in 1 .. Len(W[n]) : u.pid[W[n][k]].next = t.pid[W[n][k]].next
        /\ Owned(u, n) => Owned(t, n) /\ HeadRec(u, n) = HeadRec(t, n)
    /\ \A n \in Names : Len(W[n]) + Len(X[n]) < MAX_INDEX_LIST_NUMBER

\* The owners of ECMs have a program.
LEMMA OwnersProgram ==
    ASSUME NEW t, NEW P, NEW W, NEW OP, NEW OW, NEW R, Layout(t, P, W, OP, OW, R),
           NEW j \in DOMAIN t.pid, t.pid[j].type = "ESPID"
    PROVE  t.pid[j].prog \in DOMAIN t.prog /\ t.prog[t.pid[j].prog].valid
<1>1. PICK n \in Names : \E k \in 1 .. Len(W[n]) : W[n][k] = j
  BY DEF Layout, Covered
<1>2. PICK k \in 1 .. Len(W[n]) : W[n][k] = j
  BY <1>1
<1>3. n[1] = "ESPID" /\ PointsBack(t, n, j)
  BY <1>2 DEF Layout, Back
<1>4. W[n] # << >>
  BY <1>2
<1>5. Owned(t, n)
  BY <1>4 DEF Layout, Placed
<1> QED BY <1>3, <1>5 DEF Owned, PointsBack

\* A layout with more PIDs in it, each at one place and in a list that is open.
LEMMA AddPIDs ==
    ASSUME NEW t, NEW P, NEW W, NEW OP, NEW OW, NEW R, Layout(t, P, W, OP, OW, R),
           NEW u, Shape(u), NEW X, NEW NW, OW \subseteq NW, NEW NR, Known(u, NR), PIDsAdded(t, u, W, X, NW)
    PROVE  Layout(u, P, Joined(Names, W, X), OP, NW, NR)
<1> DEFINE V == Joined(Names, W, X)
<1>0. /\ W \in [Names -> Seq(Nat)] /\ X \in [Names -> Seq(Nat)] /\ P \in [Nat -> Seq(Nat)]
      /\ SameEntries(t, u)
  BY DEF Layout, Placed, PIDsAdded
<1>1. V \in [Names -> Seq(Nat)] /\ Parted(Names, W, X, V)
  BY <1>0, JoinedFacts
<1>2. \A n \in Names : \A k \in 1 .. Len(W[n]) : W[n][k] \in DOMAIN t.pid /\ t.pid[W[n][k]].type = n[1]
  BY DEF Layout, Placed, Back
<1>k. \A n \in Names : n[1] # "UNKNOWN"
  BY DEF Names
<1>3. Once(Names, V)
  <2>1. ASSUME NEW a \in Names, NEW b \in Names, NEW k \in 1 .. Len(W[a]), NEW n \in 1 .. Len(X[b]), W[a][k] = X[b][n]
        PROVE  FALSE
    <3>1. W[a][k] \in DOMAIN t.pid /\ t.pid[W[a][k]].type # "UNKNOWN"
      BY <1>2, <1>k
    <3>2. X[b][n] \in DOMAIN t.pid => t.pid[X[b][n]].type = "UNKNOWN"
      BY DEF PIDsAdded
    <3> QED BY <2>1, <3>1, <3>2
  <2>2. Once(Names, W) /\ Once(Names, X)
    BY DEF Layout, PIDsAdded
  <2> QED BY <1>0, <2>1, <2>2, OnceJoined, Zenon
\* What an element of V is.
<1>4. \A n \in Names : \A m \in 1 .. Len(V[n]) :
        \/ \E i \in 1 .. Len(W[n]) : V[n][m] = W[n][i]
        \/ \E i \in 1 .. Len(X[n]) : V[n][m] = X[n][i]
  BY <1>1, Zenon DEF Parted
<1>5. \A n \in Names : n \notin NW => V[n] = W[n]
  <2> SUFFICES ASSUME NEW n \in Names, n \notin NW PROVE X[n] = << >>
    BY <1>1, Zenon DEF Parted
  <2>1. X[n] \in Seq(Nat) /\ ~(\E k \in 1 .. Len(X[n]) : TRUE)
    BY <1>0 DEF PIDsAdded
  <2> QED BY <2>1
<1> HIDE DEF V
<1>6. \A n \in Names : Owned(t, n) => Owned(u, n)
  <2> SUFFICES ASSUME NEW n \in Names, Owned(t, n) PROVE Owned(u, n)
    OBVIOUS
  <2>1. n[1] = "ES_ECMPID" => n[2] \in DOMAIN u.pid /\ u.pid[n[2]].type = "ESPID"
    BY Zenon DEF PIDsAdded, Owned
  <2> QED BY <1>0, <2>1, Zenon DEF Owned, SameEntries
<1>7. Placed(u, P, V)
  <2>1. \A n \in Names : \A k \in 1 .. Len(V[n]) : V[n][k] \in DOMAIN u.pid
    <3>1. \A n \in Names : \A k \in 1 .. Len(W[n]) : W[n][k] \in DOMAIN u.pid
      BY <1>2 DEF PIDsAdded
    <3>2. \A n \in Names : \A k \in 1 .. Len(X[n]) : X[n][k] \in DOMAIN u.pid
      BY DEF PIDsAdded
    <3> QED BY <1>4, <3>1, <3>2
  <2>2. ASSUME NEW n \in Names, V[n] # << >> PROVE Owned(u, n)
    <3>1. CASE W[n] # << >>
      BY <1>6, <3>1 DEF Layout, Placed
    <3>2. CASE W[n] = << >>
      <4>1. V[n] = X[n] /\ X[n] \in Seq(Nat)
        BY <1>0, <1>1, <3>2 DEF Parted
      <4>2. 1 \in 1 .. Len(X[n])
        BY <2>2, <4>1
      <4> QED BY <4>2 DEF PIDsAdded
    <3> QED BY <3>1, <3>2
  <2>3. /\ \A i \in Nat : \A k \in 1 .. Len(P[i]) : P[i][k] \in DOMAIN u.prog
        /\ \A i \in Nat : P[i] # << >> => i \in DOMAIN u.ts /\ u.ts[i].valid
    BY <1>0, Zenon DEF Layout, Placed, SameEntries
  <2> QED BY <1>0, <1>1, <2>1, <2>2, <2>3, Zenon DEF Placed
<1>8. Back(u, P, V)
  <2>1. \A i \in Nat : \A k \in 1 .. Len(P[i]) : u.prog[P[i][k]].valid /\ u.prog[P[i][k]].ts = i
    BY <1>0, Zenon DEF Layout, Back, Placed, SameEntries
  <2>2. ASSUME NEW n \in Names, NEW k \in 1 .. Len(W[n])
        PROVE  u.pid[W[n][k]].type = n[1] /\ PointsBack(u, n, W[n][k])
    <3> DEFINE j == W[n][k]
    <3>1. j \in DOMAIN t.pid /\ t.pid[j].type = n[1] /\ PointsBack(t, n, j) /\ Owned(t, n)
      <4>1. W[n] # << >>
        OBVIOUS
      <4> QED BY <1>2, <4>1, Zenon DEF Layout, Back, Placed
    <3>2. u.pid[j].type = t.pid[j].type /\ u.pid[j].ts = t.pid[j].ts /\ u.pid[j].prog = t.pid[j].prog
      BY <1>k, <3>1 DEF PIDsAdded
    <3> HIDE DEF j
    <3>3. n[1] = "ES_ECMPID" => /\ u.pid[n[2]].prog = t.pid[n[2]].prog /\ t.pid[n[2]].prog \in DOMAIN t.prog
      <4> SUFFICES ASSUME n[1] = "ES_ECMPID"
                   PROVE u.pid[n[2]].prog = t.pid[n[2]].prog /\ t.pid[n[2]].prog \in DOMAIN t.prog
        OBVIOUS
      <4>1. n[2] \in DOMAIN t.pid /\ t.pid[n[2]].type = "ESPID"
        BY <3>1 DEF Owned
      <4> QED BY <4>1, OwnersProgram, Zenon DEF PIDsAdded
    <3>4. n[1] \in {"PCRPID", "ESPID", "PS_ECMPID"} => n[2] \in DOMAIN t.prog
      BY <3>1 DEF Owned
    <3>5. n[1] \in Types \ {"UNKNOWN"}
      BY DEF Names
    <3>6. PointsBack(u, n, j)
      BY <1>0, <3>1, <3>2, <3>3, <3>4, <3>5, Zenon DEF PointsBack, SameEntries, Types
    <3> QED BY <3>1, <3>2, <3>6 DEF j
  <2>3. \A n \in Names : \A k \in 1 .. Len(X[n]) : u.pid[X[n][k]].type = n[1] /\ PointsBack(u, n, X[n][k])
    BY Zenon DEF PIDsAdded
  <2>4. ASSUME NEW n \in Names, NEW k \in 1 .. Len(V[n])
        PROVE  u.pid[V[n][k]].type = n[1] /\ PointsBack(u, n, V[n][k])
    <3>1. \/ \E x \in 1 .. Len(W[n]) : V[n][k] = W[n][x]
          \/ \E x \in 1 .. Len(X[n]) : V[n][k] = X[n][x]
      BY <1>4
    <3>2. CASE \E x \in 1 .. Len(W[n]) : V[n][k] = W[n][x]
      <4>1. PICK x \in 1 .. Len(W[n]) : V[n][k] = W[n][x]
        BY <3>2
      <4> QED BY <2>2, <4>1, Zenon
    <3>3. CASE \E x \in 1 .. Len(X[n]) : V[n][k] = X[n][x]
      <4>1. PICK x \in 1 .. Len(X[n]) : V[n][k] = X[n][x]
        BY <3>3
      <4> QED BY <2>3, <4>1, Zenon
    <3> QED BY <3>1, <3>2, <3>3
  <2> QED BY <2>1, <2>4 DEF Back
<1>9. Covered(u, P, V)
  <2>1. \A p \in DOMAIN u.prog : u.prog[p].valid => \E i \in Nat : \E k \in 1 .. Len(P[i]) : P[i][k] = p
    BY <1>0, Zenon DEF Layout, Covered, SameEntries
  <2>2. ASSUME NEW j \in DOMAIN u.pid, u.pid[j].type \notin {"UNKNOWN", "PCRPID"}
        PROVE  \E n \in Names : \E k \in 1 .. Len(V[n]) : V[n][k] = j
    <3>1. CASE j \in DOMAIN t.pid /\ t.pid[j].type \notin {"UNKNOWN", "PCRPID"}
      <4>1. PICK n \in Names : \E k \in 1 .. Len(W[n]) : W[n][k] = j
        BY <3>1 DEF Layout, Covered
      <4>2. PICK k \in 1 .. Len(W[n]) : W[n][k] = j
        BY <4>1
      <4>3. k \in 1 .. Len(V[n]) /\ V[n][k] = W[n][k]
        BY <1>1, Zenon DEF Parted
      <4> QED BY <4>2, <4>3
    <3>2. CASE \E n \in Names : \E k \in 1 .. Len(X[n]) : X[n][k] = j
      <4>1. PICK n \in Names : \E k \in 1 .. Len(X[n]) : X[n][k] = j
        BY <3>2
      <4>2. PICK k \in 1 .. Len(X[n]) : X[n][k] = j
        BY <4>1
      <4>3. k + Len(W[n]) \in 1 .. Len(V[n]) /\ V[n][k + Len(W[n])] = X[n][k]
        BY <1>1, Zenon DEF Parted
      <4> QED BY <4>2, <4>3
    <3> QED BY <2>2, <3>1, <3>2 DEF PIDsAdded
  <2> QED BY <2>1, <2>2 DEF Covered
<1>10. Linked(u, P, V, OP, NW)
  <2>1. ASSUME NEW i \in DOMAIN u.ts, u.ts[i].valid, i \notin OP PROVE Chain(u.prog, u.ts[i].prog, P[i])
    <3>1. Chain(t.prog, t.ts[i].prog, P[i]) /\ u.ts[i].prog = t.ts[i].prog /\ i \in Nat
      BY <1>0, <2>1, ShapeFacts, Zenon DEF Layout, Linked, SameEntries
    <3>2. \A k \in 1 .. Len(P[i]) : u.prog[P[i][k]].next = t.prog[P[i][k]].next
      BY <1>0, <3>1, Zenon DEF SameEntries, Layout, Placed
    <3> QED BY <3>1, <3>2 DEF Chain
  <2>2. ASSUME NEW n \in Names, Owned(u, n), n \notin NW PROVE Strung(u, n, V[n])
    <3>1. Owned(t, n) /\ HeadRec(u, n) = HeadRec(t, n) /\ n \notin OW
      BY <2>2 DEF PIDsAdded
    <3>2. Strung(t, n, W[n]) /\ V[n] = W[n]
      BY <1>5, <2>2, <3>1 DEF Layout, Linked
    <3>3. \A k \in 1 .. Len(W[n]) : u.pid[W[n][k]].next = t.pid[W[n][k]].next
      BY <2>2 DEF PIDsAdded
    <3> QED BY <3>1, <3>2, <3>3 DEF Strung, Chain
  <2> QED BY <2>1, <2>2 DEF Linked
<1>11. Short(P, V)
  <2>1. \A n \in Names : Len(V[n]) < MAX_INDEX_LIST_NUMBER
    BY <1>1, Zenon DEF Parted, PIDsAdded
  <2> QED BY <2>1 DEF Layout, Short
<1>12. Once(Nat, P)
  BY DEF Layout
<1> QED BY <1>3, <1>7, <1>8, <1>9, <1>10, <1>11, <1>12 DEF Layout, V

\* The program p was added to stream i.
ProgOf(t, u, i, p, NOP) ==
    /\ p \in DOMAIN t.prog => ~t.prog[p].valid
    /\ p \in DOMAIN u.prog /\ u.prog[p].valid /\ u.prog[p].ts = i
    /\ i \in NOP /\ i \in DOMAIN u.ts /\ u.ts[i].valid
\* The programs Y[i] were added to the streams i, all of them open in NOP, as are their PID lists in NW.
ProgsAdded(t, u, P, Y, NOP, NW) ==
    /\ u.pid = t.pid /\ DOMAIN u.ts = DOMAIN t.ts /\ DOMAIN t.prog \subseteq DOMAIN u.prog
    /\ Y \in [Nat -> Seq(Nat)] /\ Once(Nat, Y)
    /\ \A i \in Nat : \A k \in 1 .. Len(Y[i]) : ProgOf(t, u, i, Y[i][k], NOP)
    /\ \A i \in DOMAIN t.ts : t.ts[i].valid => u.ts[i].valid
    /\ \A p \in DOMAIN t.prog : t.prog[p].valid => u.prog[p].valid /\ u.prog[p].ts = t.prog[p].ts
    /\ \A p \in DOMAIN u.prog : u.prog[p].valid =>
        \/ p \in DOMAIN t.prog /\ t.prog[p].valid
        \/ \E i \in Nat : \E k \in 1 .. Len(Y[i]) : Y[i][k] = p
    /\ \A i \in DOMAIN t.ts : i \notin NOP =>
        /\ \A k \in 1 .. Len(P[i]) : u.prog[P[i][k]].next = t.prog[P[i][k]].next
        /\ u.ts[i].valid => t.ts[i].valid /\ u.ts[i].prog = t.ts[i].prog
    /\ \A n \in Names : n \notin NW /\ Owned(u, n) => Owned(t, n) /\ HeadRec(u, n) = HeadRec(t, n)
    /\ \A i \in Nat : Len(P[i]) + Len(Y[i]) < MAX_INDEX_LIST_NUMBER

\* A layout with more programs in it, each in a list that is open and with no PIDs yet.
LEMMA AddProgs ==
    ASSUME NEW t, NEW P, NEW W, NEW OP, NEW OW, NEW R, Layout(t, P, W, OP, OW, R),
           NEW u, Shape(u), NEW Y, NEW NOP, NEW NW, OP \subseteq NOP, OW \subseteq NW,
           ProgsAdded(t, u, P, Y, NOP, NW)
    PROVE  Layout(u, Joined(Nat, P, Y), W, NOP, NW, R)
<1> DEFINE Q == Joined(Nat, P, Y)
<1>0. /\ W \in [Names -> Seq(Nat)] /\ Y \in [Nat -> Seq(Nat)] /\ P \in [Nat -> Seq(Nat)] /\ u.pid = t.pid
  BY DEF Layout, Placed, ProgsAdded
<1>1. Q \in [Nat -> Seq(Nat)] /\ Parted(Nat, P, Y, Q)
  BY <1>0, JoinedFacts, Zenon
<1>2. \A i \in Nat : \A k \in 1 .. Len(P[i]) : P[i][k] \in DOMAIN t.prog /\ t.prog[P[i][k]].valid /\ t.prog[P[i][k]].ts = i
  BY DEF Layout, Placed, Back
<1>3. Once(Nat, Q)
  <2>1. ASSUME NEW a \in Nat, NEW b \in Nat, NEW k \in 1 .. Len(P[a]), NEW n \in 1 .. Len(Y[b]), P[a][k] = Y[b][n]
        PROVE  FALSE
    <3>1. P[a][k] \in DOMAIN t.prog /\ t.prog[P[a][k]].valid
      BY <1>2
    <3>2. Y[b][n] \in DOMAIN t.prog => ~t.prog[Y[b][n]].valid
      BY DEF ProgsAdded, ProgOf
    <3> QED BY <2>1, <3>1, <3>2
  <2>2. Once(Nat, P) /\ Once(Nat, Y)
    BY DEF Layout, ProgsAdded
  <2> QED BY <1>0, <2>1, <2>2, OnceJoined, Zenon
<1>4. \A i \in Nat : \A m \in 1 .. Len(Q[i]) :
        \/ \E k \in 1 .. Len(P[i]) : Q[i][m] = P[i][k]
        \/ \E k \in 1 .. Len(Y[i]) : Q[i][m] = Y[i][k]
  BY <1>1, Zenon DEF Parted
<1>5. \A i \in Nat : i \notin NOP => Q[i] = P[i]
  <2> SUFFICES ASSUME NEW i \in Nat, i \notin NOP PROVE Y[i] = << >>
    BY <1>1, Zenon DEF Parted
  <2>1. Y[i] \in Seq(Nat) /\ ~(\E k \in 1 .. Len(Y[i]) : TRUE)
    BY <1>0 DEF ProgsAdded, ProgOf
  <2> QED BY <2>1
<1> HIDE DEF Q
<1>6. \A n \in Names : Owned(t, n) => Owned(u, n)
  <2> SUFFICES ASSUME NEW n \in Names, Owned(t, n) PROVE Owned(u, n)
    OBVIOUS
  <2>1. n[1] \in {"PCRPID", "ESPID", "PS_ECMPID"} => n[2] \in DOMAIN u.prog /\ u.prog[n[2]].valid
    BY DEF ProgsAdded, Owned
  <2>2. n[1] \in {"EMMPID", "OTHERPID"} => n[2] \in DOMAIN u.ts /\ u.ts[n[2]].valid
    BY Zenon DEF ProgsAdded, Owned
  <2> QED BY <1>0, <2>1, <2>2 DEF Owned
<1>7. Placed(u, Q, W)
  <2>1. \A i \in Nat : \A k \in 1 .. Len(Q[i]) : Q[i][k] \in DOMAIN u.prog
    <3>1. \A i \in Nat : \A k \in 1 .. Len(P[i]) : P[i][k] \in DOMAIN u.prog
      BY <1>2, Zenon DEF ProgsAdded
    <3>2. \A i \in Nat : \A k \in 1 .. Len(Y[i]) : Y[i][k] \in DOMAIN u.prog
      BY DEF ProgsAdded, ProgOf
    <3>3. ASSUME NEW i \in Nat, NEW k \in 1 .. Len(Q[i]) PROVE Q[i][k] \in DOMAIN u.prog
      <4>1. CASE \E x \in 1 .. Len(P[i]) : Q[i][k] = P[i][x]
        BY <3>1, <4>1, Zenon
      <4>2. CASE \E x \in 1 .. Len(Y[i]) : Q[i][k] = Y[i][x]
        BY <3>2, <4>2, Zenon
      <4> QED BY <1>4, <4>1, <4>2, Zenon
    <3> QED BY <3>3
  <2>2. ASSUME NEW i \in Nat, Q[i] # << >> PROVE i \in DOMAIN u.ts /\ u.ts[i].valid
    <3>1. CASE P[i] # << >>
      BY <3>1, Zenon DEF Layout, Placed, ProgsAdded
    <3>2. CASE P[i] = << >>
      <4>1. Q[i] = Y[i] /\ Y[i] \in Seq(Nat)
        BY <1>0, <1>1, <3>2, Zenon DEF Parted
      <4>2. 1 \in 1 .. Len(Y[i])
        BY <2>2, <4>1
      <4> QED BY <4>2 DEF ProgsAdded, ProgOf
    <3> QED BY <3>1, <3>2
  <2>3. /\ \A n \in Names : \A k \in 1 .. Len(W[n]) : W[n][k] \in DOMAIN u.pid
        /\ \A n \in Names : W[n] # << >> => Owned(u, n)
    BY <1>0, <1>6, Zenon DEF Layout, Placed
  <2> QED BY <1>0, <1>1, <2>1, <2>2, <2>3, Zenon DEF Placed
<1>8. Back(u, Q, W)
  <2>1. ASSUME NEW i \in Nat, NEW k \in 1 .. Len(P[i]) PROVE u.prog[P[i][k]].valid /\ u.prog[P[i][k]].ts = i
    <3>1. P[i][k] \in DOMAIN t.prog /\ t.prog[P[i][k]].valid /\ t.prog[P[i][k]].ts = i
      BY <1>2
    <3>2. u.prog[P[i][k]].valid /\ u.prog[P[i][k]].ts = t.prog[P[i][k]].ts
      BY <3>1, Zenon DEF ProgsAdded
    <3> QED BY <3>1, <3>2
  <2>2. ASSUME NEW i \in Nat, NEW k \in 1 .. Len(Y[i]) PROVE u.prog[Y[i][k]].valid /\ u.prog[Y[i][k]].ts = i
    <3>1. ProgOf(t, u, i, Y[i][k], NOP)
      BY Zenon DEF ProgsAdded
    <3> QED BY <3>1 DEF ProgOf
  <2>3. ASSUME NEW i \in Nat, NEW k \in 1 .. Len(Q[i]) PROVE u.prog[Q[i][k]].valid /\ u.prog[Q[i][k]].ts = i
    <3>1. CASE \E m \in 1 .. Len(P[i]) : Q[i][k] = P[i][m]
      BY <2>1, <3>1
    <3>2. CASE \E m \in 1 .. Len(Y[i]) : Q[i][k] = Y[i][m]
      BY <2>2, <3>2
    <3> QED BY <1>4, <3>1, <3>2
  <2>4. ASSUME NEW n \in Names, NEW k \in 1 .. Len(W[n])
        PROVE  u.pid[W[n][k]].type = n[1] /\ PointsBack(u, n, W[n][k])
    <3> DEFINE j == W[n][k]
    <3>1. t.pid[j].type = n[1] /\ PointsBack(t, n, j) /\ Owned(t, n)
      <4>1. W[n] # << >>
        OBVIOUS
      <4> QED BY <4>1 DEF Layout, Back, Placed
    <3> HIDE DEF j
    <3>2. n[1] = "ES_ECMPID" => t.pid[n[2]].prog \in DOMAIN t.prog /\ t.prog[t.pid[n[2]].prog].valid
      <4> SUFFICES ASSUME n[1] = "ES_ECMPID"
                   PROVE t.pid[n[2]].prog \in DOMAIN t.prog /\ t.prog[t.pid[n[2]].prog].valid
        OBVIOUS
      <4>1. n[2] \in DOMAIN t.pid /\ t.pid[n[2]].type = "ESPID"
        BY <3>1 DEF Owned
      <4> QED BY <4>1, OwnersProgram
    <3>3. n[1] \in {"PCRPID", "ESPID", "PS_ECMPID"} => n[2] \in DOMAIN t.prog /\ t.prog[n[2]].valid
      BY <3>1 DEF Owned
    <3>4. n[1] \in Types \ {"UNKNOWN"}
      BY DEF Names
    <3>5. \A p \in DOMAIN t.prog : t.prog[p].valid => u.prog[p].ts = t.prog[p].ts
      BY DEF ProgsAdded
    <3>6. PointsBack(u, n, j)
      BY <1>0, <3>1, <3>2, <3>3, <3>4, <3>5, Zenon DEF PointsBack, Types
    <3> QED BY <1>0, <3>1, <3>6 DEF j
  <2> QED BY <2>3, <2>4 DEF Back
<1>9. Covered(u, Q, W)
  <2>1. ASSUME NEW p \in DOMAIN u.prog, u.prog[p].valid
        PROVE  \E i \in Nat : \E k \in 1 .. Len(Q[i]) : Q[i][k] = p
    <3>1. CASE p \in DOMAIN t.prog /\ t.prog[p].valid
      <4>1. PICK i \in Nat : \E k \in 1 .. Len(P[i]) : P[i][k] = p
        BY <3>1 DEF Layout, Covered
      <4>2. PICK k \in 1 .. Len(P[i]) : P[i][k] = p
        BY <4>1
      <4>3. k \in 1 .. Len(Q[i]) /\ Q[i][k] = P[i][k]
        BY <1>1, Zenon DEF Parted
      <4> QED BY <4>2, <4>3
    <3>2. CASE \E i \in Nat : \E k \in 1 .. Len(Y[i]) : Y[i][k] = p
      <4>1. PICK i \in Nat : \E k \in 1 .. Len(Y[i]) : Y[i][k] = p
        BY <3>2
      <4>2. PICK k \in 1 .. Len(Y[i]) : Y[i][k] = p
        BY <4>1
      <4>3. k + Len(P[i]) \in 1 .. Len(Q[i]) /\ Q[i][k + Len(P[i])] = Y[i][k]
        BY <1>1, Zenon DEF Parted
      <4> QED BY <4>2, <4>3
    <3> QED BY <2>1, <3>1, <3>2 DEF ProgsAdded
  <2>2. \A j \in DOMAIN u.pid : u.pid[j].type \notin {"UNKNOWN", "PCRPID"} =>
          \E n \in Names : \E k \in 1 .. Len(W[n]) : W[n][k] = j
    BY <1>0 DEF Layout, Covered
  <2> QED BY <2>1, <2>2 DEF Covered
<1>10. Linked(u, Q, W, NOP, NW)
  <2>1. ASSUME NEW i \in DOMAIN u.ts, u.ts[i].valid, i \notin NOP PROVE Chain(u.prog, u.ts[i].prog, Q[i])
    <3>1. i \in DOMAIN t.ts /\ i \in Nat /\ t.ts[i].valid /\ u.ts[i].prog = t.ts[i].prog /\ i \notin OP
      BY <2>1, ShapeFacts, Zenon DEF ProgsAdded
    <3>2. Chain(t.prog, t.ts[i].prog, P[i]) /\ Q[i] = P[i]
      BY <1>5, <2>1, <3>1 DEF Layout, Linked
    <3>3. \A k \in 1 .. Len(P[i]) : u.prog[P[i][k]].next = t.prog[P[i][k]].next
      BY <2>1, <3>1, Zenon DEF ProgsAdded
    <3> QED BY <3>1, <3>2, <3>3 DEF Chain
  <2>2. ASSUME NEW n \in Names, Owned(u, n), n \notin NW PROVE Strung(u, n, W[n])
    <3>1. Owned(t, n) /\ HeadRec(u, n) = HeadRec(t, n) /\ n \notin OW
      BY <2>2 DEF ProgsAdded
    <3>2. Strung(t, n, W[n])
      BY <3>1 DEF Layout, Linked
    <3> QED BY <1>0, <3>1, <3>2, Zenon DEF Strung, Chain
  <2> QED BY <2>1, <2>2 DEF Linked
<1>11. Short(Q, W)
  <2>1. ASSUME NEW i \in Nat PROVE Len(Q[i]) < MAX_INDEX_LIST_NUMBER
    <3>1. Len(Q[i]) = Len(P[i]) + Len(Y[i])
      BY <1>1, Zenon DEF Parted
    <3>2. Len(P[i]) + Len(Y[i]) < MAX_INDEX_LIST_NUMBER
      BY DEF ProgsAdded
    <3> QED BY <3>1, <3>2, Zenon
  <2> QED BY <2>1 DEF Layout, Short
<1>12. Once(Names, W) /\ Known(u, R)
  BY <1>0 DEF Layout, Known
<1> QED BY <1>3, <1>7, <1>8, <1>9, <1>10, <1>11, <1>12 DEF Layout, Q

-----------------------------------------------------------------------------
(* Deleting.                                                               *)

TailOf(f, x) == [f EXCEPT ![x] = Tail(f[x])]

\* g is f without the first element of f[x].
Shorn(S, f, g, x) ==
    /\ g \in [S -> Seq(Nat)]
    /\ \A y \in S : y # x => g[y] = f[y]
    /\ Len(f[x]) \in Nat \ {0} /\ Len(g[x]) = Len(f[x]) - 1 /\ 1 \in 1 .. Len(f[x])
    /\ \A k \in 1 .. Len(g[x]) : k + 1 \in 1 .. Len(f[x]) /\ g[x][k] = f[x][k + 1]

\* A list without its first entry, and the others as they were.
LEMMA TailFacts ==
    ASSUME NEW S, NEW f \in [S -> Seq(Nat)], NEW x \in S, f[x] # << >>
    PROVE  Shorn(S, f, TailOf(f, x), x)
<1> DEFINE g == TailOf(f, x)
<1>1. f[x] \in Seq(Nat)
  OBVIOUS
<1>2. /\ Tail(f[x]) \in Seq(Nat) /\ Len(f[x]) \in Nat \ {0} /\ Len(Tail(f[x])) = Len(f[x]) - 1
      /\ 1 \in 1 .. Len(f[x])
      /\ \A k \in 1 .. Len(Tail(f[x])) : k + 1 \in 1 .. Len(f[x]) /\ Tail(f[x])[k] = f[x][k + 1]
  BY <1>1
<1>3. g \in [S -> Seq(Nat)] /\ g[x] = Tail(f[x]) /\ \A y \in S : y # x => g[y] = f[y]
  BY <1>2 DEF TailOf
<1> HIDE DEF g
<1>4. Shorn(S, f, g, x)
  BY <1>2, <1>3 DEF Shorn
<1> QED BY <1>4 DEF g

\* What is left of the lists f, where j is not any more.
LeftOf(S, f, g, j) ==
    /\ \A y \in S : \A k \in 1 .. Len(g[y]) : g[y][k] # j
    /\ \A y \in S : \A k \in 1 .. Len(g[y]) : \E m \in 1 .. Len(f[y]) : g[y][k] = f[y][m]

\* The first entry of a list is nowhere else, so without it it is nowhere.
LEMMA OnceShorn ==
    ASSUME NEW S, NEW f, NEW g, NEW x \in S, Shorn(S, f, g, x), Once(S, f)
    PROVE  Once(S, g) /\ LeftOf(S, f, g, f[x][1])
<1>1. ASSUME NEW y \in S, NEW k \in 1 .. Len(g[y])
      PROVE  \E m \in 1 .. Len(f[y]) : g[y][k] = f[y][m] /\ m = (IF y = x THEN k + 1 ELSE k)
  BY Zenon DEF Shorn
<1>2. Once(S, g)
  <2>1. SUFFICES ASSUME NEW y \in S, NEW z \in S, NEW k \in 1 .. Len(g[y]), NEW m \in 1 .. Len(g[z]), g[y][k] = g[z][m]
                 PROVE  y = z /\ k = m
    BY DEF Once
  <2>2. PICK a \in 1 .. Len(f[y]) : g[y][k] = f[y][a] /\ a = (IF y = x THEN k + 1 ELSE k)
    BY <1>1
  <2>3. PICK b \in 1 .. Len(f[z]) : g[z][m] = f[z][b] /\ b = (IF z = x THEN m + 1 ELSE m)
    BY <1>1
  <2>4. f[y][a] = f[z][b]
    BY <2>1, <2>2, <2>3, Zenon
  <2>5. y = z /\ a = b
    BY <2>4, OnceUse
  <2> QED BY <2>2, <2>3, <2>5
<1>3. ASSUME NEW y \in S, NEW k \in 1 .. Len(g[y]), g[y][k] = f[x][1] PROVE FALSE
  <2>1. PICK a \in 1 .. Len(f[y]) : g[y][k] = f[y][a] /\ a = (IF y = x THEN k + 1 ELSE k)
    BY <1>1
  <2>2. f[y][a] = f[x][1] /\ 1 \in 1 .. Len(f[x])
    BY <1>3, <2>1 DEF Shorn
  <2>3. y = x /\ a = 1
    BY <2>2, OnceUse
  <2> QED BY <2>1, <2>3
<1> QED BY <1>1, <1>2, <1>3 DEF LeftOf

\* Lists go on without their first element.
LEMMA ChainShorn ==
    ASSUME NEW S, NEW f, NEW g, NEW x \in S, Shorn(S, f, g, x),
           NEW table, NEW list, Chain(table, list, f[x]), NEW table2,
           \A k \in 1 .. Len(g[x]) : table2[g[x][k]].next = table[g[x][k]].next
    PROVE  Chain(table2, [head |-> table[f[x][1]].next, num |-> list.num - 1], g[x])
<1>0. /\ Len(f[x]) \in Nat \ {0} /\ Len(g[x]) = Len(f[x]) - 1 /\ 1 \in 1 .. Len(f[x]) /\ g[x] \in Seq(Nat)
      /\ \A k \in 1 .. Len(g[x]) : k + 1 \in 1 .. Len(f[x]) /\ g[x][k] = f[x][k + 1]
  BY DEF Shorn
<1>1. Len(g[x]) = list.num - 1
  BY <1>0 DEF Chain
<1>2. g[x] # << >> => table[f[x][1]].next = g[x][1]
  <2>1. table[f[x][1]].next = After(f[x], 1)
    BY <1>0 DEF Chain
  <2>2. g[x] # << >> => 1 \in 1 .. Len(g[x])
    BY <1>0
  <2> QED BY <1>0, <2>1, <2>2 DEF After
<1>3. ASSUME NEW k \in 1 .. Len(g[x]) PROVE table2[g[x][k]].next = After(g[x], k)
  <2>1. k + 1 \in 1 .. Len(f[x]) /\ g[x][k] = f[x][k + 1]
    BY <1>0
  <2>2. table[f[x][k + 1]].next = After(f[x], k + 1)
    BY <2>1 DEF Chain
  <2>3. After(f[x], k + 1) = After(g[x], k)
    <3>1. k < Len(g[x]) <=> k + 1 < Len(f[x])
      BY <1>0
    <3>2. k < Len(g[x]) => g[x][k + 1] = f[x][k + 1 + 1]
      BY <1>0
    <3> QED BY <3>1, <3>2 DEF After
  <2>4. table2[g[x][k]].next = table[g[x][k]].next
    OBVIOUS
  <2> QED BY <2>1, <2>2, <2>3, <2>4
<1> QED BY <1>1, <1>2, <1>3 DEF Chain

\* Nothing of other streams than i is changed: neither their entries nor those of their programs and PIDs.
Apart(t, u, i) ==
    /\ DOMAIN u.ts = DOMAIN t.ts /\ \A x \in DOMAIN t.ts : x # i => u.ts[x] = t.ts[x]
    /\ \A p \in DOMAIN t.prog : t.prog[p].valid /\ t.prog[p].ts # i => p \in DOMAIN u.prog /\ u.prog[p] = t.prog[p]
    /\ \A j \in DOMAIN t.pid : t.pid[j].type # "UNKNOWN" /\ t.pid[j].ts # i => j \in DOMAIN u.pid /\ u.pid[j] = t.pid[j]

\* Two changes within a stream are one.
LEMMA ApartOn ==
    ASSUME NEW t, NEW u, NEW v, NEW i, Apart(t, u, i), Apart(u, v, i)
    PROVE  Apart(t, v, i)
<1>1. DOMAIN v.ts = DOMAIN t.ts /\ \A x \in DOMAIN t.ts : x # i => v.ts[x] = t.ts[x]
  BY DEF Apart
<1>2. ASSUME NEW p \in DOMAIN t.prog, t.prog[p].valid, t.prog[p].ts # i
      PROVE  p \in DOMAIN v.prog /\ v.prog[p] = t.prog[p]
  BY <1>2 DEF Apart
<1>3. ASSUME NEW j \in DOMAIN t.pid, t.pid[j].type # "UNKNOWN", t.pid[j].ts # i
      PROVE  j \in DOMAIN v.pid /\ v.pid[j] = t.pid[j]
  BY <1>3 DEF Apart
<1> QED BY <1>1, <1>2, <1>3 DEF Apart

\* The list l of PIDs is one of stream i.
Within(t, l, i) ==
    IF l[1] \in {"EMMPID", "OTHERPID"} THEN l[2] = i ELSE l[2] \in DOMAIN t.prog /\ t.prog[l[2]].ts = i

\* Of the streams and programs no entry is changed but the owner of the list l.
OwnerOnly(t, u, l) ==
    /\ DOMAIN u.ts = DOMAIN t.ts /\ DOMAIN u.prog = DOMAIN t.prog
    /\ \A x \in DOMAIN t.ts : ~(l[1] \in {"EMMPID", "OTHERPID"} /\ x = l[2]) => u.ts[x] = t.ts[x]
    /\ \A p \in DOMAIN t.prog : ~(l[1] \notin {"EMMPID", "OTHERPID"} /\ p = l[2]) => u.prog[p] = t.prog[p]

\* The tables t without the PID j, the head of the list l.
WithoutHead(t, u, l, j) ==
    /\ Shape(u) /\ SameEntries(t, u) /\ OwnerOnly(t, u, l)
    /\ DOMAIN u.pid = DOMAIN t.pid /\ u.pid[j] = ZeroPID /\ \A x \in DOMAIN t.pid : x # j => u.pid[x] = t.pid[x]
    /\ HeadRec(u, l) = [head |-> t.pid[j].next, num |-> HeadRec(t, l).num - 1]
    /\ \A n \in Names : n # l /\ n # <<"ES_ECMPID", j>> /\ Owned(t, n) => HeadRec(u, n) = HeadRec(t, n)

\* A layout keeps its properties when the first PID of a list leaves it and the list is linked past it.
LEMMA DropHead ==
    ASSUME NEW t, NEW P, NEW W, Layout(t, P, W, {}, {}, {}),
           NEW l \in Names, l[1] \notin {"ES_ECMPID", "PCRPID"}, W[l] # << >>, W[<<"ES_ECMPID", W[l][1]>>] = << >>,
           NEW u, WithoutHead(t, u, l, W[l][1])
    PROVE  Layout(u, P, TailOf(W, l), {}, {}, {})
<1> DEFINE j == W[l][1]
           V == TailOf(W, l)
           e == <<"ES_ECMPID", j>>
<1>p. W \in [Names -> Seq(Nat)] /\ P \in [Nat -> Seq(Nat)] /\ Once(Names, W)
  BY Zenon DEF Layout, Placed
<1>v. Shorn(Names, W, V, l)
  BY <1>p, TailFacts, Zenon
<1>o. /\ Once(Names, V)
      /\ \A n \in Names : \A k \in 1 .. Len(V[n]) : V[n][k] # j
      /\ \A n \in Names : \A k \in 1 .. Len(V[n]) : \E m \in 1 .. Len(W[n]) : V[n][k] = W[n][m]
  <2>1. Once(Names, V) /\ LeftOf(Names, W, V, j)
    BY <1>p, <1>v, OnceShorn
  <2> HIDE DEF V, j
  <2> QED BY <2>1 DEF LeftOf
<1> HIDE DEF V
<1>j. j \in DOMAIN t.pid /\ j \in Nat
  <2>1. 1 \in 1 .. Len(W[l])
    BY <1>v DEF Shorn
  <2> QED BY <2>1, ShapeFacts, Zenon DEF Layout, Placed
<1>s. /\ Shape(u) /\ SameEntries(t, u)
      /\ DOMAIN u.pid = DOMAIN t.pid /\ \A x \in DOMAIN t.pid : x # j => u.pid[x] = t.pid[x]
      /\ u.pid[j] = ZeroPID /\ ~u.pid[j].valid /\ u.pid[j].type = "UNKNOWN"
  BY DEF WithoutHead, ZeroPID
<1>e. e \in Names /\ e # l /\ \A n \in Names : n = <<n[1], n[2]>>
  BY <1>j DEF Names, Types
\* What is in V has stayed.
<1>n. ASSUME NEW n \in Names, NEW k \in 1 .. Len(V[n])
      PROVE  /\ V[n][k] \in DOMAIN t.pid /\ u.pid[V[n][k]] = t.pid[V[n][k]]
             /\ t.pid[V[n][k]].type = n[1] /\ PointsBack(t, n, V[n][k]) /\ Owned(t, n) /\ n # e
  <2>1. PICK m \in 1 .. Len(W[n]) : V[n][k] = W[n][m]
    BY <1>o
  <2>2. W[n][m] \in DOMAIN t.pid /\ t.pid[W[n][m]].type = n[1] /\ PointsBack(t, n, W[n][m]) /\ W[n] # << >>
    <3>1. W[n][m] \in DOMAIN t.pid
      BY DEF Layout, Placed
    <3>2. t.pid[W[n][m]].type = n[1] /\ PointsBack(t, n, W[n][m])
      BY DEF Layout, Back
    <3>3. W[n] # << >>
      OBVIOUS
    <3> QED BY <3>1, <3>2, <3>3
  <2>3. Owned(t, n) /\ n # e
    BY <2>2, Zenon DEF Layout, Placed
  <2>4. V[n][k] # j
    BY <1>o
  <2> QED BY <1>s, <2>1, <2>2, <2>3, <2>4
<1>q. \A n \in Names : Owned(u, n) <=> Owned(t, n) /\ n # e
  <2> SUFFICES ASSUME NEW n \in Names PROVE Owned(u, n) <=> Owned(t, n) /\ n # e
    OBVIOUS
  <2>1. n = <<n[1], n[2]>>
    BY <1>e
  <2>2. CASE n[1] = "ES_ECMPID"
    <3>1. CASE n[2] = j
      BY <1>s, <2>1, <2>2, <3>1 DEF Owned
    <3>2. CASE n[2] # j
      BY <1>s, <2>1, <2>2, <3>2 DEF Owned
    <3> QED BY <3>1, <3>2
  <2>3. CASE n[1] # "ES_ECMPID"
    BY <1>s, <2>3 DEF Owned, SameEntries
  <2> QED BY <2>2, <2>3
<1>1. Placed(u, P, V)
  <2>1. V \in [Names -> Seq(Nat)] /\ \A n \in Names : \A k \in 1 .. Len(V[n]) : V[n][k] \in DOMAIN u.pid
    BY <1>v, <1>n, <1>s DEF Shorn
  <2>2. /\ \A i \in Nat : \A k \in 1 .. Len(P[i]) : P[i][k] \in DOMAIN u.prog
        /\ \A i \in Nat : P[i] # << >> => i \in DOMAIN u.ts /\ u.ts[i].valid
    BY <1>s, Zenon DEF Layout, Placed, SameEntries
  <2>3. ASSUME NEW n \in Names, V[n] # << >> PROVE Owned(u, n)
    <3>1. V[n] \in Seq(Nat)
      BY <2>1
    <3>2. 1 \in 1 .. Len(V[n])
      BY <2>3, <3>1
    <3> QED BY <1>n, <1>q, <3>2
  <2> QED BY <1>p, <2>1, <2>2, <2>3, Zenon DEF Placed
<1>2. Back(u, P, V)
  <2>1. ASSUME NEW i \in Nat, NEW k \in 1 .. Len(P[i]) PROVE u.prog[P[i][k]].valid /\ u.prog[P[i][k]].ts = i
    <3>1. P[i][k] \in DOMAIN t.prog /\ t.prog[P[i][k]].valid /\ t.prog[P[i][k]].ts = i
      BY DEF Layout, Back, Placed
    <3>2. u.prog[P[i][k]].valid = t.prog[P[i][k]].valid /\ u.prog[P[i][k]].ts = t.prog[P[i][k]].ts
      BY <1>s, <3>1, Zenon DEF SameEntries
    <3> QED BY <3>1, <3>2
  <2>2. ASSUME NEW n \in Names, NEW k \in 1 .. Len(V[n])
        PROVE  u.pid[V[n][k]].type = n[1] /\ PointsBack(u, n, V[n][k])
    <3> DEFINE x == V[n][k]
    <3>1. u.pid[x] = t.pid[x] /\ t.pid[x].type = n[1] /\ PointsBack(t, n, x) /\ Owned(t, n) /\ n # e
      BY <1>n
    <3> HIDE DEF x
    <3>2. n = <<n[1], n[2]>> /\ n[1] \in Types \ {"UNKNOWN"}
      BY NameFacts
    <3>3. CASE n[1] = "ES_ECMPID"
      <4>1. n[2] # j /\ n[2] \in DOMAIN t.pid /\ t.pid[n[2]].type = "ESPID"
        BY <3>1, <3>2, <3>3 DEF Owned
      <4>2. t.pid[n[2]].prog \in DOMAIN t.prog
        BY <4>1, OwnersProgram
      <4>3. u.pid[n[2]] = t.pid[n[2]]
        BY <1>s, <4>1
      <4> QED BY <1>s, <3>1, <3>3, <4>2, <4>3 DEF PointsBack, SameEntries, x
    <3>4. CASE n[1] \in {"EMMPID", "OTHERPID"}
      BY <3>1, <3>4 DEF PointsBack, x
    <3>5. CASE n[1] \in {"PCRPID", "ESPID", "PS_ECMPID"}
      <4>1. n[2] \in DOMAIN t.prog
        BY <3>1, <3>5 DEF Owned
      <4> QED BY <1>s, <3>1, <3>5, <4>1 DEF PointsBack, SameEntries, x
    <3> QED BY <3>2, <3>3, <3>4, <3>5 DEF Types
  <2> QED BY <2>1, <2>2 DEF Back
<1>3. Covered(u, P, V)
  <2>1. \A p \in DOMAIN u.prog : u.prog[p].valid => \E i \in Nat : \E k \in 1 .. Len(P[i]) : P[i][k] = p
    BY <1>s DEF Layout, Covered, SameEntries
  <2>2. ASSUME NEW x \in DOMAIN u.pid, u.pid[x].type \notin {"UNKNOWN", "PCRPID"}
        PROVE  \E n \in Names : \E k \in 1 .. Len(V[n]) : V[n][k] = x
    <3>1. x # j /\ u.pid[x] = t.pid[x] /\ x \in DOMAIN t.pid
      BY <1>s, <2>2
    <3>2. PICK n \in Names : \E k \in 1 .. Len(W[n]) : W[n][k] = x
      BY <2>2, <3>1 DEF Layout, Covered
    <3>3. PICK k \in 1 .. Len(W[n]) : W[n][k] = x
      BY <3>2
    <3>4. CASE n # l
      BY <1>v, <3>3, <3>4 DEF Shorn
    <3>5. CASE n = l
      <4>1. k # 1
        BY <3>1, <3>3, <3>5
      <4> DEFINE m == k - 1
      <4>2. m \in 1 .. Len(V[n]) /\ k = m + 1
        BY <1>v, <3>5, <4>1 DEF Shorn
      <4> HIDE DEF m
      <4>3. V[n][m] = W[n][m + 1]
        BY <1>v, <3>5, <4>2 DEF Shorn
      <4> QED BY <3>3, <4>2, <4>3
    <3> QED BY <3>4, <3>5
  <2> QED BY <2>1, <2>2 DEF Covered
<1>4. Linked(u, P, V, {}, {})
  <2>1. ASSUME NEW i \in DOMAIN u.ts, u.ts[i].valid PROVE Chain(u.prog, u.ts[i].prog, P[i])
    <3>1. Chain(t.prog, t.ts[i].prog, P[i]) /\ u.ts[i].prog = t.ts[i].prog /\ i \in Nat
      BY <1>s, <2>1, ShapeFacts DEF Layout, Linked, SameEntries
    <3>2. \A k \in 1 .. Len(P[i]) : u.prog[P[i][k]].next = t.prog[P[i][k]].next
      BY <1>s, <3>1, Zenon DEF SameEntries, Layout, Placed
    <3> QED BY <3>1, <3>2 DEF Chain
  <2>2. ASSUME NEW n \in Names, Owned(u, n) PROVE Strung(u, n, V[n])
    <3>1. Owned(t, n) /\ n # e /\ Strung(t, n, W[n])
      BY <1>q, <2>2 DEF Layout, Linked
    <3>0. \A k \in 1 .. Len(V[n]) : u.pid[V[n][k]].next = t.pid[V[n][k]].next
      BY <1>n
    <3>2. CASE n # l
      <4>1. HeadRec(u, n) = HeadRec(t, n) /\ V[n] = W[n]
        BY <1>v, <3>1, <3>2 DEF WithoutHead, Shorn
      <4> QED BY <3>0, <3>1, <4>1 DEF Strung, Chain
    <3>3. CASE n = l
      <4>1. HeadRec(u, l) = [head |-> t.pid[j].next, num |-> HeadRec(t, l).num - 1]
        BY DEF WithoutHead
      <4>2. Chain(t.pid, HeadRec(t, l), W[l])
        BY <3>1, <3>3 DEF Strung
      <4>3. Chain(u.pid, [head |-> t.pid[j].next, num |-> HeadRec(t, l).num - 1], V[l])
        BY <1>v, <3>0, <3>3, <4>2, ChainShorn, Zenon
      <4> QED BY <3>3, <4>1, <4>3 DEF Strung
    <3> QED BY <3>2, <3>3
  <2> QED BY <2>1, <2>2 DEF Linked
<1>5. Short(P, V)
  <2>1. ASSUME NEW n \in Names PROVE Len(V[n]) < MAX_INDEX_LIST_NUMBER
    <3>1. Len(W[n]) < MAX_INDEX_LIST_NUMBER /\ Len(W[n]) \in Nat
      BY <1>p DEF Layout, Short
    <3>2. V[n] = W[n] \/ Len(V[n]) = Len(W[n]) - 1
      BY <1>v DEF Shorn
    <3>3. MAX_INDEX_LIST_NUMBER \in Nat
      BY TableAssumption
    <3> QED BY <3>1, <3>2, <3>3
  <2> QED BY <2>1 DEF Layout, Short
<1>6. Known(u, {})
  <2>1. \A x \in DOMAIN u.pid : x # j => (u.pid[x].type = "UNKNOWN" <=> ~u.pid[x].valid)
    BY <1>s DEF Layout, Known
  <2> QED BY <1>s, <2>1 DEF Known
<1>7. Once(Nat, P)
  BY DEF Layout
<1> QED BY <1>s, <1>o, <1>1, <1>2, <1>3, <1>4, <1>5, <1>6, <1>7 DEF Layout, V

\* The tables t without the program p, the head of the list of stream i.
WithoutProg(t, u, i, p) ==
    /\ Shape(u) /\ u.pid = t.pid
    /\ DOMAIN u.prog = DOMAIN t.prog /\ u.prog[p] = ZeroProg /\ \A x \in DOMAIN t.prog : x # p => u.prog[x] = t.prog[x]
    /\ DOMAIN u.ts = DOMAIN t.ts /\ \A x \in DOMAIN t.ts : x # i => u.ts[x] = t.ts[x]
    /\ u.ts[i].valid = t.ts[i].valid /\ u.ts[i].channel = t.ts[i].channel
    /\ u.ts[i].emm = t.ts[i].emm /\ u.ts[i].other = t.ts[i].other
    /\ u.ts[i].prog = [head |-> t.prog[p].next, num |-> t.ts[i].prog.num - 1]

Without(W, l) == [W EXCEPT ![l] = << >>]

\* A layout keeps its properties when the first program of a stream, without PIDs but a PCR, leaves it.
LEMMA DropProg ==
    ASSUME NEW t, NEW P, NEW W, Layout(t, P, W, {}, {}, {}), NEW i \in Nat, P[i] # << >>,
           W[<<"ESPID", P[i][1]>>] = << >>, W[<<"PS_ECMPID", P[i][1]>>] = << >>,
           NEW u, WithoutProg(t, u, i, P[i][1])
    PROVE  Layout(u, TailOf(P, i), Without(W, <<"PCRPID", P[i][1]>>), {}, {}, {})
<1> DEFINE p == P[i][1]
           Q == TailOf(P, i)
           c == <<"PCRPID", p>>
           V == Without(W, c)
<1>p. W \in [Names -> Seq(Nat)] /\ P \in [Nat -> Seq(Nat)] /\ Once(Names, W) /\ Once(Nat, P)
  BY Zenon DEF Layout, Placed
<1>q. Shorn(Nat, P, Q, i)
  BY <1>p, TailFacts, Zenon
<1>o. Once(Nat, Q) /\ LeftOf(Nat, P, Q, p)
  BY <1>p, <1>q, OnceShorn, Zenon
<1>r. \A x \in Nat : \A k \in 1 .. Len(Q[x]) : Q[x][k] # p /\ \E m \in 1 .. Len(P[x]) : Q[x][k] = P[x][m]
  <2> HIDE DEF Q, p
  <2> QED BY <1>o DEF LeftOf
<1> HIDE DEF Q
<1>d. p \in DOMAIN t.prog /\ p \in Nat /\ i \in DOMAIN t.ts /\ t.ts[i].valid
  <2>1. 1 \in 1 .. Len(P[i])
    BY <1>q DEF Shorn
  <2> QED BY <2>1, ShapeFacts, Zenon DEF Layout, Placed
<1>c. c \in Names /\ \A n \in Names : n = <<n[1], n[2]>> /\ n[1] \in Types \ {"UNKNOWN"}
  BY <1>d DEF Names, Types
<1>v. V \in [Names -> Seq(Nat)] /\ V[c] = << >> /\ \A n \in Names : n # c => V[n] = W[n]
  <2>1. << >> \in Seq(Nat)
    OBVIOUS
  <2> HIDE DEF c
  <2> QED BY <1>p, <1>c, <2>1 DEF Without
<1> HIDE DEF V
<1>s. /\ Shape(u) /\ u.pid = t.pid
      /\ DOMAIN u.prog = DOMAIN t.prog /\ \A x \in DOMAIN t.prog : x # p => u.prog[x] = t.prog[x]
      /\ u.prog[p] = ZeroProg /\ ~u.prog[p].valid
      /\ DOMAIN u.ts = DOMAIN t.ts
      /\ \A x \in DOMAIN t.ts : u.ts[x].valid = t.ts[x].valid /\ u.ts[x].emm = t.ts[x].emm /\ u.ts[x].other = t.ts[x].other
  BY DEF WithoutProg, ZeroProg
\* The lists of p.
<1>n. ASSUME NEW n \in Names, V[n] # << >>
      PROVE  /\ W[n] = V[n] /\ n # c /\ Owned(t, n)
             /\ n[1] \in {"PCRPID", "ESPID", "PS_ECMPID"} => n[2] # p
  <2>1. n # c /\ W[n] = V[n]
    BY <1>v, <1>n, Zenon
  <2>2. n[2] = p => n[1] \notin {"PCRPID", "ESPID", "PS_ECMPID"}
    BY <1>c, <1>n, <2>1
  <2> QED BY <1>n, <2>1, <2>2, Zenon DEF Layout, Placed
<1>w. \A n \in Names : Owned(u, n) <=> Owned(t, n) /\ ~(n[1] \in {"PCRPID", "ESPID", "PS_ECMPID"} /\ n[2] = p)
  BY <1>s DEF Owned
<1>1. Placed(u, Q, V)
  <2>1. \A x \in Nat : \A k \in 1 .. Len(Q[x]) : Q[x][k] \in DOMAIN u.prog
    <3>1. \A x \in Nat : \A k \in 1 .. Len(P[x]) : P[x][k] \in DOMAIN u.prog
      BY <1>s DEF Layout, Placed
    <3> QED BY <1>r, <3>1
  <2>2. ASSUME NEW x \in Nat, Q[x] # << >> PROVE x \in DOMAIN u.ts /\ u.ts[x].valid
    <3>1. x = i \/ Q[x] = P[x]
      BY <1>q DEF Shorn
    <3>2. x \in DOMAIN t.ts /\ t.ts[x].valid
      BY <1>d, <2>2, <3>1, Zenon DEF Layout, Placed
    <3> QED BY <1>s, <3>2
  <2>3. \A n \in Names : \A k \in 1 .. Len(V[n]) : V[n][k] \in DOMAIN u.pid
    <3> SUFFICES ASSUME NEW n \in Names, NEW k \in 1 .. Len(V[n]) PROVE V[n][k] \in DOMAIN u.pid
      OBVIOUS
    <3>1. V[n] # << >>
      OBVIOUS
    <3>2. V[n] = W[n]
      BY <1>n, <3>1
    <3> QED BY <1>s, <3>2 DEF Layout, Placed
  <2>4. \A n \in Names : V[n] # << >> => Owned(u, n)
    BY <1>n, <1>w
  <2>5. Q \in [Nat -> Seq(Nat)]
    BY <1>q DEF Shorn
  <2> QED BY <1>v, <2>1, <2>2, <2>3, <2>4, <2>5, Zenon DEF Placed
<1>2. Once(Names, V)
  <2>1. SUFFICES ASSUME NEW x \in Names, NEW y \in Names, NEW k \in 1 .. Len(V[x]), NEW m \in 1 .. Len(V[y]), V[x][k] = V[y][m]
                 PROVE  x = y /\ k = m
    BY DEF Once
  <2>2. V[x] # << >> /\ V[y] # << >>
    OBVIOUS
  <2>3. V[x] = W[x] /\ V[y] = W[y]
    BY <1>n, <2>2
  <2>4. k \in 1 .. Len(W[x]) /\ m \in 1 .. Len(W[y])
    BY <2>3
  <2>5. W[x][k] = W[y][m]
    BY <2>1, <2>3
  <2>6. Once(Names, W)
    BY <1>p
  <2> QED BY <2>4, <2>5, <2>6, OnceUse
<1>3. Back(u, Q, V)
  <2>1. ASSUME NEW x \in Nat, NEW k \in 1 .. Len(Q[x]) PROVE u.prog[Q[x][k]].valid /\ u.prog[Q[x][k]].ts = x
    <3>1. Q[x][k] # p
      BY <1>r
    <3>2. PICK m \in 1 .. Len(P[x]) : Q[x][k] = P[x][m]
      BY <1>r
    <3>3. P[x][m] \in DOMAIN t.prog /\ t.prog[P[x][m]].valid /\ t.prog[P[x][m]].ts = x
      BY DEF Layout, Back, Placed
    <3>4. u.prog[Q[x][k]] = t.prog[P[x][m]]
      BY <1>s, <3>1, <3>2, <3>3
    <3> QED BY <3>3, <3>4
  <2>2. ASSUME NEW n \in Names, NEW k \in 1 .. Len(V[n])
        PROVE  u.pid[V[n][k]].type = n[1] /\ PointsBack(u, n, V[n][k])
    <3> DEFINE x == V[n][k]
    <3>0. V[n] # << >>
      OBVIOUS
    <3>1. t.pid[x].type = n[1] /\ PointsBack(t, n, x) /\ Owned(t, n)
          /\ (n[1] \in {"PCRPID", "ESPID", "PS_ECMPID"} => n[2] # p)
      BY <1>n, <3>0 DEF Layout, Back
    <3> HIDE DEF x
    <3>2. n[1] = "ES_ECMPID" => t.pid[n[2]].prog \in DOMAIN t.prog /\ t.pid[n[2]].prog # p
      <4> SUFFICES ASSUME n[1] = "ES_ECMPID"
                   PROVE t.pid[n[2]].prog \in DOMAIN t.prog /\ t.pid[n[2]].prog # p
        OBVIOUS
      <4>1. n[2] \in DOMAIN t.pid /\ t.pid[n[2]].type = "ESPID"
        BY <3>1 DEF Owned
      <4>2. t.pid[n[2]].prog \in DOMAIN t.prog
        BY <4>1, OwnersProgram
      <4>3. PICK a \in Names : \E y \in 1 .. Len(W[a]) : W[a][y] = n[2]
        BY <4>1 DEF Layout, Covered
      <4>4. PICK y \in 1 .. Len(W[a]) : W[a][y] = n[2]
        BY <4>3
      <4>5. a[1] = "ESPID" /\ PointsBack(t, a, n[2]) /\ W[a] # << >>
        BY <4>1, <4>4 DEF Layout, Back
      <4>6. t.pid[n[2]].prog = a[2] /\ a[2] # p
        BY <1>c, <4>5 DEF PointsBack
      <4> QED BY <4>2, <4>6
    <3>3. n[1] \in {"PCRPID", "ESPID", "PS_ECMPID"} => n[2] \in DOMAIN t.prog
      BY <3>1 DEF Owned
    <3>4. PointsBack(u, n, x)
      BY <1>c, <1>s, <3>1, <3>2, <3>3 DEF PointsBack, Types
    <3> QED BY <1>s, <3>1, <3>4 DEF x
  <2> QED BY <2>1, <2>2 DEF Back
<1>4. Covered(u, Q, V)
  <2>1. ASSUME NEW x \in DOMAIN u.prog, u.prog[x].valid PROVE \E y \in Nat : \E k \in 1 .. Len(Q[y]) : Q[y][k] = x
    <3>1. x # p /\ x \in DOMAIN t.prog /\ t.prog[x].valid
      BY <1>s, <2>1
    <3>2. PICK y \in Nat : \E k \in 1 .. Len(P[y]) : P[y][k] = x
      BY <3>1 DEF Layout, Covered
    <3>3. PICK k \in 1 .. Len(P[y]) : P[y][k] = x
      BY <3>2
    <3>4. CASE y # i
      BY <1>q, <3>3, <3>4, Zenon DEF Shorn
    <3>5. CASE y = i
      <4>1. k # 1
        BY <3>1, <3>3, <3>5, Zenon DEF p
      <4> DEFINE m == k - 1
      <4>2. m \in 1 .. Len(Q[y]) /\ k = m + 1
        <5>1. PICK a, b : a = Len(P[y]) /\ b = Len(Q[y])
          OBVIOUS
        <5>2. a \in Nat \ {0} /\ b = a - 1
          BY <1>q, <3>5, <5>1 DEF Shorn
        <5>3. k \in 1 .. a /\ k # 1
          BY <4>1, <5>1
        <5>4. k - 1 \in 1 .. b /\ k = (k - 1) + 1
          BY <5>2, <5>3
        <5> QED BY <5>1, <5>4
      <4> HIDE DEF m
      <4>3. Q[y][m] = P[y][m + 1]
        BY <1>q, <3>5, <4>2, Zenon DEF Shorn
      <4> QED BY <3>3, <4>2, <4>3
    <3> QED BY <3>4, <3>5
  <2>2. ASSUME NEW x \in DOMAIN u.pid, u.pid[x].type \notin {"UNKNOWN", "PCRPID"}
        PROVE  \E n \in Names : \E k \in 1 .. Len(V[n]) : V[n][k] = x
    <3>1. PICK n \in Names : \E k \in 1 .. Len(W[n]) : W[n][k] = x
      BY <1>s, <2>2 DEF Layout, Covered
    <3>2. PICK k \in 1 .. Len(W[n]) : W[n][k] = x
      BY <3>1
    <3>3. t.pid[x].type = n[1]
      BY <3>2 DEF Layout, Back
    <3>4. n # c
      BY <1>s, <2>2, <3>3
    <3> QED BY <1>v, <3>2, <3>4, Zenon
  <2> QED BY <2>1, <2>2, Zenon DEF Covered
<1>5. Linked(u, Q, V, {}, {})
  <2>1. ASSUME NEW x \in DOMAIN u.ts, u.ts[x].valid PROVE Chain(u.prog, u.ts[x].prog, Q[x])
    <3>1. Chain(t.prog, t.ts[x].prog, P[x]) /\ x \in Nat
      BY <1>s, <2>1, ShapeFacts DEF Layout, Linked
    <3>2. ASSUME NEW k \in 1 .. Len(Q[x]) PROVE u.prog[Q[x][k]].next = t.prog[Q[x][k]].next
      <4>1. PICK m \in 1 .. Len(P[x]) : Q[x][k] = P[x][m]
        BY <1>r, <3>1, Zenon
      <4>2. P[x][m] \in DOMAIN t.prog /\ Q[x][k] # p
        BY <1>r, <3>1, Zenon DEF Layout, Placed
      <4> QED BY <1>s, <4>1, <4>2
    <3>3. CASE x # i
      <4>1. Q[x] = P[x] /\ u.ts[x] = t.ts[x]
        BY <1>q, <1>s, <3>1, <3>3, Zenon DEF Shorn, WithoutProg
      <4> QED BY <3>1, <3>2, <4>1 DEF Chain
    <3>4. CASE x = i
      <4>1. Chain(u.prog, [head |-> t.prog[P[x][1]].next, num |-> t.ts[x].prog.num - 1], Q[x])
        BY <1>q, <3>1, <3>2, <3>4, ChainShorn, Zenon
      <4>2. u.ts[i].prog = [head |-> t.prog[p].next, num |-> t.ts[i].prog.num - 1]
        BY DEF WithoutProg
      <4> QED BY <3>4, <4>1, <4>2
    <3> QED BY <3>3, <3>4
  <2>2. ASSUME NEW n \in Names, Owned(u, n) PROVE Strung(u, n, V[n])
    <3>1. Owned(t, n) /\ ~(n[1] \in {"PCRPID", "ESPID", "PS_ECMPID"} /\ n[2] = p)
      BY <1>w, <2>2
    <3>2. Strung(t, n, W[n]) /\ V[n] = W[n]
      BY <1>v, <3>1 DEF Layout, Linked
    <3>3. HeadRec(u, n) = HeadRec(t, n)
      BY <1>c, <1>s, <3>1 DEF HeadRec, Owned, Types
    <3> QED BY <1>s, <3>2, <3>3 DEF Strung, Chain
  <2> QED BY <2>1, <2>2 DEF Linked
<1>6. Short(Q, V)
  <2>1. ASSUME NEW x \in Nat PROVE Len(Q[x]) < MAX_INDEX_LIST_NUMBER
    <3>0. P[x] \in Seq(Nat)
      BY <1>p
    <3>1. Len(P[x]) < MAX_INDEX_LIST_NUMBER /\ Len(P[x]) \in Nat
      BY <3>0 DEF Layout, Short
    <3>2. Q[x] = P[x] \/ Len(Q[x]) = Len(P[x]) - 1
      BY <1>q, Zenon DEF Shorn
    <3>3. MAX_INDEX_LIST_NUMBER \in Nat
      BY TableAssumption
    <3> QED BY <3>1, <3>2, <3>3
  <2>2. ASSUME NEW n \in Names PROVE Len(V[n]) < MAX_INDEX_LIST_NUMBER
    <3>1. CASE n = c
      BY <1>v, <3>1, TableAssumption
    <3>2. CASE n # c
      BY <1>v, <3>2, Zenon DEF Layout, Short
    <3> QED BY <3>1, <3>2
  <2> QED BY <2>1, <2>2 DEF Short
<1>7. Known(u, {})
  BY <1>s DEF Layout, Known
<1> QED BY <1>s, <1>o, <1>1, <1>2, <1>3, <1>4, <1>5, <1>6, <1>7 DEF Layout, V, Q

\* A stream whose lists are empty is deleted.
LEMMA DropTS ==
    ASSUME NEW t, NEW P, NEW W, Layout(t, P, W, {}, {}, {}), NEW i \in DOMAIN t.ts, P[i] = << >>,
           W[<<"EMMPID", i>>] = << >>, W[<<"OTHERPID", i>>] = << >>
    PROVE  Layout([t EXCEPT !.ts[i] = ZeroTS], P, W, {}, {}, {})
<1> DEFINE u == [t EXCEPT !.ts[i] = ZeroTS]
<1>0. PICK a \in Nat, b \in Nat, c \in Nat : t \in Tables(a, b, c)
  BY DEF Layout, Shape
<1>1. i \in 0 .. a - 1 /\ ZeroTS \in TSRec /\ i \in Nat
  <2>1. ZeroTS \in TSRec
    BY DEF ZeroTS, ZeroList, TSRec, ListRec
  <2>0. DOMAIN t.ts = 0 .. a - 1
    BY <1>0, Parts
  <2>2. i \in 0 .. a - 1
    BY <2>0
  <2> QED BY <2>1, <2>2
<1>2. u \in Tables(a, b, c) /\ u.ts = [t.ts EXCEPT ![i] = ZeroTS] /\ u.prog = t.prog /\ u.pid = t.pid
  BY <1>0, <1>1, PutTS
<1>3. t.ts \in [0 .. a - 1 -> TSRec]
  BY <1>0, Parts
<1>s. /\ DOMAIN u.ts = DOMAIN t.ts /\ u.ts[i] = ZeroTS /\ ~u.ts[i].valid
      /\ \A x \in DOMAIN t.ts : x # i => u.ts[x] = t.ts[x]
  BY <1>1, <1>2, <1>3 DEF ZeroTS
<1> HIDE DEF u
<1>4. Shape(u)
  BY <1>2 DEF Shape
<1>p. W \in [Names -> Seq(Nat)] /\ P \in [Nat -> Seq(Nat)]
  BY Zenon DEF Layout, Placed
<1>c. \A n \in Names : n = <<n[1], n[2]>> /\ n[1] \in Types \ {"UNKNOWN"}
  BY DEF Names, Types
<1>w. \A n \in Names : Owned(u, n) <=> Owned(t, n) /\ ~(n[1] \in {"EMMPID", "OTHERPID"} /\ n[2] = i)
  BY <1>s, <1>2 DEF Owned
<1>n. \A n \in Names : W[n] # << >> => ~(n[1] \in {"EMMPID", "OTHERPID"} /\ n[2] = i)
  <2> SUFFICES ASSUME NEW n \in Names, n[1] \in {"EMMPID", "OTHERPID"}, n[2] = i PROVE W[n] = << >>
    OBVIOUS
  <2>1. n = <<n[1], n[2]>>
    BY <1>c
  <2>2. n = <<"EMMPID", i>> \/ n = <<"OTHERPID", i>>
    BY <2>1
  <2> QED BY <2>2
<1>5. Placed(u, P, W)
  <2>1. \A x \in Nat : P[x] # << >> => x \in DOMAIN u.ts /\ u.ts[x].valid
    BY <1>s, Zenon DEF Layout, Placed
  <2>2. \A n \in Names : W[n] # << >> => Owned(u, n)
    <3>1. \A n \in Names : W[n] # << >> => Owned(t, n)
      BY Zenon DEF Layout, Placed
    <3> QED BY <1>w, <1>n, <3>1, Zenon
  <2> QED BY <1>2, <2>1, <2>2, Zenon DEF Layout, Placed
<1>6. Back(u, P, W)
  <2>1. u.prog = t.prog /\ u.pid = t.pid
    BY <1>2
  <2>2. Back(t, P, W)
    BY DEF Layout
  <2> HIDE DEF u
  <2> QED BY <2>1, <2>2 DEF Back, PointsBack
<1>7. Covered(u, P, W) /\ Known(u, {})
  BY <1>2 DEF Layout, Covered, Known
<1>8. Linked(u, P, W, {}, {})
  <2>1. \A x \in DOMAIN u.ts : u.ts[x].valid => Chain(u.prog, u.ts[x].prog, P[x])
    BY <1>s, <1>2 DEF Layout, Linked
  <2>2. ASSUME NEW n \in Names, Owned(u, n) PROVE Strung(u, n, W[n])
    <3>1. Owned(t, n) /\ Strung(t, n, W[n]) /\ ~(n[1] \in {"EMMPID", "OTHERPID"} /\ n[2] = i)
      BY <1>w, <2>2 DEF Layout, Linked
    <3>2. HeadRec(u, n) = HeadRec(t, n)
      BY <1>c, <1>s, <1>2, <3>1 DEF HeadRec, Owned, Types
    <3> QED BY <1>2, <3>1, <3>2 DEF Strung
  <2> QED BY <2>1, <2>2 DEF Linked
<1> QED BY <1>4, <1>5, <1>6, <1>7, <1>8 DEF Layout, u

Unlinks(g, t, seq) ==
    /\ g[0] = Ok(t)
    /\ \A k \in 1 .. Len(seq) :
        g[k] = IF g[k - 1].err = "SUCCESS" THEN UnlinkPID(g[k - 1].t, seq[k]) ELSE g[k - 1]

\* The folds of the model as functions on numbers, for each loop that a proof steps through.
LEMMA UnlinksDef ==
    ASSUME NEW t, NEW seq, Len(seq) \in Nat
    PROVE  \E g : /\ Unlinks(g, t, seq)
                  /\ ForEach(t, seq, UnlinkPID) = g[Len(seq)]
<1> DEFINE n == Len(seq)
           Fit(g, m) == g = [k \in 0 .. m |->
               IF k = 0 THEN Ok(t)
               ELSE IF g[k - 1].err = "SUCCESS" THEN UnlinkPID(g[k - 1].t, seq[k]) ELSE g[k - 1]]
           G == {m \in 0 .. n : \E g : Fit(g, m)}
<1>0. n \in Nat
  OBVIOUS
<1>1. 0 \in G
  <2> DEFINE z == [k \in 0 .. 0 |-> Ok(t)]
  <2>1. Fit(z, 0)
    OBVIOUS
  <2> HIDE DEF z, Fit
  <2> QED BY <2>1
<1>2. ASSUME NEW m \in 1 .. n, m - 1 \in G PROVE m \in G
  <2>1. PICK g : Fit(g, m - 1)
    BY <1>2
  <2> DEFINE h == [k \in 0 .. m |->
               IF k = 0 THEN Ok(t)
               ELSE IF g[k - 1].err = "SUCCESS" THEN UnlinkPID(g[k - 1].t, seq[k]) ELSE g[k - 1]]
  <2>2. \A k \in 0 .. m - 1 : h[k] = g[k]
    BY <2>1
  <2>3. Fit(h, m)
    <3>1. \A k \in 0 .. m : k # 0 => k - 1 \in 0 .. m - 1
      OBVIOUS
    <3> QED BY <2>2, <3>1, ZenonT(30)
  <2> HIDE DEF h
  <2> QED BY <2>3
<1>3. n \in G
  <2> HIDE DEF G
  <2>1. G \in SUBSET (0 .. n)
    BY DEF G
  <2> HIDE DEF n
  <2>2. \A m \in 1 .. n : m - 1 \in G => m \in G
    BY <1>2
  <2>3. \A m \in 0 .. n : m \in G
    BY <1>0, <1>1, <2>1, <2>2, Upwards, Zenon
  <2> QED BY <1>0, <2>3
<1> DEFINE after == CHOOSE after : Fit(after, n)
<1>4. Fit(after, n)
  <2> HIDE DEF Fit
  <2> QED BY <1>3
<1>5. ForEach(t, seq, UnlinkPID) = after[n]
  BY Zenon DEF ForEach, Then
<1> HIDE DEF after
<1>6. Unlinks(after, t, seq)
  BY <1>4 DEF Unlinks
<1> QED BY <1>5, <1>6

PIDListTypes == {"ESPID", "PS_ECMPID", "EMMPID", "OTHERPID"}

\* The codes of a list function.
LEMMA IndexListErr ==
    ASSUME NEW table, NEW list
    PROVE  IndexList(table, list).err \in {"SUCCESS", "ARRAY_INDEX_OUT_OF_RANGE", "TS_ERROR"}
BY DEF IndexList, Found, NotFound

\* The first element of a list of PIDs points back to the list.
LEMMA ListOfHead ==
    ASSUME NEW t, NEW P, NEW W, Layout(t, P, W, {}, {}, {}), NEW l \in Names, l[1] \in PIDListTypes, W[l] # << >>
    PROVE  LET j == W[l][1] IN
           /\ j \in DOMAIN t.pid /\ t.pid[j].type = l[1] /\ Owned(t, l) /\ Chain(t.pid, HeadRec(t, l), W[l])
           /\ ListOfPID(t, j) = IndexList(t.pid, HeadRec(t, l))
           /\ HeadOfPID(t, j) = HeadRec(t, l)
           /\ l[1] \in {"ESPID", "PS_ECMPID"} => t.pid[j].prog = l[2] /\ l[2] \in DOMAIN t.prog
           /\ l[1] \in {"EMMPID", "OTHERPID"} => t.pid[j].ts = l[2] /\ l[2] \in DOMAIN t.ts
<1> DEFINE j == W[l][1]
<1>0. W[l] \in Seq(Nat)
  BY DEF Layout, Placed
<1>1. 1 \in 1 .. Len(W[l])
  BY <1>0
<1>2. j \in DOMAIN t.pid /\ t.pid[j].type = l[1] /\ PointsBack(t, l, j) /\ Owned(t, l)
  BY <1>1, Zenon DEF Layout, Placed, Back
<1>3. Chain(t.pid, HeadRec(t, l), W[l])
  BY <1>2 DEF Layout, Linked, Strung, PIDListTypes
<1> HIDE DEF j
<1>4. CASE l[1] = "ESPID"
  <2>1. t.pid[j].prog = l[2] /\ l[2] \in DOMAIN t.prog
    BY <1>2, <1>4 DEF PointsBack, Owned
  <2>2. ListOfPID(t, j) = IndexList(t.pid, HeadRec(t, l)) /\ HeadOfPID(t, j) = HeadRec(t, l)
    BY <1>2, <1>4, <2>1 DEF ListOfPID, InProgESPIDIndexList, HeadRec, HeadOfPID
  <2> QED BY <1>2, <1>3, <1>4, <2>1, <2>2 DEF j
<1>5. CASE l[1] = "PS_ECMPID"
  <2>1. t.pid[j].prog = l[2] /\ l[2] \in DOMAIN t.prog
    BY <1>2, <1>5 DEF PointsBack, Owned
  <2>2. ListOfPID(t, j) = IndexList(t.pid, HeadRec(t, l)) /\ HeadOfPID(t, j) = HeadRec(t, l)
    BY <1>2, <1>5, <2>1 DEF ListOfPID, InProgPSECMPIDIndexList, HeadRec, HeadOfPID
  <2> QED BY <1>2, <1>3, <1>5, <2>1, <2>2 DEF j
<1>6. CASE l[1] = "EMMPID"
  <2>1. t.pid[j].ts = l[2] /\ l[2] \in DOMAIN t.ts
    BY <1>2, <1>6 DEF PointsBack, Owned
  <2>2. ListOfPID(t, j) = IndexList(t.pid, HeadRec(t, l)) /\ HeadOfPID(t, j) = HeadRec(t, l)
    BY <1>2, <1>6, <2>1 DEF ListOfPID, InTSEMMPIDIndexList, HeadRec, HeadOfPID
  <2> QED BY <1>2, <1>3, <1>6, <2>1, <2>2 DEF j
<1>7. CASE l[1] = "OTHERPID"
  <2>1. t.pid[j].ts = l[2] /\ l[2] \in DOMAIN t.ts
    BY <1>2, <1>7 DEF PointsBack, Owned
  <2>2. ListOfPID(t, j) = IndexList(t.pid, HeadRec(t, l)) /\ HeadOfPID(t, j) = HeadRec(t, l)
    BY <1>2, <1>7, <2>1 DEF ListOfPID, InTSOtherPIDIndexList, HeadRec, HeadOfPID
  <2> QED BY <1>2, <1>3, <1>7, <2>1, <2>2 DEF j
<1> QED BY <1>4, <1>5, <1>6, <1>7 DEF PIDListTypes

\* The tables t with list as the list of PIDs l, and then without the PID j.
Headed(t, u, l, list) ==
    /\ Shape(u) /\ SameEntries(t, u) /\ OwnerOnly(t, u, l) /\ u.pid = t.pid /\ HeadRec(u, l) = list
    /\ \A n \in Names : n # l /\ Owned(t, n) => HeadRec(u, n) = HeadRec(t, n)

\* The list a PID says it is in is overwritten, and nothing else.
LEMMA HeadSet ==
    ASSUME NEW t, Shape(t), NEW l \in Names, l[1] \in PIDListTypes, Owned(t, l), NEW j \in DOMAIN t.pid,
           t.pid[j].type = l[1],
           l[1] \in {"ESPID", "PS_ECMPID"} => t.pid[j].prog = l[2] /\ l[2] \in DOMAIN t.prog,
           l[1] \in {"EMMPID", "OTHERPID"} => t.pid[j].ts = l[2] /\ l[2] \in DOMAIN t.ts,
           NEW list \in ListRec
    PROVE  Headed(t, SetListOfPID(t, j, list), l, list)
<1> DEFINE u == SetListOfPID(t, j, list)
<1>0. PICK a \in Nat, b \in Nat, c \in Nat : t \in Tables(a, b, c)
  BY DEF Shape
<1>1. /\ t.ts \in [0 .. a - 1 -> TSRec] /\ DOMAIN t.ts = 0 .. a - 1
      /\ t.prog \in [0 .. b - 1 -> ProgRec] /\ DOMAIN t.prog = 0 .. b - 1
  BY <1>0, Parts
<1>2. \A n \in Names : n = <<n[1], n[2]>> /\ n[1] \in Types \ {"UNKNOWN"}
  BY NameFacts
<1>3. CASE l[1] \in {"ESPID", "PS_ECMPID"}
  <2> DEFINE e == IF l[1] = "ESPID" THEN [t.prog[l[2]] EXCEPT !.es = list] ELSE [t.prog[l[2]] EXCEPT !.psecm = list]
  <2>1. l[2] \in 0 .. b - 1 /\ t.prog[l[2]] \in ProgRec
    BY <1>1, <1>3
  <2>2. /\ e \in ProgRec /\ e.valid = t.prog[l[2]].valid /\ e.next = t.prog[l[2]].next /\ e.ts = t.prog[l[2]].ts
        /\ e.pcr = t.prog[l[2]].pcr
        /\ e.es = (IF l[1] = "ESPID" THEN list ELSE t.prog[l[2]].es)
        /\ e.psecm = (IF l[1] = "ESPID" THEN t.prog[l[2]].psecm ELSE list)
    BY <2>1, ProgFields
  <2>3. u = [t EXCEPT !.prog[l[2]] = e]
    BY <1>3, Zenon DEF SetListOfPID
  <2> HIDE DEF u, e
  <2>4. u \in Tables(a, b, c) /\ u.prog = [t.prog EXCEPT ![l[2]] = e] /\ u.ts = t.ts /\ u.pid = t.pid
    BY <1>0, <2>1, <2>2, <2>3, PutProg
  <2>5. DOMAIN u.prog = DOMAIN t.prog /\ u.prog[l[2]] = e /\ \A x \in DOMAIN t.prog : x # l[2] => u.prog[x] = t.prog[x]
    BY <1>1, <2>1, <2>4
  <2>6. SameEntries(t, u)
    BY <2>2, <2>4, <2>5 DEF SameEntries
  <2>7. HeadRec(u, l) = list
    BY <1>3, <2>2, <2>5 DEF HeadRec
  <2>8. ASSUME NEW n \in Names, n # l, Owned(t, n) PROVE HeadRec(u, n) = HeadRec(t, n)
    <3>1. n[1] # l[1] \/ n[2] # l[2]
      BY <1>2, <2>8
    <3> QED BY <1>3, <2>2, <2>4, <2>5, <2>8, <3>1 DEF HeadRec, Owned
  <2>9. Shape(u)
    BY <2>4 DEF Shape
  <2>10. OwnerOnly(t, u, l)
    BY <1>3, <2>4, <2>5 DEF OwnerOnly
  <2> QED BY <2>4, <2>6, <2>7, <2>8, <2>9, <2>10 DEF Headed, u
<1>4. CASE l[1] \in {"EMMPID", "OTHERPID"}
  <2> DEFINE e == IF l[1] = "EMMPID" THEN [t.ts[l[2]] EXCEPT !.emm = list] ELSE [t.ts[l[2]] EXCEPT !.other = list]
  <2>1. l[2] \in 0 .. a - 1 /\ t.ts[l[2]] \in TSRec
    BY <1>1, <1>4
  <2>2. /\ e \in TSRec /\ e.valid = t.ts[l[2]].valid /\ e.channel = t.ts[l[2]].channel /\ e.prog = t.ts[l[2]].prog
        /\ e.emm = (IF l[1] = "EMMPID" THEN list ELSE t.ts[l[2]].emm)
        /\ e.other = (IF l[1] = "EMMPID" THEN t.ts[l[2]].other ELSE list)
    <3>1. CASE l[1] = "EMMPID"
      <4>1. PICK x : x = t.ts[l[2]]
        OBVIOUS
      <4>2. e = [x EXCEPT !.emm = list] /\ x \in TSRec
        BY <2>1, <3>1, <4>1
      <4> HIDE DEF e
      <4>3. /\ e \in TSRec /\ e.valid = x.valid /\ e.channel = x.channel /\ e.prog = x.prog
            /\ e.emm = list /\ e.other = x.other
        BY <4>2, TSFields, Zenon
      <4> QED BY <3>1, <4>1, <4>3
    <3>2. CASE l[1] # "EMMPID"
      <4>1. PICK x : x = t.ts[l[2]]
        OBVIOUS
      <4>2. e = [x EXCEPT !.other = list] /\ x \in TSRec
        BY <2>1, <3>2, <4>1
      <4> HIDE DEF e
      <4>3. /\ e \in TSRec /\ e.valid = x.valid /\ e.channel = x.channel /\ e.prog = x.prog
            /\ e.other = list /\ e.emm = x.emm
        BY <4>2, TSFields, Zenon
      <4> QED BY <3>2, <4>1, <4>3
    <3> QED BY <3>1, <3>2
  <2>3. u = [t EXCEPT !.ts[l[2]] = e]
    BY <1>4, Zenon DEF SetListOfPID
  <2> HIDE DEF u, e
  <2>4. u \in Tables(a, b, c) /\ u.ts = [t.ts EXCEPT ![l[2]] = e] /\ u.prog = t.prog /\ u.pid = t.pid
    <3>1. PICK y : y = l[2]
      OBVIOUS
    <3>2. y \in 0 .. a - 1 /\ e \in TSRec /\ u = [t EXCEPT !.ts[y] = e]
      BY <2>1, <2>2, <2>3, <3>1, Zenon
    <3>3. u \in Tables(a, b, c) /\ u.ts = [t.ts EXCEPT ![y] = e] /\ u.prog = t.prog /\ u.pid = t.pid
      BY <1>0, <3>2, Zenon DEF Tables
    <3> QED BY <3>1, <3>3, Zenon
  <2>5. DOMAIN u.ts = DOMAIN t.ts /\ u.ts[l[2]] = e /\ \A x \in DOMAIN t.ts : x # l[2] => u.ts[x] = t.ts[x]
    BY <1>1, <2>1, <2>4
  <2>6. SameEntries(t, u)
    BY <2>2, <2>4, <2>5 DEF SameEntries
  <2>7. HeadRec(u, l) = list
    BY <1>4, <2>2, <2>5 DEF HeadRec
  <2>8. ASSUME NEW n \in Names, n # l, Owned(t, n) PROVE HeadRec(u, n) = HeadRec(t, n)
    <3>1. n[1] # l[1] \/ n[2] # l[2]
      BY <1>2, <2>8
    <3> QED BY <1>4, <2>2, <2>4, <2>5, <2>8, <3>1 DEF HeadRec, Owned
  <2>9. Shape(u)
    BY <2>4 DEF Shape
  <2>10. OwnerOnly(t, u, l)
    BY <1>4, <2>4, <2>5 DEF OwnerOnly
  <2> QED BY <2>4, <2>6, <2>7, <2>8, <2>9, <2>10 DEF Headed, u
<1> QED BY <1>3, <1>4 DEF PIDListTypes

\* The tables v without the PID j.
Zeroed(v, u, j) ==
    /\ Shape(u) /\ DOMAIN u.pid = DOMAIN v.pid /\ u.pid[j] = ZeroPID /\ \A x \in DOMAIN v.pid : x # j => u.pid[x] = v.pid[x]
    /\ u.ts = v.ts /\ u.prog = v.prog

\* A PID entry is cleared, and nothing else.
LEMMA ZeroedPID ==
    ASSUME NEW v, Shape(v), NEW j \in DOMAIN v.pid
    PROVE  Zeroed(v, [v EXCEPT !.pid[j] = ZeroPID], j)
<1>1. PICK a \in Nat, b \in Nat, c \in Nat : v \in Tables(a, b, c)
  BY DEF Shape
<1>2. v.pid \in [0 .. c - 1 -> PIDRec] /\ DOMAIN v.pid = 0 .. c - 1
  BY <1>1, Parts
<1>3. ZeroPID \in PIDRec
  BY DEF ZeroPID, ZeroList, PIDRec, ListRec, Types
<1>4. j \in 0 .. c - 1
  BY <1>2
<1> DEFINE u == [v EXCEPT !.pid[j] = ZeroPID]
<1>5. u \in Tables(a, b, c) /\ u.pid = [v.pid EXCEPT ![j] = ZeroPID] /\ u.ts = v.ts /\ u.prog = v.prog
  BY <1>1, <1>3, <1>4, PutPID
<1> HIDE DEF u
<1>6. DOMAIN u.pid = DOMAIN v.pid /\ u.pid[j] = ZeroPID /\ \A x \in DOMAIN v.pid : x # j => u.pid[x] = v.pid[x]
  BY <1>2, <1>4, <1>5
<1>7. Zeroed(v, u, j)
  BY <1>5, <1>6 DEF Zeroed, Shape
<1> QED BY <1>7 DEF u

\* UnlinkPID takes the first PID off its list, or reports an error and changes nothing.
LEMMA UnlinkHead ==
    ASSUME NEW t, NEW P, NEW W, Layout(t, P, W, {}, {}, {}), NEW l \in Names, l[1] \in PIDListTypes, W[l] # << >>
    PROVE  LET r == UnlinkPID(t, W[l][1]) IN
           \/ r.err # "SUCCESS" /\ r.t = t
           \/ r.err = "SUCCESS" /\ WithoutHead(t, r.t, l, W[l][1])
<1> DEFINE j == W[l][1]
           L == IndexList(t.pid, HeadRec(t, l))
           prev == Prev(L, j)
           r == UnlinkPID(t, j)
           list == [head |-> t.pid[j].next, num |-> HeadRec(t, l).num - 1]
           v == SetListOfPID(t, j, list)
<1>1. /\ j \in DOMAIN t.pid /\ t.pid[j].type = l[1] /\ Owned(t, l) /\ Chain(t.pid, HeadRec(t, l), W[l])
      /\ ListOfPID(t, j) = L /\ HeadOfPID(t, j) = HeadRec(t, l)
      /\ l[1] \in {"ESPID", "PS_ECMPID"} => t.pid[j].prog = l[2] /\ l[2] \in DOMAIN t.prog
      /\ l[1] \in {"EMMPID", "OTHERPID"} => t.pid[j].ts = l[2] /\ l[2] \in DOMAIN t.ts
  BY ListOfHead
<1>w. W[l] \in Seq(Nat) /\ \A k \in 1 .. Len(W[l]) : W[l][k] \in DOMAIN t.pid
  BY DEF Layout, Placed
<1>s. W[l] \in Seq(DOMAIN t.pid)
  BY <1>w, SeqIn
<1>2. L.err \in {"ARRAY_INDEX_OUT_OF_RANGE", "TS_ERROR"} \/ L = Found(W[l])
  <2>1. L.err \in {"SUCCESS", "ARRAY_INDEX_OUT_OF_RANGE", "TS_ERROR"}
    BY IndexListErr
  <2>2. L.err = "SUCCESS" => L = Found(W[l])
    BY <1>s, <1>1, IndexListFinds
  <2> QED BY <2>1, <2>2
<1>3. r = Unlink(t, j, prev)
  BY <1>1 DEF UnlinkPID, GetPrevPIDIndex, PIDListTypes
<1>4. CASE L.err \in {"ARRAY_INDEX_OUT_OF_RANGE", "TS_ERROR"}
  <2>1. prev.err \in {"ARRAY_INDEX_OUT_OF_RANGE", "TS_ERROR"}
    BY <1>4 DEF Prev
  <2>2. r.err # "SUCCESS" /\ r.t = t
    <3> HIDE DEF prev, r
    <3> QED BY <1>3, <2>1, Zenon DEF Unlink, Err
  <2> QED BY <2>2
<1>5. CASE L = Found(W[l])
  <2>1. prev.err = "NOT_EXIST"
    <3>1. Contains(W[l], j) /\ Head(W[l]) = j
      <4>1. 1 \in 1 .. Len(W[l])
        BY <1>w
      <4> QED BY <1>w, <4>1 DEF Contains
    <3> HIDE DEF j, L
    <3> QED BY <1>5, <3>1 DEF Prev, Found, NotFound
  <2>2. r = Ok([v EXCEPT !.pid[j] = ZeroPID])
    <3>1. Shorter(HeadRec(t, l), prev, t.pid[j].next) = list
      <4> HIDE DEF prev
      <4> QED BY <2>1 DEF Shorter
    <3> HIDE DEF prev, r, list, j
    <3> QED BY <1>1, <1>3, <2>1, <3>1 DEF Unlink
  <2>3. list \in ListRec
    <3>1. t.pid[j] \in PIDRec
      BY <1>1, ShapeFacts DEF Layout
    <3>2. HeadRec(t, l).num = Len(W[l]) /\ Len(W[l]) \in Nat \ {0}
      BY <1>1, <1>w DEF Chain
    <3>3. t.pid[j].next \in Nat
      BY <3>1 DEF PIDRec
    <3>4. HeadRec(t, l).num - 1 \in Nat
      BY <3>2
    <3> HIDE DEF j
    <3> QED BY <3>3, <3>4 DEF ListRec
  <2>4. Headed(t, v, l, list)
    <3>1. Shape(t)
      BY DEF Layout
    <3> HIDE DEF list, j
    <3> QED BY <1>1, <2>3, <3>1, HeadSet
  <2> HIDE DEF v
  <2>5. WithoutHead(t, [v EXCEPT !.pid[j] = ZeroPID], l, j)
    <3> DEFINE u == [v EXCEPT !.pid[j] = ZeroPID]
    <3>2. v.pid = t.pid /\ SameEntries(t, v) /\ OwnerOnly(t, v, l) /\ HeadRec(v, l) = list /\ Shape(v)
          /\ \A n \in Names : n # l /\ Owned(t, n) => HeadRec(v, n) = HeadRec(t, n)
      BY <2>4 DEF Headed
    <3>5. j \in DOMAIN v.pid
      BY <1>1, <3>2
    <3> HIDE DEF j, list
    <3>6. Zeroed(v, u, j)
      BY <3>2, <3>5, ZeroedPID
    <3> HIDE DEF u
    <3>7. DOMAIN u.pid = DOMAIN t.pid /\ u.pid[j] = ZeroPID /\ (\A x \in DOMAIN t.pid : x # j => u.pid[x] = t.pid[x])
          /\ u.ts = v.ts /\ u.prog = v.prog /\ Shape(u)
      BY <3>2, <3>6 DEF Zeroed
    <3>8. Shape(u) /\ SameEntries(t, u) /\ OwnerOnly(t, u, l)
      BY <3>2, <3>7 DEF SameEntries, OwnerOnly
    <3>9. HeadRec(u, l) = list
      BY <3>2, <3>7 DEF HeadRec, PIDListTypes
    <3>10. ASSUME NEW n \in Names, n # l, n # <<"ES_ECMPID", j>>, Owned(t, n) PROVE HeadRec(u, n) = HeadRec(t, n)
      <4>1. n = <<n[1], n[2]>>
        BY NameFacts
      <4>2. HeadRec(v, n) = HeadRec(t, n)
        BY <3>2, <3>10
      <4>3. n[1] = "ES_ECMPID" => n[2] # j /\ n[2] \in DOMAIN t.pid
        BY <3>10, <4>1 DEF Owned
      <4>4. HeadRec(u, n) = HeadRec(v, n)
        BY <3>2, <3>7, <4>3 DEF HeadRec
      <4> QED BY <4>2, <4>4
    <3> QED BY <3>7, <3>8, <3>9, <3>10 DEF WithoutHead, list, u
  <2> HIDE DEF r
  <2>6. r.err = "SUCCESS" /\ r.t = [v EXCEPT !.pid[j] = ZeroPID]
    BY <2>2 DEF Ok
  <2> QED BY <2>5, <2>6 DEF r
<1> QED BY <1>2, <1>4, <1>5

PIDsDeleted(g, t, seq) ==
    /\ g[0] = Ok(t)
    /\ \A k \in 1 .. Len(seq) :
        g[k] = IF g[k - 1].err = "SUCCESS" THEN DelInputPID(g[k - 1].t, seq[k]) ELSE g[k - 1]

\* Deleting PIDs in turn.
LEMMA PIDsDeletedDef ==
    ASSUME NEW t, NEW seq, Len(seq) \in Nat
    PROVE  \E g : /\ PIDsDeleted(g, t, seq)
                  /\ ForEach(t, seq, DelInputPID) = g[Len(seq)]
<1> DEFINE n == Len(seq)
           Fit(g, m) == g = [k \in 0 .. m |->
               IF k = 0 THEN Ok(t)
               ELSE IF g[k - 1].err = "SUCCESS" THEN DelInputPID(g[k - 1].t, seq[k]) ELSE g[k - 1]]
           G == {m \in 0 .. n : \E g : Fit(g, m)}
<1>0. n \in Nat
  OBVIOUS
<1>1. 0 \in G
  <2> DEFINE z == [k \in 0 .. 0 |-> Ok(t)]
  <2>1. Fit(z, 0)
    OBVIOUS
  <2> HIDE DEF z, Fit
  <2> QED BY <2>1
<1>2. ASSUME NEW m \in 1 .. n, m - 1 \in G PROVE m \in G
  <2>1. PICK g : Fit(g, m - 1)
    BY <1>2
  <2> DEFINE h == [k \in 0 .. m |->
               IF k = 0 THEN Ok(t)
               ELSE IF g[k - 1].err = "SUCCESS" THEN DelInputPID(g[k - 1].t, seq[k]) ELSE g[k - 1]]
  <2>2. \A k \in 0 .. m - 1 : h[k] = g[k]
    BY <2>1
  <2>3. Fit(h, m)
    <3>1. \A k \in 0 .. m : k # 0 => k - 1 \in 0 .. m - 1
      OBVIOUS
    <3> QED BY <2>2, <3>1, ZenonT(30)
  <2> HIDE DEF h
  <2> QED BY <2>3
<1>3. n \in G
  <2> HIDE DEF G
  <2>1. G \in SUBSET (0 .. n)
    BY DEF G
  <2> HIDE DEF n
  <2>2. \A m \in 1 .. n : m - 1 \in G => m \in G
    BY <1>2
  <2>3. \A m \in 0 .. n : m \in G
    BY <1>0, <1>1, <2>1, <2>2, Upwards, Zenon
  <2> QED BY <1>0, <2>3
<1> DEFINE after == CHOOSE after : Fit(after, n)
<1>4. Fit(after, n)
  <2> HIDE DEF Fit
  <2> QED BY <1>3
<1>5. ForEach(t, seq, DelInputPID) = after[n]
  BY Zenon DEF ForEach, Then
<1> HIDE DEF after
<1>6. PIDsDeleted(after, t, seq)
  BY <1>4 DEF PIDsDeleted
<1> QED BY <1>5, <1>6

\* The ECMs of elementary streams have no owner: they were copied.
Orphans(t) ==
    \A j \in DOMAIN t.pid : t.pid[j].type = "ES_ECMPID" =>
        t.pid[j].owner = INDEX_INVALID_VALUE /\ t.pid[j].owner \notin DOMAIN t.pid

\* A PID that knows no owner, as every ECM that was copied, cannot be unlinked.
LEMMA UnlinkOrphan ==
    ASSUME NEW t, NEW j, t.pid[j].type = "ES_ECMPID", t.pid[j].owner \notin DOMAIN t.pid
    PROVE  UnlinkPID(t, j) = Err("INPUT_PARAM", t)
<1>1. ListOfPID(t, j) = NotFound("INPUT_PARAM")
  BY DEF ListOfPID, InPIDESECMPIDIndexList
<1>2. GetPrevPIDIndex(t, j) = NotFound("INPUT_PARAM")
  BY <1>1 DEF GetPrevPIDIndex, Prev, NotFound
<1>3. UnlinkPID(t, j) = Unlink(t, j, NotFound("INPUT_PARAM"))
  BY <1>2 DEF UnlinkPID
<1> QED BY <1>3 DEF Unlink, NotFound

\* So the list of the ECMs of a stream cannot be deleted when there is one.
LEMMA UnlinkOrphans ==
    ASSUME NEW t, NEW s \in Seq(Nat), \A k \in 1 .. Len(s) : UnlinkPID(t, s[k]) = Err("INPUT_PARAM", t)
    PROVE  ForEach(t, s, UnlinkPID) = IF s = << >> THEN Ok(t) ELSE Err("INPUT_PARAM", t)
<1>0. Len(s) \in Nat /\ (s = << >> <=> Len(s) = 0)
  OBVIOUS
<1>1. PICK g : Unlinks(g, t, s) /\ ForEach(t, s, UnlinkPID) = g[Len(s)]
  BY <1>0, UnlinksDef
<1> DEFINE G == {k \in 0 .. Len(s) : k = 0 \/ g[k] = Err("INPUT_PARAM", t)}
<1>2. 0 \in G /\ G \in SUBSET (0 .. Len(s))
  BY <1>0
<1>3. ASSUME NEW k \in 1 .. Len(s), k - 1 \in G PROVE k \in G
  <2>1. g[k] = IF g[k - 1].err = "SUCCESS" THEN UnlinkPID(g[k - 1].t, s[k]) ELSE g[k - 1]
    BY <1>1 DEF Unlinks
  <2>2. CASE k = 1
    <3>1. g[k - 1] = Ok(t)
      BY <1>1, <2>2 DEF Unlinks
    <3>2. g[k] = UnlinkPID(t, s[k])
      BY <2>1, <3>1 DEF Ok
    <3> QED BY <3>2
  <2>3. CASE k # 1
    <3>1. g[k - 1] = Err("INPUT_PARAM", t)
      BY <1>3, <2>3
    <3> QED BY <2>1, <3>1 DEF Err
  <2> QED BY <2>2, <2>3
<1>4. \A k \in 0 .. Len(s) : k \in G
  <2> HIDE DEF G
  <2>1. \A k \in 1 .. Len(s) : k - 1 \in G => k \in G
    BY <1>3
  <2> QED BY <1>0, <1>2, <2>1, Upwards, Zenon
<1>5. s # << >> => g[Len(s)] = Err("INPUT_PARAM", t)
  BY <1>0, <1>4
<1>6. s = << >> => g[Len(s)] = Ok(t)
  BY <1>0, <1>1 DEF Unlinks
<1> QED BY <1>1, <1>5, <1>6

\* The first PID of a list is deleted, or the deletion fails and changes nothing.
HeadDeleted(t, r, W, l, j) ==
    \/ r.err # "SUCCESS" /\ r.t = t
    \/ r.err = "SUCCESS" /\ WithoutHead(t, r.t, l, j) /\ W[<<"ES_ECMPID", j>>] = << >>

\* DelInputPID removes the first PID of a list and no more, or reports an error with the tables still sound.
LEMMA DelHead ==
    ASSUME NEW t, NEW P, NEW W, Layout(t, P, W, {}, {}, {}), Orphans(t),
           NEW l \in Names, l[1] \in PIDListTypes, W[l] # << >>
    PROVE  HeadDeleted(t, DelInputPID(t, W[l][1]), W, l, W[l][1])
<1> DEFINE j == W[l][1]
           e == <<"ES_ECMPID", j>>
           r == DelInputPID(t, j)
           L == InPIDESECMPIDIndexList(t, j)
<1>0. j \in DOMAIN t.pid /\ j \in Nat /\ t.pid[j].type = l[1]
  <2>1. j \in DOMAIN t.pid /\ t.pid[j].type = l[1]
    BY ListOfHead
  <2> QED BY <2>1, ShapeFacts DEF Layout
<1>e. e \in Names
  BY <1>0 DEF Names, Types
<1>1. \/ UnlinkPID(t, j).err # "SUCCESS" /\ UnlinkPID(t, j).t = t
      \/ UnlinkPID(t, j).err = "SUCCESS" /\ WithoutHead(t, UnlinkPID(t, j).t, l, j)
  BY UnlinkHead
<1>w. W[e] \in Seq(Nat) /\ \A k \in 1 .. Len(W[e]) : W[e][k] \in DOMAIN t.pid /\ t.pid[W[e][k]].type = "ES_ECMPID"
  <2>1. W[e] \in Seq(Nat) /\ \A k \in 1 .. Len(W[e]) : W[e][k] \in DOMAIN t.pid
    BY <1>e, Zenon DEF Layout, Placed
  <2>2. \A k \in 1 .. Len(W[e]) : t.pid[W[e][k]].type = e[1]
    BY <1>e DEF Layout, Back
  <2> QED BY <2>1, <2>2, Zenon
<1>2. CASE l[1] # "ESPID"
  <2>1. W[e] = << >>
    <3>1. ~Owned(t, e)
      BY <1>0, <1>2 DEF Owned
    <3> QED BY <1>e, <3>1 DEF Layout, Placed
  <2>2. r = UnlinkPID(t, j)
    BY <1>0, <1>2 DEF DelInputPID, Then, Ok
  <2> HIDE DEF r
  <2>3. HeadDeleted(t, r, W, l, j)
    BY <1>1, <2>1, <2>2 DEF HeadDeleted
  <2> QED BY <2>3 DEF r
<1>3. CASE l[1] = "ESPID"
  <2>1. r = Then(OnList(t, L, LAMBDA ecms : ForEach(t, ecms, UnlinkPID)), LAMBDA u : UnlinkPID(u, j))
    BY <1>0, <1>3, Zenon DEF DelInputPID
  <2>2. L = IndexList(t.pid, HeadRec(t, e))
    BY <1>0 DEF InPIDESECMPIDIndexList, HeadRec
  <2>3. Chain(t.pid, HeadRec(t, e), W[e])
    <3>1. Owned(t, e)
      BY <1>0, <1>3 DEF Owned
    <3> QED BY <1>e, <3>1 DEF Layout, Linked, Strung
  <2>4. W[e] \in Seq(DOMAIN t.pid)
    <3> HIDE DEF e
    <3> QED BY <1>w, SeqIn, Zenon
  <2>5. CASE L.err # "SUCCESS"
    <3>1. r = Err(L.err, t)
      BY <2>1, <2>5 DEF OnList, Then, Err
    <3> HIDE DEF r
    <3>2. HeadDeleted(t, r, W, l, j)
      BY <2>5, <3>1 DEF HeadDeleted, Err
    <3> QED BY <3>2 DEF r
  <2>6. CASE L.err = "SUCCESS"
    <3>1. L = Found(W[e])
      BY <2>2, <2>3, <2>4, <2>6, IndexListFinds
    <3>2. r = Then(ForEach(t, W[e], UnlinkPID), LAMBDA u : UnlinkPID(u, j))
      <4> HIDE DEF r, e, L
      <4> QED BY <2>1, <3>1 DEF OnList, Found
    <3>3. \A k \in 1 .. Len(W[e]) : UnlinkPID(t, W[e][k]) = Err("INPUT_PARAM", t)
      <4> HIDE DEF e
      <4> QED BY <1>w, UnlinkOrphan DEF Orphans
    <3>4. ForEach(t, W[e], UnlinkPID) = IF W[e] = << >> THEN Ok(t) ELSE Err("INPUT_PARAM", t)
      <4> HIDE DEF e
      <4> QED BY <1>w, <3>3, UnlinkOrphans, Zenon
    <3>5. W[e] = << >> => r = UnlinkPID(t, j)
      <4> HIDE DEF r, e
      <4> QED BY <3>2, <3>4 DEF Then, Ok
    <3>6. W[e] # << >> => r = Err("INPUT_PARAM", t)
      <4> HIDE DEF r, e
      <4> QED BY <3>2, <3>4 DEF Then, Err
    <3> HIDE DEF r
    <3>7. HeadDeleted(t, r, W, l, j)
      BY <1>1, <3>5, <3>6 DEF HeadDeleted, Err
    <3> QED BY <3>7 DEF r
  <2> QED BY <2>5, <2>6
<1> QED BY <1>2, <1>3

\* The head of a list of stream i is a PID of stream i.
LEMMA HeadApart ==
    ASSUME NEW t, NEW P, NEW W, Layout(t, P, W, {}, {}, {}), NEW l \in Names, l[1] \in PIDListTypes, W[l] # << >>,
           NEW i, Within(t, l, i), NEW u, WithoutHead(t, u, l, W[l][1])
    PROVE  Apart(t, u, i)
<1>1. PICK j : j = W[l][1]
  OBVIOUS
<1>2. 1 \in 1 .. Len(W[l])
  <2>1. W[l] \in Seq(Nat)
    BY DEF Layout, Placed
  <2> QED BY <2>1
<1>3. PointsBack(t, l, j)
  BY <1>1, <1>2 DEF Layout, Back
<1>4. t.pid[j].ts = i
  BY <1>3 DEF PointsBack, Within, PIDListTypes
<1>5. /\ OwnerOnly(t, u, l) /\ DOMAIN u.pid = DOMAIN t.pid
      /\ \A x \in DOMAIN t.pid : x # j => u.pid[x] = t.pid[x]
  BY <1>1 DEF WithoutHead
<1> QED BY <1>4, <1>5 DEF Apart, OwnerOnly, Within

\* The tables u come from t, where only the list of PIDs l has lost elements.
Reduced(t, u, P, W, V, l) ==
    /\ Layout(u, P, V, {}, {}, {}) /\ SameEntries(t, u) /\ Orphans(u)
    /\ \A n \in Names : n # l => V[n] = W[n]
    /\ \A i : Within(t, l, i) => Apart(t, u, i)

\* A list that loses nothing.
LEMMA NotReduced ==
    ASSUME NEW t, NEW P, NEW W, Layout(t, P, W, {}, {}, {}), Orphans(t), NEW l
    PROVE  Reduced(t, t, P, W, W, l)
<1>1. SameEntries(t, t) /\ \A i : Apart(t, t, i)
  BY DEF SameEntries, Apart
<1> QED BY <1>1 DEF Reduced

\* v is s without its first k elements.
Rest(v, s, k) == Len(v) = Len(s) - k /\ \A m \in 1 .. Len(v) : v[m] = s[k + m]

\* Once it has succeeded the list is shorter by one and nothing else is changed.
LEMMA DelHeadReduces ==
    ASSUME NEW t, NEW P, NEW W, Layout(t, P, W, {}, {}, {}), Orphans(t),
           NEW l \in Names, l[1] \in PIDListTypes, W[l] # << >>,
           DelInputPID(t, W[l][1]).err = "SUCCESS"
    PROVE  Reduced(t, DelInputPID(t, W[l][1]).t, P, W, TailOf(W, l), l)
<1> DEFINE j == W[l][1]
           V == TailOf(W, l)
<1>0. PICK u : u = DelInputPID(t, j).t
  OBVIOUS
<1>1. WithoutHead(t, u, l, j) /\ W[<<"ES_ECMPID", j>>] = << >>
  BY <1>0, DelHead DEF HeadDeleted
<1>2. Layout(u, P, V, {}, {}, {})
  BY <1>1, DropHead DEF PIDListTypes
<1>3. SameEntries(t, u)
  BY <1>1 DEF WithoutHead
<1>4. Orphans(u)
  <2> HIDE DEF j
  <2>1. \A x \in DOMAIN u.pid : u.pid[x] = t.pid[x] \/ u.pid[x].type = "UNKNOWN"
    BY <1>1 DEF WithoutHead, ZeroPID
  <2>2. DOMAIN u.pid = DOMAIN t.pid
    BY <1>1 DEF WithoutHead
  <2> QED BY <2>1, <2>2 DEF Orphans
<1>5. \A n \in Names : n # l => V[n] = W[n]
  <2>1. W \in [Names -> Seq(Nat)]
    BY DEF Layout, Placed
  <2>2. Shorn(Names, W, V, l)
    BY <2>1, TailFacts
  <2> HIDE DEF V
  <2> QED BY <2>2 DEF Shorn
<1>6. \A i : Within(t, l, i) => Apart(t, u, i)
  BY <1>1, HeadApart
<1> HIDE DEF V
<1> QED BY <1>0, <1>2, <1>3, <1>4, <1>5, <1>6 DEF Reduced, V

\* One list is shortened, and again.
LEMMA ReducedOn ==
    ASSUME NEW t, NEW u, NEW w, NEW P, NEW W, NEW V, NEW X, NEW l,
           Reduced(t, u, P, W, V, l), Reduced(u, w, P, V, X, l)
    PROVE  Reduced(t, w, P, W, X, l)
<1>1. SameEntries(t, w)
  BY DEF Reduced, SameEntries
<1>2. ASSUME NEW i, Within(t, l, i) PROVE Apart(t, w, i)
  <2>1. Within(u, l, i)
    BY <1>2 DEF Reduced, SameEntries, Within
  <2> QED BY <1>2, <2>1, ApartOn DEF Reduced
<1> QED BY <1>1, <1>2 DEF Reduced

DeletedTo(t, P, W, l, k, r) ==
    \E V : /\ Reduced(t, r.t, P, W, V, l)
           /\ r.err = "SUCCESS" => Rest(V[l], W[l], k)

\* The k-th PID of a list is its first when those before it are deleted.
LEMMA DelEachStep ==
    ASSUME NEW t, NEW P, NEW W, NEW l \in Names, l[1] \in PIDListTypes, W[l] \in Seq(Nat),
           NEW k \in 1 .. Len(W[l]), NEW r, DeletedTo(t, P, W, l, k - 1, r), r.err = "SUCCESS"
    PROVE  DeletedTo(t, P, W, l, k, DelInputPID(r.t, W[l][k]))
<1>1. PICK V : Reduced(t, r.t, P, W, V, l) /\ Rest(V[l], W[l], k - 1)
  BY DEF DeletedTo
<1>2. PICK u : u = r.t
  OBVIOUS
<1>3. Layout(u, P, V, {}, {}, {}) /\ Orphans(u)
  BY <1>1, <1>2 DEF Reduced
<1>4. V \in [Names -> Seq(Nat)]
  BY <1>3 DEF Layout, Placed
<1>v. V[l] \in Seq(Nat)
  BY <1>4
<1>5. Len(V[l]) = Len(W[l]) - (k - 1) /\ 1 \in 1 .. Len(V[l])
  BY <1>1 DEF Rest
<1>6. V[l][1] = W[l][k] /\ V[l] # << >>
  <2>1. V[l][1] = W[l][k - 1 + 1]
    BY <1>1, <1>5 DEF Rest
  <2>2. k - 1 + 1 = k
    OBVIOUS
  <2>3. V[l] # << >>
    BY <1>v, <1>5
  <2> QED BY <2>1, <2>2, <2>3
<1>7. PICK q : q = DelInputPID(u, V[l][1])
  OBVIOUS
<1>8. CASE q.err # "SUCCESS"
  <2>1. q.t = u
    BY <1>3, <1>6, <1>7, <1>8, DelHead, Zenon DEF HeadDeleted
  <2> QED BY <1>1, <1>2, <1>6, <1>7, <1>8, <2>1 DEF DeletedTo
<1>9. CASE q.err = "SUCCESS"
  <2>1. Reduced(u, q.t, P, V, TailOf(V, l), l)
    BY <1>3, <1>6, <1>7, <1>9, DelHeadReduces
  <2>2. PICK X : X = TailOf(V, l)
    OBVIOUS
  <2>3. Reduced(t, q.t, P, W, X, l)
    BY <1>1, <1>2, <2>1, <2>2, ReducedOn
  <2>4. Shorn(Names, V, X, l)
    BY <1>4, <1>6, <2>2, TailFacts, Zenon
  <2>5. Rest(X[l], W[l], k)
    <3>1. Len(X[l]) = Len(W[l]) - k
      BY <1>5, <2>4 DEF Shorn
    <3>2. ASSUME NEW m \in 1 .. Len(X[l]) PROVE X[l][m] = W[l][k + m]
      <4>1. m + 1 \in 1 .. Len(V[l]) /\ X[l][m] = V[l][m + 1]
        BY <2>4 DEF Shorn
      <4>2. V[l][m + 1] = W[l][k - 1 + (m + 1)]
        BY <1>1, <4>1 DEF Rest
      <4>3. k - 1 + (m + 1) = k + m
        BY <3>1
      <4> QED BY <4>1, <4>2, <4>3
    <3> QED BY <3>1, <3>2 DEF Rest
  <2> QED BY <1>2, <1>6, <1>7, <2>3, <2>5 DEF DeletedTo
<1> QED BY <1>8, <1>9

\* The PIDs of a list are deleted one after the other, up to the first error.
LEMMA DelEach ==
    ASSUME NEW t, NEW P, NEW W, Layout(t, P, W, {}, {}, {}), Orphans(t),
           NEW l \in Names, l[1] \in PIDListTypes
    PROVE  DeletedTo(t, P, W, l, Len(W[l]), ForEach(t, W[l], DelInputPID))
<1> DEFINE s == W[l]
<1>s. W[l] \in Seq(Nat)
  BY DEF Layout, Placed
<1>0. Len(s) \in Nat
  BY <1>s
<1>1. PICK g : PIDsDeleted(g, t, s) /\ ForEach(t, s, DelInputPID) = g[Len(s)]
  BY <1>0, PIDsDeletedDef
<1> DEFINE G == {k \in 0 .. Len(s) : DeletedTo(t, P, W, l, k, g[k])}
<1>2. 0 \in G
  <2>1. Reduced(t, t, P, W, W, l)
    BY NotReduced
  <2>2. Rest(W[l], W[l], 0)
    BY <1>s DEF Rest
  <2>3. g[0] = Ok(t)
    BY <1>1 DEF PIDsDeleted
  <2>4. DeletedTo(t, P, W, l, 0, g[0])
    BY <2>1, <2>2, <2>3 DEF DeletedTo, Ok
  <2> QED BY <1>0, <2>4
<1>3. ASSUME NEW k \in 1 .. Len(s), k - 1 \in G PROVE k \in G
  <2>0. DeletedTo(t, P, W, l, k - 1, g[k - 1])
    BY <1>3
  <2>1. g[k] = IF g[k - 1].err = "SUCCESS" THEN DelInputPID(g[k - 1].t, s[k]) ELSE g[k - 1]
    BY <1>1 DEF PIDsDeleted
  <2>2. CASE g[k - 1].err = "SUCCESS"
    BY <1>s, <2>0, <2>1, <2>2, DelEachStep
  <2>3. CASE g[k - 1].err # "SUCCESS"
    BY <2>0, <2>1, <2>3 DEF DeletedTo
  <2> QED BY <2>2, <2>3
<1>4. \A k \in 0 .. Len(s) : k \in G
  <2> HIDE DEF G
  <2>1. \A k \in 1 .. Len(s) : k - 1 \in G => k \in G
    BY <1>3
  <2>2. G \in SUBSET (0 .. Len(s))
    BY DEF G
  <2> QED BY <1>0, <1>2, <2>1, <2>2, Upwards, Zenon
<1>5. Len(s) \in G
  BY <1>0, <1>4
<1> QED BY <1>1, <1>5

\* A list of PIDs is deleted, or the deletion fails on the way.
Cleared(t, r, P, W, l) ==
    \E V : /\ Reduced(t, r.t, P, W, V, l)
           /\ r.err = "SUCCESS" => V[l] = << >>

\* DelPIDList leaves the list empty, or reports an error with the tables still sound.
LEMMA DelList ==
    ASSUME NEW t, NEW P, NEW W, Layout(t, P, W, {}, {}, {}), Orphans(t),
           NEW l \in Names, l[1] \in PIDListTypes, Owned(t, l)
    PROVE  Cleared(t, DelPIDList(t, IndexList(t.pid, HeadRec(t, l))), P, W, l)
<1> DEFINE L == IndexList(t.pid, HeadRec(t, l))
           r == DelPIDList(t, L)
<1>1. W[l] \in Seq(Nat) /\ \A k \in 1 .. Len(W[l]) : W[l][k] \in DOMAIN t.pid
  BY Zenon DEF Layout, Placed
<1>2. W[l] \in Seq(DOMAIN t.pid) /\ Chain(t.pid, HeadRec(t, l), W[l])
  <2>1. W[l] \in Seq(DOMAIN t.pid)
    BY <1>1, SeqIn
  <2> QED BY <2>1 DEF Layout, Linked, Strung, PIDListTypes
<1>3. CASE L.err # "SUCCESS"
  <2>1. r = Err(L.err, t)
    BY <1>3 DEF DelPIDList, OnList
  <2>2. Reduced(t, t, P, W, W, l)
    BY NotReduced
  <2> HIDE DEF r
  <2>3. Cleared(t, r, P, W, l)
    BY <1>3, <2>1, <2>2 DEF Cleared, Err
  <2> QED BY <2>3 DEF r
<1>4. CASE L.err = "SUCCESS"
  <2>1. L = Found(W[l])
    BY <1>2, <1>4, IndexListFinds
  <2>2. r = ForEach(t, W[l], DelInputPID)
    <3> HIDE DEF L
    <3> QED BY <2>1 DEF DelPIDList, OnList, Found
  <2>3. DeletedTo(t, P, W, l, Len(W[l]), r)
    <3> HIDE DEF r
    <3> QED BY <2>2, DelEach
  <2> HIDE DEF r
  <2>4. PICK V : Reduced(t, r.t, P, W, V, l) /\ (r.err = "SUCCESS" => Rest(V[l], W[l], Len(W[l])))
    BY <2>3 DEF DeletedTo
  <2>5. V[l] \in Seq(Nat)
    BY <2>4 DEF Reduced, Layout, Placed
  <2>6. r.err = "SUCCESS" => V[l] = << >>
    <3> SUFFICES ASSUME r.err = "SUCCESS" PROVE V[l] = << >>
      OBVIOUS
    <3>1. Len(V[l]) = 0
      BY <1>1, <2>4 DEF Rest
    <3> QED BY <2>5, <3>1
  <2>7. Cleared(t, r, P, W, l)
    BY <2>4, <2>6 DEF Cleared
  <2> QED BY <2>7 DEF r
<1> QED BY <1>3, <1>4

\* Where the first program of a stream is.
LEMMA ProgOfHead ==
    ASSUME NEW t, NEW P, NEW W, Layout(t, P, W, {}, {}, {}), NEW i \in Nat, P[i] # << >>
    PROVE  /\ P[i][1] \in DOMAIN t.prog /\ P[i][1] \in Nat /\ t.prog[P[i][1]].valid /\ t.prog[P[i][1]].ts = i
           /\ i \in DOMAIN t.ts /\ t.ts[i].valid /\ Chain(t.prog, t.ts[i].prog, P[i])
           /\ P[i] \in Seq(DOMAIN t.prog) /\ Len(P[i]) \in Nat \ {0}
<1>0. P[i] \in Seq(Nat) /\ \A k \in 1 .. Len(P[i]) : P[i][k] \in DOMAIN t.prog
  BY DEF Layout, Placed
<1>1. 1 \in 1 .. Len(P[i]) /\ Len(P[i]) \in Nat \ {0}
  BY <1>0
<1>2. P[i][1] \in DOMAIN t.prog /\ t.prog[P[i][1]].valid /\ t.prog[P[i][1]].ts = i
  BY <1>0, <1>1 DEF Layout, Back
<1>3. i \in DOMAIN t.ts /\ t.ts[i].valid
  BY Zenon DEF Layout, Placed
<1>4. Chain(t.prog, t.ts[i].prog, P[i])
  BY <1>3 DEF Layout, Linked
<1>5. P[i] \in Seq(DOMAIN t.prog)
  BY <1>0, SeqIn, Zenon
<1>6. P[i][1] \in Nat
  BY <1>2, ShapeFacts DEF Layout
<1> QED BY <1>1, <1>2, <1>3, <1>4, <1>5, <1>6

\* UnlinkProg takes the first program off its stream, or reports an error and changes nothing.
LEMMA UnlinkProgHead ==
    ASSUME NEW t, NEW P, NEW W, Layout(t, P, W, {}, {}, {}), NEW i \in Nat, P[i] # << >>
    PROVE  LET r == UnlinkProg(t, P[i][1], GetPrevProgIndex(t, P[i][1])) IN
           \/ r.err # "SUCCESS" /\ r.t = t
           \/ r.err = "SUCCESS" /\ WithoutProg(t, r.t, i, P[i][1])
<1>1. PICK p : p = P[i][1]
  OBVIOUS
<1> DEFINE L == IndexList(t.prog, t.ts[i].prog)
           prev == Prev(L, p)
           r == UnlinkProg(t, p, GetPrevProgIndex(t, p))
           next == t.prog[p].next
           list == [head |-> next, num |-> t.ts[i].prog.num - 1]
<1>2. /\ p \in DOMAIN t.prog /\ t.prog[p].ts = i /\ i \in DOMAIN t.ts /\ Chain(t.prog, t.ts[i].prog, P[i])
      /\ P[i] \in Seq(DOMAIN t.prog) /\ Len(P[i]) \in Nat \ {0}
  BY <1>1, ProgOfHead
<1>3. L.err \in {"ARRAY_INDEX_OUT_OF_RANGE", "TS_ERROR"} \/ L = Found(P[i])
  <2>1. L.err \in {"SUCCESS", "ARRAY_INDEX_OUT_OF_RANGE", "TS_ERROR"}
    BY IndexListErr
  <2>2. L.err = "SUCCESS" => L = Found(P[i])
    BY <1>2, IndexListFinds
  <2> QED BY <2>1, <2>2
<1>4. r = UnlinkProg(t, p, prev)
  BY <1>2 DEF GetPrevProgIndex, InTSProgIndexList
<1>5. CASE L.err \in {"ARRAY_INDEX_OUT_OF_RANGE", "TS_ERROR"}
  <2>1. prev.err \in {"ARRAY_INDEX_OUT_OF_RANGE", "TS_ERROR"}
    BY <1>5 DEF Prev
  <2>2. r.err # "SUCCESS" /\ r.t = t
    <3> HIDE DEF prev, r
    <3> QED BY <1>4, <2>1 DEF UnlinkProg, Err
  <2> QED BY <1>1, <2>2
<1>6. CASE L = Found(P[i])
  <2>1. prev.err = "NOT_EXIST"
    <3>1. Contains(P[i], p) /\ Head(P[i]) = p
      <4>1. 1 \in 1 .. Len(P[i])
        BY <1>2
      <4> QED BY <1>1, <1>2, <4>1 DEF Contains
    <3> HIDE DEF L
    <3> QED BY <1>6, <3>1 DEF Prev, Found, NotFound
  <2> DEFINE u == [t EXCEPT !.ts[i].prog = list, !.prog[p] = ZeroProg]
  <2>2. r = Ok(u)
    <3>1. Shorter(t.ts[i].prog, prev, next) = list
      <4> HIDE DEF prev
      <4> QED BY <2>1 DEF Shorter
    <3> HIDE DEF prev, r, list
    <3> QED BY <1>2, <1>4, <2>1, <3>1, Zenon DEF UnlinkProg
  <2>3. PICK a \in Nat, b \in Nat, c \in Nat : t \in Tables(a, b, c)
    BY DEF Layout, Shape
  <2>4. /\ t.ts \in [0 .. a - 1 -> TSRec] /\ DOMAIN t.ts = 0 .. a - 1
        /\ t.prog \in [0 .. b - 1 -> ProgRec] /\ DOMAIN t.prog = 0 .. b - 1
    BY <2>3, Parts
  <2>5. list \in ListRec
    <3>1. t.prog[p] \in ProgRec
      BY <1>2, <2>4
    <3>2. t.ts[i].prog.num - 1 \in Nat
      BY <1>2 DEF Chain
    <3>3. next \in Nat
      BY <3>1 DEF ProgRec
    <3> QED BY <3>2, <3>3 DEF ListRec
  <2> HIDE DEF list
  <2>6. PICK x : x = t.ts[i]
    OBVIOUS
  <2>7. x \in TSRec /\ i \in 0 .. a - 1 /\ p \in 0 .. b - 1
    BY <1>2, <2>4, <2>6
  <2>8. PICK e : e = [x EXCEPT !.prog = list]
    BY Zenon
  <2>9. /\ e \in TSRec /\ e.prog = list /\ e.emm = x.emm /\ e.valid = x.valid /\ e.channel = x.channel /\ e.other = x.other
    BY <2>5, <2>7, <2>8, TSFields, Zenon
  <2>10. PICK v : v = [t EXCEPT !.ts[i] = e]
    BY Zenon
  <2>11. v \in Tables(a, b, c) /\ v.ts = [t.ts EXCEPT ![i] = e] /\ v.prog = t.prog /\ v.pid = t.pid
    <3>1. e \in TSRec /\ i \in 0 .. a - 1
      BY <2>7, <2>9
    <3>2. t \in Tables(a, b, c)
      BY <2>3
    <3> QED BY <2>10, <3>1, <3>2, Zenon DEF Tables
  <2>12. ZeroProg \in ProgRec
    BY DEF ZeroProg, ZeroList, ProgRec, ListRec
  <2>13. u = [v EXCEPT !.prog[p] = ZeroProg]
    BY <2>3, <2>6, <2>8, <2>10 DEF Tables
  <2> HIDE DEF u
  <2>14. u \in Tables(a, b, c) /\ u.prog = [v.prog EXCEPT ![p] = ZeroProg] /\ u.ts = v.ts /\ u.pid = v.pid
    <3>1. p \in 0 .. b - 1 /\ v \in Tables(a, b, c)
      BY <2>7, <2>11
    <3> QED BY <2>12, <2>13, <3>1, PutProg
  <2>15. /\ DOMAIN u.prog = DOMAIN t.prog /\ u.prog[p] = ZeroProg /\ \A y \in DOMAIN t.prog : y # p => u.prog[y] = t.prog[y]
         /\ DOMAIN u.ts = DOMAIN t.ts /\ u.ts[i] = e /\ \A y \in DOMAIN t.ts : y # i => u.ts[y] = t.ts[y]
    BY <2>4, <2>7, <2>11, <2>14
  <2>16. Shape(u)
    BY <2>14 DEF Shape
  <2>17. WithoutProg(t, u, i, p)
    BY <2>6, <2>9, <2>11, <2>14, <2>15, <2>16 DEF WithoutProg, list
  <2> HIDE DEF r
  <2>18. r.err = "SUCCESS" /\ WithoutProg(t, r.t, i, p)
    BY <2>2, <2>17 DEF Ok
  <2> QED BY <1>1, <2>18 DEF r
<1> QED BY <1>3, <1>5, <1>6

SameStreams(t, u) ==
    /\ DOMAIN u.ts = DOMAIN t.ts
    /\ \A x \in DOMAIN t.ts : u.ts[x].valid = t.ts[x].valid /\ u.ts[x].channel = t.ts[x].channel

\* The streams are untouched by two things in a row.
LEMMA SameStreamsOn ==
    ASSUME NEW t, NEW u, NEW v, SameStreams(t, u), SameStreams(u, v)
    PROVE  SameStreams(t, v)
BY DEF SameStreams

\* The tables of r, in a layout.
Kept(t, r) ==
    /\ \E Q, V : Layout(r.t, Q, V, {}, {}, {})
    /\ Orphans(r.t) /\ SameStreams(t, r.t)
\* ... where k programs of stream i are gone.
ProgsDeleted(t, P, i, k, r) ==
    /\ \E Q, V : Layout(r.t, Q, V, {}, {}, {}) /\ (r.err = "SUCCESS" => Rest(Q[i], P[i], k))
    /\ Orphans(r.t) /\ SameStreams(t, r.t) /\ Apart(t, r.t, i)

\* A program at the head of its list is deleted, or the deletion fails on the way.
ProgDeleted(t, P, i, r) ==
    /\ \E Q, V : Layout(r.t, Q, V, {}, {}, {}) /\ (r.err = "SUCCESS" => Q = TailOf(P, i))
    /\ Orphans(r.t) /\ SameStreams(t, r.t) /\ Apart(t, r.t, i)

\* The streams are untouched when only links change.
LEMMA SameEntriesStreams ==
    ASSUME NEW t, NEW u, SameEntries(t, u)
    PROVE  SameStreams(t, u) /\ DOMAIN u.prog = DOMAIN t.prog
           /\ \A p \in DOMAIN t.prog : u.prog[p].valid = t.prog[p].valid
BY DEF SameEntries, SameStreams

\* DelInputProg removes the first program of a stream with its lists, or leaves sound tables and an error.
LEMMA DelProgHead ==
    ASSUME NEW t, NEW P, NEW W, Layout(t, P, W, {}, {}, {}), Orphans(t), NEW i \in Nat, P[i] # << >>
    PROVE  ProgDeleted(t, P, i, DelInputProg(t, P[i][1]))
<1>1. PICK p : p = P[i][1]
  OBVIOUS
<1>2. p \in DOMAIN t.prog /\ p \in Nat /\ t.prog[p].valid /\ t.prog[p].ts = i
  BY <1>1, ProgOfHead
<1>3. PICK a : a = DelPCR(t, t.prog[p].pcr)
  OBVIOUS
<1>4. PICK b : b = IF a.err = "SUCCESS" THEN DelPIDList(a.t, InProgESPIDIndexList(a.t, p)) ELSE a
  OBVIOUS
<1>5. PICK c : c = IF b.err = "SUCCESS" THEN DelPIDList(b.t, InProgPSECMPIDIndexList(b.t, p)) ELSE b
  OBVIOUS
<1>6. PICK r : r = IF c.err = "SUCCESS" THEN UnlinkProg(c.t, p, GetPrevProgIndex(c.t, p)) ELSE c
  OBVIOUS
<1>7. DelInputProg(t, p) = r
  <2>1. DelInputProg(t, p) =
          Then(Then(Then(DelPCR(t, t.prog[p].pcr),
                        LAMBDA u : DelPIDList(u, InProgESPIDIndexList(u, p))),
                   LAMBDA u : DelPIDList(u, InProgPSECMPIDIndexList(u, p))),
              LAMBDA u : UnlinkProg(u, p, GetPrevProgIndex(u, p)))
    BY <1>2, Zenon DEF DelInputProg
  <2> QED BY <2>1, <1>3, <1>4, <1>5, <1>6, Zenon DEF Then
<1> DEFINE l == <<"ESPID", p>>
           m == <<"PS_ECMPID", p>>
<1>n. l \in Names /\ m \in Names /\ l # m /\ l[1] = "ESPID" /\ m[1] = "PS_ECMPID" /\ l[2] = p /\ m[2] = p
  BY <1>2 DEF Names, Types
<1>8. a = Ok(t) \/ a = Err("INPUT_PARAM", t)
  BY <1>3 DEF DelPCR, DelInputPID
<1>9. a.t = t
  BY <1>8 DEF Ok, Err
<1>10. Cleared(t, b, P, W, l) \/ (b.err # "SUCCESS" /\ b.t = t)
  <2>1. CASE a.err = "SUCCESS"
    <3>1. InProgESPIDIndexList(t, p) = IndexList(t.pid, HeadRec(t, l))
      BY <1>2 DEF InProgESPIDIndexList, HeadRec
    <3>2. Owned(t, l)
      BY <1>2 DEF Owned
    <3>3. b = DelPIDList(t, IndexList(t.pid, HeadRec(t, l)))
      BY <1>4, <1>9, <2>1, <3>1
    <3>4. l \in Names /\ l[1] \in PIDListTypes
      BY <1>n DEF PIDListTypes
    <3>5. Cleared(t, b, P, W, l)
      <4> HIDE DEF l, m
      <4> QED BY <3>2, <3>3, <3>4, DelList
    <3> QED BY <3>5
  <2>2. CASE a.err # "SUCCESS"
    BY <1>4, <1>9, <2>2
  <2> QED BY <2>1, <2>2
<1>11. PICK W1 : Reduced(t, b.t, P, W, W1, l) /\ (b.err = "SUCCESS" => W1[l] = << >>)
  <2>1. CASE Cleared(t, b, P, W, l)
    BY <2>1 DEF Cleared
  <2>2. CASE b.err # "SUCCESS" /\ b.t = t
    <3>1. Reduced(t, t, P, W, W, l)
      BY NotReduced
    <3> QED BY <2>2, <3>1
  <2> QED BY <1>10, <2>1, <2>2
<1>12. /\ Layout(b.t, P, W1, {}, {}, {}) /\ Orphans(b.t) /\ SameStreams(t, b.t)
       /\ p \in DOMAIN b.t.prog /\ b.t.prog[p].valid
  BY <1>2, <1>11, SameEntriesStreams DEF Reduced
<1>13. PICK W2 : Reduced(b.t, c.t, P, W1, W2, m) /\ (c.err = "SUCCESS" => b.err = "SUCCESS" /\ W2[m] = << >>)
  <2>1. CASE b.err = "SUCCESS"
    <3>1. InProgPSECMPIDIndexList(b.t, p) = IndexList(b.t.pid, HeadRec(b.t, m))
      BY <1>12 DEF InProgPSECMPIDIndexList, HeadRec
    <3>2. Owned(b.t, m)
      BY <1>12 DEF Owned
    <3>3. c = DelPIDList(b.t, IndexList(b.t.pid, HeadRec(b.t, m)))
      BY <1>5, <2>1, <3>1
    <3> HIDE DEF l, m
    <3>4. Cleared(b.t, c, P, W1, m)
      BY <1>n, <1>12, <3>2, <3>3, DelList DEF PIDListTypes
    <3> QED BY <2>1, <3>4 DEF Cleared
  <2>2. CASE b.err # "SUCCESS"
    <3>1. Reduced(b.t, b.t, P, W1, W1, m)
      BY <1>12, NotReduced
    <3> QED BY <1>5, <2>2, <3>1
  <2> QED BY <2>1, <2>2
<1>14. Layout(c.t, P, W2, {}, {}, {}) /\ Orphans(c.t) /\ SameStreams(b.t, c.t)
  BY <1>13, SameEntriesStreams DEF Reduced
<1>15. SameStreams(t, c.t)
  BY <1>12, <1>14, SameStreamsOn
<1>ap. Apart(t, c.t, i)
  <2> HIDE DEF l, m
  <2>1. Apart(t, b.t, i) /\ p \in DOMAIN b.t.prog /\ b.t.prog[p].ts = i
    BY <1>2, <1>n, <1>11 DEF Reduced, Within, SameEntries
  <2>2. Apart(b.t, c.t, i)
    BY <1>n, <1>13, <2>1 DEF Reduced, Within
  <2> QED BY <2>1, <2>2, ApartOn
<1>16. c.err = "SUCCESS" => W2[l] = << >> /\ W2[m] = << >>
  <2> HIDE DEF l, m
  <2> QED BY <1>n, <1>11, <1>13 DEF Reduced
<1>17. CASE c.err # "SUCCESS"
  BY <1>1, <1>6, <1>7, <1>14, <1>15, <1>ap, <1>17 DEF ProgDeleted
<1>18. CASE c.err = "SUCCESS"
  <2>1. \/ r.err # "SUCCESS" /\ r.t = c.t
        \/ r.err = "SUCCESS" /\ WithoutProg(c.t, r.t, i, P[i][1])
    BY <1>1, <1>6, <1>14, <1>18, UnlinkProgHead
  <2>2. CASE r.err # "SUCCESS" /\ r.t = c.t
    BY <1>1, <1>7, <1>14, <1>15, <1>ap, <2>2 DEF ProgDeleted
  <2>3. CASE r.err = "SUCCESS" /\ WithoutProg(c.t, r.t, i, P[i][1])
    <3>1. Layout(r.t, TailOf(P, i), Without(W2, <<"PCRPID", P[i][1]>>), {}, {}, {})
      BY <1>1, <1>14, <1>16, <1>18, <2>3, DropProg
    <3>2. SameStreams(c.t, r.t)
      BY <2>3 DEF WithoutProg, SameStreams
    <3>3. SameStreams(t, r.t)
      BY <1>15, <3>2, SameStreamsOn
    <3>4. Orphans(r.t)
      BY <1>14, <2>3 DEF WithoutProg, Orphans
    <3>5. Apart(t, r.t, i)
      <4>1. c.t.prog[p].ts = i
        BY <1>2, <1>11, <1>13, Zenon DEF Reduced, SameEntries
      <4>2. Apart(c.t, r.t, i)
        BY <1>1, <2>3, <4>1 DEF WithoutProg, Apart
      <4> QED BY <1>ap, <4>2, ApartOn
    <3>6. ProgDeleted(t, P, i, r)
      BY <3>1, <3>3, <3>4, <3>5 DEF ProgDeleted
    <3> QED BY <1>1, <1>7, <3>6
  <2> QED BY <2>1, <2>2, <2>3
<1> QED BY <1>17, <1>18

ProgsGone(g, t, seq) ==
    /\ g[0] = Ok(t)
    /\ \A k \in 1 .. Len(seq) :
        g[k] = IF g[k - 1].err = "SUCCESS" THEN DelInputProg(g[k - 1].t, seq[k]) ELSE g[k - 1]

\* Deleting programs in turn.
LEMMA ProgsGoneDef ==
    ASSUME NEW t, NEW seq, Len(seq) \in Nat
    PROVE  \E g : /\ ProgsGone(g, t, seq)
                  /\ ForEach(t, seq, DelInputProg) = g[Len(seq)]
<1> DEFINE n == Len(seq)
           Fit(g, m) == g = [k \in 0 .. m |->
               IF k = 0 THEN Ok(t)
               ELSE IF g[k - 1].err = "SUCCESS" THEN DelInputProg(g[k - 1].t, seq[k]) ELSE g[k - 1]]
           G == {m \in 0 .. n : \E g : Fit(g, m)}
<1>0. n \in Nat
  OBVIOUS
<1>1. 0 \in G
  <2> DEFINE z == [k \in 0 .. 0 |-> Ok(t)]
  <2>1. Fit(z, 0)
    OBVIOUS
  <2> HIDE DEF z, Fit
  <2> QED BY <2>1
<1>2. ASSUME NEW m \in 1 .. n, m - 1 \in G PROVE m \in G
  <2>1. PICK g : Fit(g, m - 1)
    BY <1>2
  <2> DEFINE h == [k \in 0 .. m |->
               IF k = 0 THEN Ok(t)
               ELSE IF g[k - 1].err = "SUCCESS" THEN DelInputProg(g[k - 1].t, seq[k]) ELSE g[k - 1]]
  <2>2. \A k \in 0 .. m - 1 : h[k] = g[k]
    BY <2>1
  <2>3. Fit(h, m)
    <3>1. \A k \in 0 .. m : k # 0 => k - 1 \in 0 .. m - 1
      OBVIOUS
    <3> QED BY <2>2, <3>1, ZenonT(30)
  <2> HIDE DEF h
  <2> QED BY <2>3
<1>3. n \in G
  <2> HIDE DEF G
  <2>1. G \in SUBSET (0 .. n)
    BY DEF G
  <2> HIDE DEF n
  <2>2. \A m \in 1 .. n : m - 1 \in G => m \in G
    BY <1>2
  <2>3. \A m \in 0 .. n : m \in G
    BY <1>0, <1>1, <2>1, <2>2, Upwards, Zenon
  <2> QED BY <1>0, <2>3
<1> DEFINE after == CHOOSE after : Fit(after, n)
<1>4. Fit(after, n)
  <2> HIDE DEF Fit
  <2> QED BY <1>3
<1>5. ForEach(t, seq, DelInputProg) = after[n]
  BY Zenon DEF ForEach, Then
<1> HIDE DEF after
<1>6. ProgsGone(after, t, seq)
  BY <1>4 DEF ProgsGone
<1> QED BY <1>5, <1>6

\* The k-th program of a stream is its first when those before it are deleted.
LEMMA DelProgStep ==
    ASSUME NEW t, NEW P, NEW i \in Nat, P[i] \in Seq(Nat),
           NEW k \in 1 .. Len(P[i]), NEW r, ProgsDeleted(t, P, i, k - 1, r), r.err = "SUCCESS"
    PROVE  ProgsDeleted(t, P, i, k, DelInputProg(r.t, P[i][k]))
<1>1. PICK Q, V : Layout(r.t, Q, V, {}, {}, {}) /\ Rest(Q[i], P[i], k - 1)
  BY DEF ProgsDeleted
<1>2. PICK u : u = r.t
  OBVIOUS
<1>3. Layout(u, Q, V, {}, {}, {}) /\ Orphans(u) /\ SameStreams(t, u)
  BY <1>1, <1>2 DEF ProgsDeleted
<1>4. Q \in [Nat -> Seq(Nat)]
  BY <1>3 DEF Layout, Placed
<1>v. Q[i] \in Seq(Nat)
  BY <1>4
<1>5. Len(Q[i]) = Len(P[i]) - (k - 1) /\ 1 \in 1 .. Len(Q[i])
  BY <1>1 DEF Rest
<1>6. Q[i][1] = P[i][k] /\ Q[i] # << >>
  <2>1. Q[i][1] = P[i][k - 1 + 1]
    BY <1>1, <1>5 DEF Rest
  <2>2. k - 1 + 1 = k
    OBVIOUS
  <2>3. Q[i] # << >>
    BY <1>v, <1>5
  <2> QED BY <2>1, <2>2, <2>3
<1>7. PICK q : q = DelInputProg(u, Q[i][1])
  OBVIOUS
<1>8. ProgDeleted(u, Q, i, q)
  BY <1>3, <1>6, <1>7, DelProgHead
<1>9. PICK Q1, V1 : Layout(q.t, Q1, V1, {}, {}, {}) /\ (q.err = "SUCCESS" => Q1 = TailOf(Q, i))
  BY <1>8 DEF ProgDeleted
<1>10. Orphans(q.t) /\ SameStreams(t, q.t) /\ Apart(t, q.t, i)
  <2>1. Orphans(q.t) /\ SameStreams(u, q.t) /\ Apart(u, q.t, i)
    BY <1>8 DEF ProgDeleted
  <2>2. Apart(t, u, i)
    BY <1>2 DEF ProgsDeleted
  <2> QED BY <1>3, <2>1, <2>2, SameStreamsOn, ApartOn
<1>11. q.err = "SUCCESS" => Rest(Q1[i], P[i], k)
  <2> SUFFICES ASSUME q.err = "SUCCESS" PROVE Rest(Q1[i], P[i], k)
    OBVIOUS
  <2>1. Shorn(Nat, Q, Q1, i)
    BY <1>4, <1>6, <1>9, TailFacts, Zenon
  <2>2. Len(Q1[i]) = Len(P[i]) - k
    <3>1. Len(Q1[i]) = Len(Q[i]) - 1
      BY <2>1 DEF Shorn
    <3>2. Len(P[i]) \in Nat
      OBVIOUS
    <3> QED BY <1>5, <3>1, <3>2
  <2>3. ASSUME NEW m \in 1 .. Len(Q1[i]) PROVE Q1[i][m] = P[i][k + m]
    <3>1. m + 1 \in 1 .. Len(Q[i]) /\ Q1[i][m] = Q[i][m + 1]
      BY <2>1, Zenon DEF Shorn
    <3>2. Q[i][m + 1] = P[i][k - 1 + (m + 1)]
      BY <1>1, <3>1, Zenon DEF Rest
    <3>3. k - 1 + (m + 1) = k + m
      BY <2>2
    <3> QED BY <3>1, <3>2, <3>3
  <2> QED BY <2>2, <2>3 DEF Rest
<1>12. ProgsDeleted(t, P, i, k, q)
  BY <1>9, <1>10, <1>11 DEF ProgsDeleted
<1> QED BY <1>2, <1>6, <1>7, <1>12

\* The programs of a stream are deleted one after the other, up to the first error.
LEMMA DelProgs ==
    ASSUME NEW t, NEW P, NEW W, Layout(t, P, W, {}, {}, {}), Orphans(t), NEW i \in Nat
    PROVE  ProgsDeleted(t, P, i, Len(P[i]), ForEach(t, P[i], DelInputProg))
<1> DEFINE s == P[i]
<1>s. P[i] \in Seq(Nat)
  BY DEF Layout, Placed
<1>0. Len(s) \in Nat
  BY <1>s
<1>1. PICK g : ProgsGone(g, t, s) /\ ForEach(t, s, DelInputProg) = g[Len(s)]
  BY <1>0, ProgsGoneDef
<1> DEFINE G == {k \in 0 .. Len(s) : ProgsDeleted(t, P, i, k, g[k])}
<1>2. 0 \in G
  <2>1. SameStreams(t, t) /\ Apart(t, t, i)
    BY DEF SameStreams, Apart
  <2>2. Rest(P[i], P[i], 0)
    BY <1>s DEF Rest
  <2>3. g[0] = Ok(t)
    BY <1>1 DEF ProgsGone
  <2>4. ProgsDeleted(t, P, i, 0, g[0])
    BY <2>1, <2>2, <2>3 DEF ProgsDeleted, Ok
  <2> QED BY <1>0, <2>4
<1>3. ASSUME NEW k \in 1 .. Len(s), k - 1 \in G PROVE k \in G
  <2>0. ProgsDeleted(t, P, i, k - 1, g[k - 1])
    BY <1>3
  <2>1. g[k] = IF g[k - 1].err = "SUCCESS" THEN DelInputProg(g[k - 1].t, s[k]) ELSE g[k - 1]
    BY <1>1 DEF ProgsGone
  <2>2. CASE g[k - 1].err = "SUCCESS"
    BY <1>s, <2>0, <2>1, <2>2, DelProgStep
  <2>3. CASE g[k - 1].err # "SUCCESS"
    BY <2>0, <2>1, <2>3 DEF ProgsDeleted
  <2> QED BY <2>2, <2>3
<1>4. \A k \in 0 .. Len(s) : k \in G
  <2> HIDE DEF G
  <2>1. \A k \in 1 .. Len(s) : k - 1 \in G => k \in G
    BY <1>3
  <2>2. G \in SUBSET (0 .. Len(s))
    BY DEF G
  <2> QED BY <1>0, <1>2, <2>1, <2>2, Upwards, Zenon
<1>5. Len(s) \in G
  BY <1>0, <1>4
<1> QED BY <1>1, <1>5

\* Of a deleted stream nothing is left; a deletion that fails leaves a layout.
StreamGone(t, u, i) ==
    /\ DOMAIN u.ts = DOMAIN t.ts /\ ~u.ts[i].valid
    /\ \A x \in DOMAIN t.ts : x # i => u.ts[x].valid = t.ts[x].valid /\ u.ts[x].channel = t.ts[x].channel
Deleted(t, r, i) ==
    /\ \E Q, V : Layout(r.t, Q, V, {}, {}, {})
    /\ Orphans(r.t) /\ Apart(t, r.t, i)
    /\ IF r.err = "SUCCESS" THEN StreamGone(t, r.t, i) ELSE SameStreams(t, r.t)

\* DelInputTS removes stream i with all its lists, or reports an error with the tables still sound.
LEMMA DelTS ==
    ASSUME NEW t, NEW P, NEW W, Layout(t, P, W, {}, {}, {}), Orphans(t), NEW i \in DOMAIN t.ts, t.ts[i].valid
    PROVE  Deleted(t, DelInputTS(t, i), i)
<1>0. i \in Nat
  BY ShapeFacts DEF Layout
<1> DEFINE L == InTSProgIndexList(t, i)
           l == <<"EMMPID", i>>
           m == <<"OTHERPID", i>>
<1>n. l \in Names /\ m \in Names /\ l # m /\ l[1] = "EMMPID" /\ m[1] = "OTHERPID" /\ l[2] = i /\ m[2] = i
  BY <1>0 DEF Names, Types
<1>1. PICK a : a = IF L.err = "SUCCESS" THEN ForEach(t, L.list, DelInputProg) ELSE Err(L.err, t)
  OBVIOUS
<1>2. PICK b : b = IF a.err = "SUCCESS" THEN DelPIDList(a.t, InTSEMMPIDIndexList(a.t, i)) ELSE a
  OBVIOUS
<1>3. PICK c : c = IF b.err = "SUCCESS" THEN DelPIDList(b.t, InTSOtherPIDIndexList(b.t, i)) ELSE b
  OBVIOUS
<1>4. PICK r : r = IF c.err = "SUCCESS" THEN Ok([c.t EXCEPT !.ts[i] = ZeroTS]) ELSE c
  OBVIOUS
<1>5. DelInputTS(t, i) = r
  <2>1. DelInputTS(t, i) =
          Then(Then(Then(OnList(t, L, LAMBDA progs : ForEach(t, progs, DelInputProg)),
                        LAMBDA u : DelPIDList(u, InTSEMMPIDIndexList(u, i))),
                   LAMBDA u : DelPIDList(u, InTSOtherPIDIndexList(u, i))),
              LAMBDA u : Ok([u EXCEPT !.ts[i] = ZeroTS]))
    BY Zenon DEF DelInputTS
  <2>2. OnList(t, L, LAMBDA progs : ForEach(t, progs, DelInputProg)) = a
    BY <1>1, Zenon DEF OnList
  <2> QED BY <2>1, <2>2, <1>2, <1>3, <1>4, Zenon DEF Then
<1> HIDE DEF l, m
\* The programs.
<1>6. PICK P1, W1 : Layout(a.t, P1, W1, {}, {}, {}) /\ (a.err = "SUCCESS" => P1[i] = << >>)
  <2>1. L = IndexList(t.prog, t.ts[i].prog)
    BY DEF InTSProgIndexList
  <2>2. Chain(t.prog, t.ts[i].prog, P[i])
    BY DEF Layout, Linked
  <2>3. P[i] \in Seq(Nat) /\ \A k \in 1 .. Len(P[i]) : P[i][k] \in DOMAIN t.prog
    BY <1>0, Zenon DEF Layout, Placed
  <2>4. P[i] \in Seq(DOMAIN t.prog)
    BY <2>3, SeqIn, Zenon
  <2>5. CASE L.err # "SUCCESS"
    BY <1>1, <2>5 DEF Err
  <2>6. CASE L.err = "SUCCESS"
    <3>1. L.list = P[i]
      BY <2>1, <2>2, <2>4, <2>6, IndexListFinds DEF Found
    <3>2. ProgsDeleted(t, P, i, Len(P[i]), a)
      BY <1>0, <1>1, <2>6, <3>1, DelProgs
    <3>3. PICK Q, V : Layout(a.t, Q, V, {}, {}, {}) /\ (a.err = "SUCCESS" => Rest(Q[i], P[i], Len(P[i])))
      BY <3>2 DEF ProgsDeleted
    <3>4. Q[i] \in Seq(Nat)
      BY <1>0, <3>3 DEF Layout, Placed
    <3>5. a.err = "SUCCESS" => Q[i] = << >>
      <4> SUFFICES ASSUME a.err = "SUCCESS" PROVE Q[i] = << >>
        OBVIOUS
      <4>1. Len(Q[i]) = 0
        BY <2>3, <3>3 DEF Rest
      <4> QED BY <3>4, <4>1
    <3> QED BY <3>3, <3>5
  <2> QED BY <2>5, <2>6
<1>7. Orphans(a.t) /\ SameStreams(t, a.t) /\ Apart(t, a.t, i)
  <2>1. CASE L.err # "SUCCESS"
    BY <1>1, <2>1 DEF Err, SameStreams, Apart
  <2>2. CASE L.err = "SUCCESS"
    <3>1. L = IndexList(t.prog, t.ts[i].prog)
      BY DEF InTSProgIndexList
    <3>2. Chain(t.prog, t.ts[i].prog, P[i])
      BY DEF Layout, Linked
    <3>3. P[i] \in Seq(Nat) /\ \A k \in 1 .. Len(P[i]) : P[i][k] \in DOMAIN t.prog
      BY <1>0, Zenon DEF Layout, Placed
    <3>4. P[i] \in Seq(DOMAIN t.prog)
      BY <3>3, SeqIn, Zenon
    <3>5. L.list = P[i]
      BY <2>2, <3>1, <3>2, <3>4, IndexListFinds DEF Found
    <3>6. ProgsDeleted(t, P, i, Len(P[i]), a)
      BY <1>0, <1>1, <2>2, <3>5, DelProgs
    <3> QED BY <3>6 DEF ProgsDeleted
  <2> QED BY <2>1, <2>2
\* The EMM PIDs.
<1>8. PICK W2 : Reduced(a.t, b.t, P1, W1, W2, l) /\ (b.err = "SUCCESS" => a.err = "SUCCESS" /\ W2[l] = << >>)
  <2>1. CASE a.err = "SUCCESS"
    <3>1. i \in DOMAIN a.t.ts /\ a.t.ts[i].valid
      BY <1>7 DEF SameStreams
    <3>2. InTSEMMPIDIndexList(a.t, i) = IndexList(a.t.pid, HeadRec(a.t, l))
      BY <1>n, <3>1 DEF InTSEMMPIDIndexList, HeadRec
    <3>3. Owned(a.t, l)
      BY <1>n, <3>1 DEF Owned
    <3>4. b = DelPIDList(a.t, IndexList(a.t.pid, HeadRec(a.t, l)))
      BY <1>2, <2>1, <3>2
    <3>5. Cleared(a.t, b, P1, W1, l)
      BY <1>n, <1>6, <1>7, <3>3, <3>4, DelList DEF PIDListTypes
    <3> QED BY <2>1, <3>5 DEF Cleared
  <2>2. CASE a.err # "SUCCESS"
    <3>1. Reduced(a.t, a.t, P1, W1, W1, l)
      BY <1>6, <1>7, NotReduced
    <3> QED BY <1>2, <2>2, <3>1
  <2> QED BY <2>1, <2>2
<1>9. Layout(b.t, P1, W2, {}, {}, {}) /\ Orphans(b.t) /\ SameStreams(t, b.t)
  <2>1. Layout(b.t, P1, W2, {}, {}, {}) /\ Orphans(b.t) /\ SameStreams(a.t, b.t)
    BY <1>8, SameEntriesStreams DEF Reduced
  <2> QED BY <1>7, <2>1, SameStreamsOn
\* The other PIDs.
<1>10. PICK W3 : Reduced(b.t, c.t, P1, W2, W3, m) /\ (c.err = "SUCCESS" => b.err = "SUCCESS" /\ W3[m] = << >>)
  <2>1. CASE b.err = "SUCCESS"
    <3>1. i \in DOMAIN b.t.ts /\ b.t.ts[i].valid
      BY <1>9 DEF SameStreams
    <3>2. InTSOtherPIDIndexList(b.t, i) = IndexList(b.t.pid, HeadRec(b.t, m))
      BY <1>n, <3>1 DEF InTSOtherPIDIndexList, HeadRec
    <3>3. Owned(b.t, m)
      BY <1>n, <3>1 DEF Owned
    <3>4. c = DelPIDList(b.t, IndexList(b.t.pid, HeadRec(b.t, m)))
      BY <1>3, <2>1, <3>2
    <3>5. Cleared(b.t, c, P1, W2, m)
      BY <1>n, <1>9, <3>3, <3>4, DelList DEF PIDListTypes
    <3> QED BY <2>1, <3>5 DEF Cleared
  <2>2. CASE b.err # "SUCCESS"
    <3>1. Reduced(b.t, b.t, P1, W2, W2, m)
      BY <1>9, NotReduced
    <3> QED BY <1>3, <2>2, <3>1
  <2> QED BY <2>1, <2>2
<1>11. Layout(c.t, P1, W3, {}, {}, {}) /\ Orphans(c.t) /\ SameStreams(t, c.t)
  <2>1. Layout(c.t, P1, W3, {}, {}, {}) /\ Orphans(c.t) /\ SameStreams(b.t, c.t)
    BY <1>10, SameEntriesStreams DEF Reduced
  <2> QED BY <1>9, <2>1, SameStreamsOn
<1>ap. Apart(t, c.t, i)
  <2>1. Apart(a.t, b.t, i)
    BY <1>n, <1>8 DEF Reduced, Within
  <2>2. Apart(b.t, c.t, i)
    BY <1>n, <1>10 DEF Reduced, Within
  <2> QED BY <1>7, <2>1, <2>2, ApartOn
<1>12. CASE c.err # "SUCCESS"
  <2>1. r = c
    BY <1>4, <1>12
  <2>2. Deleted(t, r, i)
    BY <1>11, <1>ap, <1>12, <2>1 DEF Deleted
  <2> QED BY <1>5, <2>2
<1>13. CASE c.err = "SUCCESS"
  <2>1. P1[i] = << >> /\ W3[l] = << >> /\ W3[m] = << >>
    <3>1. W3[l] = W2[l]
      BY <1>n, <1>10 DEF Reduced
    <3> QED BY <1>6, <1>8, <1>10, <1>13, <3>1
  <2>2. i \in DOMAIN c.t.ts
    BY <1>11 DEF SameStreams
  <2>3. PICK u : u = [c.t EXCEPT !.ts[i] = ZeroTS]
    BY Zenon
  <2>4. Layout(u, P1, W3, {}, {}, {})
    <3>1. W3[<<"EMMPID", i>>] = << >> /\ W3[<<"OTHERPID", i>>] = << >>
      BY <2>1 DEF l, m
    <3>2. PICK v : v = c.t
      OBVIOUS
    <3> QED BY <1>11, <2>1, <2>2, <2>3, <3>1, <3>2, DropTS
  <2>5. /\ DOMAIN u.ts = DOMAIN c.t.ts /\ u.pid = c.t.pid /\ u.prog = c.t.prog /\ u.ts[i] = ZeroTS
        /\ \A x \in DOMAIN c.t.ts : x # i => u.ts[x] = c.t.ts[x]
    <3>1. PICK v : v = c.t
      OBVIOUS
    <3>2. PICK A \in Nat, B \in Nat, C \in Nat : v \in Tables(A, B, C)
      BY <1>11, <3>1 DEF Layout, Shape
    <3> QED BY <2>2, <2>3, <3>1, <3>2 DEF Tables
  <2>6. Orphans(u) /\ StreamGone(t, u, i)
    <3>1. ~u.ts[i].valid
      BY <2>5 DEF ZeroTS
    <3> QED BY <1>11, <2>5, <3>1 DEF Orphans, StreamGone, SameStreams
  <2>7. r = Ok(u)
    BY <1>4, <1>13, <2>3
  <2>8. r.err = "SUCCESS" /\ r.t = u
    BY <2>7 DEF Ok
  <2>9. Apart(t, u, i)
    <3>1. Apart(c.t, u, i)
      BY <2>5 DEF Apart
    <3> QED BY <1>ap, <3>1, ApartOn
  <2>10. Deleted(t, r, i)
    BY <2>4, <2>6, <2>8, <2>9 DEF Deleted
  <2> QED BY <1>5, <2>10
<1> QED BY <1>12, <1>13

-----------------------------------------------------------------------------
(* Allocating.                                                             *)

Rank(S, i) == Cardinality({j \in S : j < i})

\* The next member of a set has one more before it.
LEMMA RankStep ==
    ASSUME NEW S \in SUBSET Nat, IsFiniteSet(S), NEW i \in S, NEW n \in S, i < n, \A j \in S : i < j => n <= j
    PROVE  Rank(S, n) = Rank(S, i) + 1
<1>1. {j \in S : j < n} = {j \in S : j < i} \cup {i}
  <2>1. ASSUME NEW j \in S, j < n PROVE j < i \/ j = i
    <3>1. j \in Nat /\ i \in Nat /\ n \in Nat
      OBVIOUS
    <3> QED BY <2>1, <3>1
  <2>2. ASSUME NEW j \in S, j < i PROVE j < n
    <3>1. j \in Nat /\ i \in Nat /\ n \in Nat
      OBVIOUS
    <3> QED BY <2>2, <3>1
  <2> QED BY <2>1, <2>2, Zenon
<1>2. IsFiniteSet({j \in S : j < i}) /\ i \notin {j \in S : j < i}
  BY FS_Subset
<1>3. Cardinality({j \in S : j < i} \cup {i}) = Cardinality({j \in S : j < i}) + 1
  BY <1>2, FS_AddElement
<1> QED BY <1>1, <1>3 DEF Rank

\* There is an element of each rank.
LEMMA Ranked ==
    ASSUME NEW S \in SUBSET Nat, IsFiniteSet(S), NEW n \in Nat, n <= Cardinality(S)
    PROVE  \A k \in 1 .. n : \E i \in S : Rank(S, i) = k - 1
<1>0. Cardinality(S) \in Nat
  BY FS_CardinalityType
<1> DEFINE G == {k \in 0 .. n : k = 0 \/ \E i \in S : Rank(S, i) = k - 1}
<1>1. 0 \in G /\ G \in SUBSET (0 .. n)
  OBVIOUS
<1>2. ASSUME NEW k \in 1 .. n, k - 1 \in G PROVE k \in G
  <2>1. CASE k = 1
    <3>1. S # {}
      BY <1>0, FS_EmptySet
    <3>2. PICK i \in S : \A j \in S : i <= j
      BY <3>1, Least
    <3>3. {j \in S : j < i} = {}
      <4> SUFFICES ASSUME NEW j \in S, j < i PROVE FALSE
        BY Zenon
      <4>1. i <= j /\ i \in Nat /\ j \in Nat
        BY <3>2
      <4> QED BY <4>1
    <3>4. Rank(S, i) = 0
      BY <3>3, FS_EmptySet DEF Rank
    <3> QED BY <2>1, <3>4
  <2>2. CASE k # 1
    <3>1. PICK i \in S : Rank(S, i) = k - 2
      BY <1>2, <2>2
    <3> DEFINE B == {j \in S : i < j}
               A == {j \in S : j < i}
    <3>2. B # {}
      <4> SUFFICES ASSUME B = {} PROVE FALSE
        OBVIOUS
      <4>1. S = A \cup {i}
        <5>1. ASSUME NEW j \in S PROVE j < i \/ j = i
          <6>1. j \in Nat /\ i \in Nat /\ ~(i < j)
            OBVIOUS
          <6> QED BY <6>1
        <5> QED BY <5>1, Zenon
      <4>2. IsFiniteSet(A) /\ i \notin A
        BY FS_Subset
      <4>3. Cardinality(A \cup {i}) = Cardinality(A) + 1
        BY <4>2, FS_AddElement, Zenon
      <4>4. Cardinality(A) = k - 2
        BY <3>1 DEF Rank
      <4> QED BY <1>0, <4>1, <4>3, <4>4
    <3>3. PICK m \in B : \A j \in B : m <= j
      <4>1. B \in SUBSET Nat
        BY Zenon
      <4> HIDE DEF B
      <4> QED BY <3>2, <4>1, Least
    <3>4. Rank(S, m) = Rank(S, i) + 1
      <4>1. m \in S /\ i < m /\ \A j \in S : i < j => m <= j
        BY <3>3
      <4> QED BY <4>1, RankStep
    <3>5. Rank(S, m) = k - 1 /\ m \in S
      BY <3>1, <3>3, <3>4
    <3> QED BY <3>5
  <2> QED BY <2>1, <2>2
<1>3. \A k \in 0 .. n : k \in G
  <2> HIDE DEF G
  <2>1. \A k \in 1 .. n : k - 1 \in G => k \in G
    BY <1>2
  <2> QED BY <1>1, <2>1, Upwards
<1> QED BY <1>3

\* n different indices of T that are not in use.
Fresh(table, list, n) ==
    /\ list \in Seq(Nat) /\ Len(list) = n
    /\ \A k \in 1 .. n : list[k] \in DOMAIN table /\ ~table[list[k]].valid
    /\ \A k, m \in 1 .. n : list[k] = list[m] => k = m

\* The first n free entries are n different free ones.
LEMMA FirstOfFresh ==
    ASSUME NEW table, DOMAIN table \subseteq Nat, IsFiniteSet(DOMAIN table),
           NEW n \in Nat, n <= Cardinality(Free(table))
    PROVE  Fresh(table, FirstOf(Free(table), n), n)
<1>1. PICK S : S = Free(table)
  OBVIOUS
<1>2. S \in SUBSET Nat /\ IsFiniteSet(S)
  <2>1. S \subseteq DOMAIN table
    BY <1>1 DEF Free
  <2> QED BY <2>1, FS_Subset
<1>3. PICK list : list = FirstOf(S, n)
  OBVIOUS
<1>4. list = [k \in 1 .. n |-> CHOOSE i \in S : Rank(S, i) = k - 1]
  BY <1>3 DEF FirstOf, Rank
<1>5. \A k \in 1 .. n : list[k] \in S /\ Rank(S, list[k]) = k - 1
  <2> SUFFICES ASSUME NEW k \in 1 .. n PROVE list[k] \in S /\ Rank(S, list[k]) = k - 1
    OBVIOUS
  <2>1. list[k] = CHOOSE i \in S : Rank(S, i) = k - 1
    BY <1>4
  <2>2. \E i \in S : Rank(S, i) = k - 1
    BY <1>1, <1>2, Ranked
  <2> QED BY <2>1, <2>2
<1>6. list \in Seq(Nat) /\ Len(list) = n
  <2>1. \A k \in 1 .. n : list[k] \in Nat
    BY <1>2, <1>5, Zenon
  <2>2. DOMAIN list = 1 .. n /\ list = [k \in 1 .. n |-> list[k]]
    BY <1>4
  <2>3. list \in [1 .. n -> Nat]
    BY <2>1, <2>2
  <2> QED BY <2>3
<1>7. ASSUME NEW k \in 1 .. n, NEW m \in 1 .. n, list[k] = list[m] PROVE k = m
  <2>1. k - 1 = m - 1
    BY <1>5, <1>7
  <2> QED BY <2>1
<1>8. \A k \in 1 .. n : list[k] \in DOMAIN table /\ ~table[list[k]].valid
  BY <1>1, <1>5, Zenon DEF Free
<1>9. Fresh(table, list, n)
  BY <1>6, <1>7, <1>8 DEF Fresh
<1> QED BY <1>1, <1>3, <1>9

\* A lack rounded up to whole steps covers it.
LEMMA RoundUp ==
    ASSUME NEW lack \in Nat, NEW step \in Nat \ {0}
    PROVE  /\ ((lack + step - 1) \div step) * step \in Nat
           /\ lack <= ((lack + step - 1) \div step) * step
<1>1. PICK x \in Nat : x = lack + step - 1
  OBVIOUS
<1>2. (x \div step) \in Nat
  OBVIOUS
<1>3. (x \div step) * step \in Nat
  BY <1>2
<1>4. x < (x \div step) * step + step
  OBVIOUS
<1>5. lack <= (x \div step) * step
  BY <1>1, <1>3, <1>4
<1> QED BY <1>1, <1>3, <1>5

\* A table g with the entries of table and d - b zero ones.
Extended(table, g, zero, b, d) ==
    /\ b <= d /\ DOMAIN g = 0 .. d - 1 /\ g = [i \in 0 .. d - 1 |-> g[i]]
    /\ \A i \in 0 .. d - 1 : g[i] = IF i < b THEN table[i] ELSE zero

\* An array that is grown keeps its entries and has as many free ones as are needed.
LEMMA GrownFacts ==
    ASSUME NEW table, NEW b \in Nat, DOMAIN table = 0 .. b - 1, NEW zero, ~zero.valid,
           NEW need \in Nat, NEW step \in Nat \ {0}
    PROVE  \E d \in Nat : /\ Extended(table, Grown(table, zero, need, step), zero, b, d)
                          /\ need <= Cardinality(Free(Grown(table, zero, need, step)))
<1>1. Cardinality(DOMAIN table) = b
  <2>1. Cardinality(0 .. b - 1) = IF 0 > b - 1 THEN 0 ELSE b - 1 - 0 + 1
    BY FS_Interval
  <2> QED BY <2>1
<1>2. PICK F : F = Free(table)
  OBVIOUS
<1>3. F \subseteq 0 .. b - 1 /\ IsFiniteSet(F) /\ Cardinality(F) \in Nat
  <2>1. F \subseteq 0 .. b - 1
    BY <1>2 DEF Free
  <2>2. IsFiniteSet(0 .. b - 1)
    BY FS_Interval
  <2> QED BY <2>1, <2>2, FS_Subset, FS_CardinalityType, Zenon
<1>4. PICK lack \in Int : lack = need - Cardinality(F)
  BY <1>3
<1>5. PICK more \in Nat : more = IF lack <= 0 THEN 0 ELSE ((lack + step - 1) \div step) * step
  <2>1. CASE lack <= 0
    BY <2>1
  <2>2. CASE ~(lack <= 0)
    <3>1. lack \in Nat
      BY <2>2
    <3>2. ((lack + step - 1) \div step) * step \in Nat
      BY <3>1, RoundUp
    <3> QED BY <2>2, <3>2
  <2> QED BY <2>1, <2>2
<1>6. lack <= more
  <2>1. CASE lack <= 0
    BY <1>5, <2>1
  <2>2. CASE ~(lack <= 0)
    <3>1. lack \in Nat
      BY <2>2
    <3> QED BY <1>5, <2>2, <3>1, RoundUp
  <2> QED BY <2>1, <2>2
<1>7. PICK g : g = Grown(table, zero, need, step)
  OBVIOUS
<1>8. g = [i \in 0 .. b + more - 1 |-> IF i < b THEN table[i] ELSE zero]
  BY <1>1, <1>2, <1>4, <1>5, <1>7 DEF Grown
<1>9. PICK d \in Nat : d = b + more
  OBVIOUS
<1>10. Extended(table, g, zero, b, d)
  BY <1>8, <1>9 DEF Extended
<1>11. Free(g) = F \cup (b .. d - 1) /\ F \cap (b .. d - 1) = {}
  <2>1. Free(g) = {i \in 0 .. d - 1 : ~g[i].valid}
    BY <1>10 DEF Free, Extended
  <2>2. \A i \in 0 .. d - 1 : ~g[i].valid <=> i \in F \/ i \in b .. d - 1
    <3> SUFFICES ASSUME NEW i \in 0 .. d - 1 PROVE ~g[i].valid <=> i \in F \/ i \in b .. d - 1
      OBVIOUS
    <3>1. CASE i < b
      <4>1. i \in 0 .. b - 1 /\ g[i] = table[i] /\ i \notin b .. d - 1
        BY <1>10, <3>1 DEF Extended
      <4> QED BY <1>2, <4>1 DEF Free
    <3>2. CASE ~(i < b)
      <4>1. g[i] = zero /\ i \in b .. d - 1
        BY <1>10, <3>2 DEF Extended
      <4> QED BY <4>1
    <3> QED BY <3>1, <3>2
  <2>3. \A i \in F \cup (b .. d - 1) : i \in 0 .. d - 1
    BY <1>3, <1>9
  <2>4. F \cap (b .. d - 1) = {}
    BY <1>3
  <2> QED BY <2>1, <2>2, <2>3, <2>4
<1>12. IsFiniteSet(b .. d - 1) /\ Cardinality(b .. d - 1) = more
  <2>1. IsFiniteSet(b .. d - 1) /\ Cardinality(b .. d - 1) = IF b > d - 1 THEN 0 ELSE d - 1 - b + 1
    BY FS_Interval
  <2> QED BY <1>9, <2>1
<1>13. Cardinality(Free(g)) = Cardinality(F) + more
  <2>1. Cardinality(F \cup (b .. d - 1)) = Cardinality(F) + Cardinality(b .. d - 1) - Cardinality(F \cap (b .. d - 1))
    BY <1>3, <1>12, FS_Union, Zenon
  <2>2. Cardinality(F \cap (b .. d - 1)) = 0
    BY <1>11, FS_EmptySet
  <2> QED BY <1>3, <1>11, <1>12, <2>1, <2>2
<1>14. need <= Cardinality(Free(g))
  BY <1>3, <1>4, <1>6, <1>13
<1> QED BY <1>7, <1>10, <1>14

\* The tables u are t with more entries that are not in use.
Grows(t, u) ==
    /\ Shape(u) /\ u.ts = t.ts
    /\ DOMAIN t.prog \subseteq DOMAIN u.prog /\ \A p \in DOMAIN t.prog : u.prog[p] = t.prog[p]
    /\ \A p \in DOMAIN u.prog : p \notin DOMAIN t.prog => u.prog[p] = ZeroProg
    /\ DOMAIN t.pid \subseteq DOMAIN u.pid /\ \A j \in DOMAIN t.pid : u.pid[j] = t.pid[j]
    /\ \A j \in DOMAIN u.pid : j \notin DOMAIN t.pid => u.pid[j] = ZeroPID

GrowsPIDs(t, r, n) == r.err = "SUCCESS" /\ Grows(t, r.t) /\ r.t.prog = t.prog /\ Fresh(r.t.pid, r.list, n)
GrowsProgs(t, r, n) == r.err = "SUCCESS" /\ Grows(t, r.t) /\ r.t.pid = t.pid /\ Fresh(r.t.prog, r.list, n)

\* A search for n unused PIDs finds them, in an array that has grown if need be.
LEMMA NewPIDs ==
    ASSUME NEW t, Shape(t), NEW n \in Nat, n <= MAX_INDEX_LIST_NUMBER
    PROVE  GrowsPIDs(t, UnusedPIDs(t, n), n)
<1>1. PICK a \in Nat, b \in Nat, c \in Nat : t \in Tables(a, b, c)
  BY DEF Shape
<1>2. t.pid \in [0 .. c - 1 -> PIDRec] /\ DOMAIN t.pid = 0 .. c - 1
  BY <1>1, Parts
<1>3. PICK g : g = Grown(t.pid, ZeroPID, n, ALLOCATE_INPUT_PID_NUM_PER_TIME)
  OBVIOUS
<1>4. ALLOCATE_INPUT_PID_NUM_PER_TIME \in Nat \ {0} /\ MAX_INDEX_LIST_NUMBER \in Nat /\ ~ZeroPID.valid
  BY TableAssumption DEF ZeroPID
<1>5. PICK d \in Nat : Extended(t.pid, g, ZeroPID, c, d) /\ n <= Cardinality(Free(g))
  <2>1. PICK table : table = t.pid
    OBVIOUS
  <2>2. DOMAIN table = 0 .. c - 1
    BY <1>2, <2>1
  <2>3. \E d \in Nat : Extended(table, g, ZeroPID, c, d) /\ n <= Cardinality(Free(g))
    BY <1>3, <1>4, <2>1, <2>2, GrownFacts, Zenon
  <2> QED BY <2>1, <2>3
<1>6. g \in [0 .. d - 1 -> PIDRec] /\ DOMAIN g = 0 .. d - 1
  <2>1. ZeroPID \in PIDRec
    BY DEF ZeroPID, ZeroList, PIDRec, ListRec, Types
  <2>2. \A i \in 0 .. d - 1 : g[i] \in PIDRec
    <3> SUFFICES ASSUME NEW i \in 0 .. d - 1 PROVE g[i] \in PIDRec
      OBVIOUS
    <3>1. i < c => i \in 0 .. c - 1
      OBVIOUS
    <3> QED BY <1>2, <1>5, <2>1, <3>1 DEF Extended
  <2> QED BY <1>5, <2>2 DEF Extended
<1>7. PICK u : u = [t EXCEPT !.pid = g]
  BY Zenon
<1>8. u \in Tables(a, b, d) /\ u.ts = t.ts /\ u.prog = t.prog /\ u.pid = g
  BY <1>1, <1>6, <1>7, Zenon DEF Tables
<1>9. Grows(t, u)
  <2>1. Shape(u)
    BY <1>8 DEF Shape
  <2>2. DOMAIN t.pid \subseteq DOMAIN u.pid /\ \A j \in DOMAIN t.pid : u.pid[j] = t.pid[j]
    BY <1>2, <1>5, <1>6, <1>8 DEF Extended
  <2>3. \A j \in DOMAIN u.pid : j \notin DOMAIN t.pid => u.pid[j] = ZeroPID
    BY <1>2, <1>5, <1>6, <1>8 DEF Extended
  <2> QED BY <1>8, <2>1, <2>2, <2>3 DEF Grows
<1>10. Fresh(g, FirstOf(Free(g), n), n)
  <2>1. DOMAIN g \subseteq Nat /\ IsFiniteSet(DOMAIN g)
    BY <1>6, FS_Interval
  <2> QED BY <1>5, <2>1, FirstOfFresh
<1>11. PICK r : r = UnusedPIDs(t, n)
  OBVIOUS
<1>12. r.err = "SUCCESS" /\ r.t = u /\ r.list = FirstOf(Free(g), n)
  BY <1>3, <1>4, <1>7, <1>11 DEF UnusedPIDs
<1>13. GrowsPIDs(t, r, n)
  BY <1>8, <1>9, <1>10, <1>12 DEF GrowsPIDs
<1> QED BY <1>11, <1>13

\* A search for n unused programs finds them, in an array that has grown if need be.
LEMMA NewProgs ==
    ASSUME NEW t, Shape(t), NEW n \in Nat, n <= MAX_INDEX_LIST_NUMBER
    PROVE  GrowsProgs(t, UnusedProgs(t, n), n)
<1>1. PICK a \in Nat, b \in Nat, c \in Nat : t \in Tables(a, b, c)
  BY DEF Shape
<1>2. t.prog \in [0 .. b - 1 -> ProgRec] /\ DOMAIN t.prog = 0 .. b - 1
  BY <1>1, Parts
<1>3. PICK g : g = Grown(t.prog, ZeroProg, n, ALLOCATE_INPUT_PROG_NUM_PER_TIME)
  OBVIOUS
<1>4. ALLOCATE_INPUT_PROG_NUM_PER_TIME \in Nat \ {0} /\ MAX_INDEX_LIST_NUMBER \in Nat /\ ~ZeroProg.valid
  BY TableAssumption DEF ZeroProg
<1>5. PICK d \in Nat : Extended(t.prog, g, ZeroProg, b, d) /\ n <= Cardinality(Free(g))
  <2>1. PICK table : table = t.prog
    OBVIOUS
  <2>2. DOMAIN table = 0 .. b - 1
    BY <1>2, <2>1
  <2>3. \E d \in Nat : Extended(table, g, ZeroProg, b, d) /\ n <= Cardinality(Free(g))
    BY <1>3, <1>4, <2>1, <2>2, GrownFacts, Zenon
  <2> QED BY <2>1, <2>3
<1>6. g \in [0 .. d - 1 -> ProgRec] /\ DOMAIN g = 0 .. d - 1
  <2>1. ZeroProg \in ProgRec
    BY DEF ZeroProg, ZeroList, ProgRec, ListRec
  <2>2. \A i \in 0 .. d - 1 : g[i] \in ProgRec
    <3> SUFFICES ASSUME NEW i \in 0 .. d - 1 PROVE g[i] \in ProgRec
      OBVIOUS
    <3>1. i < b => i \in 0 .. b - 1
      OBVIOUS
    <3> QED BY <1>2, <1>5, <2>1, <3>1 DEF Extended
  <2> QED BY <1>5, <2>2 DEF Extended
<1>7. PICK u : u = [t EXCEPT !.prog = g]
  BY Zenon
<1>8. u \in Tables(a, d, c) /\ u.ts = t.ts /\ u.pid = t.pid /\ u.prog = g
  BY <1>1, <1>6, <1>7, Zenon DEF Tables
<1>9. Grows(t, u)
  <2>1. Shape(u)
    BY <1>8 DEF Shape
  <2>2. DOMAIN t.prog \subseteq DOMAIN u.prog /\ \A j \in DOMAIN t.prog : u.prog[j] = t.prog[j]
    BY <1>2, <1>5, <1>6, <1>8 DEF Extended
  <2>3. \A j \in DOMAIN u.prog : j \notin DOMAIN t.prog => u.prog[j] = ZeroProg
    BY <1>2, <1>5, <1>6, <1>8 DEF Extended
  <2> QED BY <1>8, <2>1, <2>2, <2>3 DEF Grows
<1>10. Fresh(g, FirstOf(Free(g), n), n)
  <2>1. DOMAIN g \subseteq Nat /\ IsFiniteSet(DOMAIN g)
    BY <1>6, FS_Interval
  <2> QED BY <1>5, <2>1, FirstOfFresh
<1>11. PICK r : r = UnusedProgs(t, n)
  OBVIOUS
<1>12. r.err = "SUCCESS" /\ r.t = u /\ r.list = FirstOf(Free(g), n)
  BY <1>3, <1>4, <1>7, <1>11 DEF UnusedProgs
<1>13. GrowsProgs(t, r, n)
  BY <1>8, <1>9, <1>10, <1>12 DEF GrowsProgs
<1> QED BY <1>11, <1>13

Nothing(S) == [x \in S |-> << >>]

\* Nothing put behind lists.
LEMMA JoinedNothing ==
    ASSUME NEW S, NEW f \in [S -> Seq(Nat)]
    PROVE  Joined(S, f, Nothing(S)) = f /\ Nothing(S) \in [S -> Seq(Nat)] /\ Once(S, Nothing(S))
<1>1. Nothing(S) \in [S -> Seq(Nat)]
  BY DEF Nothing
<1>2. \A x \in S : f[x] \o Nothing(S)[x] = f[x]
  <2> SUFFICES ASSUME NEW x \in S PROVE f[x] \o Nothing(S)[x] = f[x]
    OBVIOUS
  <2>1. Nothing(S)[x] = << >> /\ f[x] \in Seq(Nat)
    BY DEF Nothing
  <2> QED BY <2>1, ConcatEmptySeq
<1>3. Joined(S, f, Nothing(S)) = [x \in S |-> f[x]]
  BY <1>2 DEF Joined
<1>4. Once(S, Nothing(S))
  BY DEF Once, Nothing
<1> QED BY <1>1, <1>3, <1>4

\* The tables u have the PIDs of t, where nothing but the links of the lists open in NW changed.
PIDsTouched(t, u, W, NW) ==
    /\ SameEntries(t, u) /\ DOMAIN t.pid \subseteq DOMAIN u.pid
    /\ \A j \in DOMAIN t.pid :
        u.pid[j].type = t.pid[j].type /\ u.pid[j].ts = t.pid[j].ts /\ u.pid[j].prog = t.pid[j].prog
    /\ \A j \in DOMAIN u.pid : j \notin DOMAIN t.pid => u.pid[j].type = "UNKNOWN"
    /\ \A n \in Names : n \notin NW =>
        /\ \A k \in 1 .. Len(W[n]) : u.pid[W[n][k]].next = t.pid[W[n][k]].next
        /\ Owned(u, n) => HeadRec(u, n) = HeadRec(t, n)

\* A layout does not depend on the links of the lists that are open, nor on the entries not in use.
LEMMA TouchPIDs ==
    ASSUME NEW t, NEW P, NEW W, NEW OP, NEW OW, NEW R, Layout(t, P, W, OP, OW, R),
           NEW u, Shape(u), NEW NW, OW \subseteq NW, NEW NR, Known(u, NR), PIDsTouched(t, u, W, NW)
    PROVE  Layout(u, P, W, OP, NW, NR)
<1>0. W \in [Names -> Seq(Nat)] /\ \A n \in Names : Len(W[n]) < MAX_INDEX_LIST_NUMBER /\ Len(W[n]) \in Nat
  <2>1. W \in [Names -> Seq(Nat)]
    BY DEF Layout, Placed
  <2> QED BY <2>1 DEF Layout, Short
<1>1. PICK X : X = Nothing(Names)
  OBVIOUS
<1>2. Joined(Names, W, X) = W /\ X \in [Names -> Seq(Nat)] /\ Once(Names, X)
  BY <1>0, <1>1, JoinedNothing
<1>3. \A n \in Names : X[n] = << >> /\ Len(X[n]) = 0
  BY <1>1 DEF Nothing
<1>4. \A n \in Names : Owned(u, n) => Owned(t, n)
  <2> SUFFICES ASSUME NEW n \in Names, Owned(u, n) PROVE Owned(t, n)
    OBVIOUS
  <2>1. n[1] \in {"EMMPID", "OTHERPID"} => n[2] \in DOMAIN t.ts /\ t.ts[n[2]].valid
    BY DEF PIDsTouched, SameEntries, Owned
  <2>2. n[1] \in {"PCRPID", "ESPID", "PS_ECMPID"} => n[2] \in DOMAIN t.prog /\ t.prog[n[2]].valid
    BY DEF PIDsTouched, SameEntries, Owned
  <2>3. n[1] = "ES_ECMPID" => n[2] \in DOMAIN t.pid /\ t.pid[n[2]].type = "ESPID"
    BY DEF PIDsTouched, Owned
  <2> QED BY <2>1, <2>2, <2>3 DEF Owned
<1>5. PIDsAdded(t, u, W, X, NW)
  <2>1. \A n \in Names : \A k \in 1 .. Len(X[n]) : FALSE
    BY <1>3
  <2>2. \A j \in DOMAIN u.pid : u.pid[j].type \notin {"UNKNOWN", "PCRPID"} =>
          j \in DOMAIN t.pid /\ t.pid[j].type \notin {"UNKNOWN", "PCRPID"}
    BY DEF PIDsTouched
  <2>3. ASSUME NEW n \in Names PROVE Len(W[n]) + Len(X[n]) < MAX_INDEX_LIST_NUMBER
    <3>1. Len(X[n]) = 0 /\ Len(W[n]) \in Nat /\ Len(W[n]) < MAX_INDEX_LIST_NUMBER
      BY <1>0, <1>3
    <3>2. Len(W[n]) + Len(X[n]) = Len(W[n])
      BY <3>1
    <3> QED BY <3>1, <3>2
  <2>4. \A n \in Names : n \notin NW =>
        /\ \A k \in 1 .. Len(W[n]) : u.pid[W[n][k]].next = t.pid[W[n][k]].next
        /\ Owned(u, n) => Owned(t, n) /\ HeadRec(u, n) = HeadRec(t, n)
    BY <1>4 DEF PIDsTouched
  <2>5. SameEntries(t, u) /\ DOMAIN t.pid \subseteq DOMAIN u.pid
    BY DEF PIDsTouched
  <2>6. \A j \in DOMAIN t.pid : t.pid[j].type # "UNKNOWN" =>
        u.pid[j].type = t.pid[j].type /\ u.pid[j].ts = t.pid[j].ts /\ u.pid[j].prog = t.pid[j].prog
    BY DEF PIDsTouched
  <2> QED BY <1>2, <2>1, <2>2, <2>3, <2>4, <2>5, <2>6 DEF PIDsAdded
<1>6. Layout(u, P, Joined(Names, W, X), OP, NW, NR)
  BY <1>5, AddPIDs
<1> QED BY <1>2, <1>6

\* ... where nothing changed but the links of the programs of the streams open in NOP, and the heads of
\* the lists open in NW.
ProgsTouched(t, u, P, NOP, NW) ==
    /\ u.pid = t.pid /\ DOMAIN u.ts = DOMAIN t.ts /\ DOMAIN t.prog \subseteq DOMAIN u.prog
    /\ \A i \in DOMAIN t.ts : t.ts[i].valid => u.ts[i].valid
    /\ \A p \in DOMAIN t.prog : u.prog[p].valid = t.prog[p].valid /\ u.prog[p].ts = t.prog[p].ts
    /\ \A p \in DOMAIN u.prog : p \notin DOMAIN t.prog => ~u.prog[p].valid
    /\ \A i \in DOMAIN t.ts : i \notin NOP =>
        /\ \A k \in 1 .. Len(P[i]) : u.prog[P[i][k]].next = t.prog[P[i][k]].next
        /\ u.ts[i].valid => t.ts[i].valid /\ u.ts[i].prog = t.ts[i].prog
    /\ \A n \in Names : n \notin NW /\ Owned(u, n) => Owned(t, n) /\ HeadRec(u, n) = HeadRec(t, n)

\* Nor on the programs whose list is open, as far as their own lists are open too.
LEMMA TouchProgs ==
    ASSUME NEW t, NEW P, NEW W, NEW OP, NEW OW, NEW R, Layout(t, P, W, OP, OW, R),
           NEW u, Shape(u), NEW NOP, NEW NW, OP \subseteq NOP, OW \subseteq NW, ProgsTouched(t, u, P, NOP, NW)
    PROVE  Layout(u, P, W, NOP, NW, R)
<1>0. P \in [Nat -> Seq(Nat)] /\ \A i \in Nat : Len(P[i]) < MAX_INDEX_LIST_NUMBER /\ Len(P[i]) \in Nat
  <2>1. P \in [Nat -> Seq(Nat)]
    BY DEF Layout, Placed
  <2> QED BY <2>1 DEF Layout, Short
<1>1. PICK Y : Y = Nothing(Nat)
  OBVIOUS
<1>2. Joined(Nat, P, Y) = P /\ Y \in [Nat -> Seq(Nat)] /\ Once(Nat, Y)
  BY <1>0, <1>1, JoinedNothing
<1>3. \A i \in Nat : Y[i] = << >> /\ Len(Y[i]) = 0
  BY <1>1 DEF Nothing
<1>5. ProgsAdded(t, u, P, Y, NOP, NW)
  <2>1. \A i \in Nat : \A k \in 1 .. Len(Y[i]) : FALSE
    BY <1>3
  <2>2. \A p \in DOMAIN u.prog : u.prog[p].valid => p \in DOMAIN t.prog /\ t.prog[p].valid
    BY DEF ProgsTouched
  <2>3. ASSUME NEW i \in Nat PROVE Len(P[i]) + Len(Y[i]) < MAX_INDEX_LIST_NUMBER
    <3>1. Len(Y[i]) = 0 /\ Len(P[i]) \in Nat /\ Len(P[i]) < MAX_INDEX_LIST_NUMBER
      BY <1>0, <1>3
    <3>2. Len(P[i]) + Len(Y[i]) = Len(P[i])
      BY <3>1
    <3> QED BY <3>1, <3>2
  <2>4. \A p \in DOMAIN t.prog : t.prog[p].valid => u.prog[p].valid /\ u.prog[p].ts = t.prog[p].ts
    BY DEF ProgsTouched
  <2> QED BY <1>2, <2>1, <2>2, <2>3, <2>4 DEF ProgsAdded, ProgsTouched
<1>6. Layout(u, Joined(Nat, P, Y), W, NOP, NW, R)
  BY <1>5, AddProgs
<1> QED BY <1>2, <1>6

\* A layout of a larger array of PIDs.
LEMMA MorePIDs ==
    ASSUME NEW t, NEW P, NEW W, NEW OP, NEW OW, NEW R, Layout(t, P, W, OP, OW, R),
           NEW u, Grows(t, u), u.prog = t.prog, \A j \in R : j \in DOMAIN t.pid
    PROVE  Layout(u, P, W, OP, OW, R)
<1>1. Known(u, R)
  <2>1. \A j \in DOMAIN u.pid : j \notin DOMAIN t.pid => u.pid[j].type = "UNKNOWN" /\ ~u.pid[j].valid
    BY DEF Grows, ZeroPID
  <2> QED BY <2>1 DEF Layout, Known, Grows
<1>2. PIDsTouched(t, u, W, OW)
  <2>1. SameEntries(t, u)
    BY DEF SameEntries, Grows
  <2>2. \A n \in Names : \A k \in 1 .. Len(W[n]) : u.pid[W[n][k]].next = t.pid[W[n][k]].next
    BY Zenon DEF Layout, Placed, Grows
  <2>3. ASSUME NEW n \in Names, Owned(u, n) PROVE HeadRec(u, n) = HeadRec(t, n)
    <3>1. n[1] = "ES_ECMPID" => n[2] \in DOMAIN t.pid
      BY <2>3 DEF Owned, Grows, ZeroPID
    <3> QED BY <3>1 DEF HeadRec, Grows
  <2>4. \A j \in DOMAIN u.pid : j \notin DOMAIN t.pid => u.pid[j].type = "UNKNOWN"
    BY DEF Grows, ZeroPID
  <2> QED BY <2>1, <2>2, <2>3, <2>4 DEF PIDsTouched, Grows
<1>3. Shape(u)
  BY DEF Grows
<1> QED BY <1>1, <1>2, <1>3, TouchPIDs

\* A layout of a larger array of programs.
LEMMA MoreProgs ==
    ASSUME NEW t, NEW P, NEW W, NEW OP, NEW OW, NEW R, Layout(t, P, W, OP, OW, R),
           NEW u, Grows(t, u), u.pid = t.pid
    PROVE  Layout(u, P, W, OP, OW, R)
<1>1. ProgsTouched(t, u, P, OP, OW)
  <2>1. \A i \in DOMAIN t.ts : \A k \in 1 .. Len(P[i]) : u.prog[P[i][k]].next = t.prog[P[i][k]].next
    <3>1. \A i \in DOMAIN t.ts : i \in Nat
      BY ShapeFacts DEF Layout
    <3> QED BY <3>1, Zenon DEF Layout, Placed, Grows
  <2>2. ASSUME NEW n \in Names, Owned(u, n) PROVE Owned(t, n) /\ HeadRec(u, n) = HeadRec(t, n)
    <3>1. n[1] \in {"PCRPID", "ESPID", "PS_ECMPID"} => n[2] \in DOMAIN t.prog
      BY <2>2 DEF Owned, Grows, ZeroProg
    <3>2. n[1] \in Types \ {"UNKNOWN"}
      BY NameFacts
    <3> QED BY <2>2, <3>1, <3>2 DEF HeadRec, Grows, Owned, Types
  <2>3. \A p \in DOMAIN u.prog : p \notin DOMAIN t.prog => ~u.prog[p].valid
    BY DEF Grows, ZeroProg
  <2> QED BY <2>1, <2>2, <2>3 DEF ProgsTouched, Grows
<1>2. Shape(u)
  BY DEF Grows
<1> QED BY <1>1, <1>2, TouchProgs

\* Open lists that are linked can be closed.
LEMMA Close ==
    ASSUME NEW t, NEW P, NEW W, NEW OP, NEW OW, NEW R, Layout(t, P, W, OP, OW, R), NEW NOP, NEW NW,
           \A i \in DOMAIN t.ts : t.ts[i].valid /\ i \in OP \ NOP => Chain(t.prog, t.ts[i].prog, P[i]),
           \A n \in Names : Owned(t, n) /\ n \in OW \ NW => Strung(t, n, W[n])
    PROVE  Layout(t, P, W, NOP, NW, R)
<1>1. Linked(t, P, W, NOP, NW)
  BY DEF Layout, Linked
<1> QED BY <1>1 DEF Layout

=============================================================================
