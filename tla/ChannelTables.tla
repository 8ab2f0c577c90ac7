----------------------------- MODULE ChannelTables -----------------------------
(***************************************************************************)
(* What the tables of the input streams are for: one table per channel, of *)
(* its own, replaced as a whole.  A scan publishes what it read only where *)
(* there is no table; a deletion ends at the first program that cannot be  *)
(* deleted; a restart finds the tables as they were last stored.           *)
(***************************************************************************)
EXTENDS Integers, Sequences, SequencesExt

CONSTANTS
    Channels, NoPID, NoTable,
    Multiplexes     \* what a scan may read

VARIABLES
    dir,        \* the table of each channel
    saved,      \* the tables as they were last stored
    read        \* what the scanner of each channel has read and not published

vars == <<dir, saved, read>>

Empty == [c \in Channels |-> NoTable]

Init == dir = Empty /\ saved = Empty /\ read = Empty

\* The PCR is deleted only where there is none, and ECMs of a stream have lost their owner.
Deletable(p) == p.pcr # NoPID /\ \A k \in DOMAIN p.es : p.es[k].ecm = << >>

From(s, k) == SubSeq(s, k, Len(s))

\* What a deletion leaves of a table.
Left(m) ==
    LET stuck == {k \in DOMAIN m.progs : ~Deletable(m.progs[k])}
        k == CHOOSE i \in stuck : \A j \in stuck : i <= j
        es == m.progs[k].es
        kept == IF m.progs[k].pcr = NoPID THEN es
                ELSE From(es, CHOOSE i \in DOMAIN es : es[i].ecm # << >> /\ \A j \in 1 .. i - 1 : es[j].ecm = << >>)
    IN  IF m = NoTable \/ stuck = {} THEN NoTable
        ELSE [m EXCEPT !.progs = <<[m.progs[k] EXCEPT !.es = kept]>> \o From(m.progs, k + 1)]

Delete(c) ==
    /\ dir[c] # NoTable
    /\ UNCHANGED read
    /\ dir' = [dir EXCEPT ![c] = Left(@)]
    /\ saved' = IF dir'[c] = NoTable THEN dir' ELSE saved

Publish(c) ==
    /\ read[c] # NoTable
    /\ IF dir[c] = NoTable THEN dir' = [dir EXCEPT ![c] = read[c]] /\ saved' = dir'
       ELSE UNCHANGED <<dir, saved>>
    /\ read' = [read EXCEPT ![c] = NoTable]

Read(c) == \E m \in Multiplexes : read' = [read EXCEPT ![c] = m] /\ UNCHANGED <<dir, saved>>

Clear == dir' = Empty /\ saved' = Empty /\ UNCHANGED read

Restart ==
    /\ dir' \in {saved, Empty}
    /\ saved' = dir'
    /\ read' = Empty

Next == (\E c \in Channels : Delete(c) \/ Publish(c) \/ Read(c)) \/ Clear \/ Restart

Spec == Init /\ [][Next]_vars
=============================================================================
