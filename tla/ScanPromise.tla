------------------------------ MODULE ScanPromise ------------------------------
(***************************************************************************)
(* ScanTS keeps the promise of ChannelTables.  The history variable seen   *)
(* is what the lists of the tables hold at every moment, with labels in    *)
(* place of indices; it changes nothing of what ScanTS does.               *)
(***************************************************************************)
EXTENDS ScanTS

VARIABLE seen

\* A multiplex as a scan reads it.
AsRead(m) ==
    [progs |-> IF ~m.pat THEN << >>
               ELSE [k \in DOMAIN m.progs |->
                        LET p == m.progs[k]
                        IN  IF p.pmt THEN [sid |-> p.sid, pcr |-> p.pcr, es |-> p.es, cas |-> p.cas]
                            ELSE [sid |-> p.sid, pcr |-> NoPID, es |-> << >>, cas |-> << >>]],
     emm   |-> IF m.pat THEN m.emm ELSE << >>,
     other |-> m.other]

Seen(now, file, scan) ==
    [dir   |-> Directory(now),
     saved |-> Directory(file),
     read  |-> [c \in Channels |-> IF scan[c] = NoTemp THEN NoTable ELSE View(scan[c], 0)]]

PInit == Init /\ seen = Seen(tab, stored, temp)
PNext ==
    /\ Next
    /\ seen' = IF UNCHANGED <<tab, stored, temp>> THEN seen ELSE Seen(tab', stored', temp')
PSpec == PInit /\ [][PNext]_<<vars, seen>> /\ Fairness

Promise == INSTANCE ChannelTables WITH
    dir <- seen.dir, saved <- seen.saved, read <- seen.read,
    Multiplexes <- {AsRead(OnAir[f]) : f \in LockedFreqs} \cup {AsRead(NoMultiplex)}

\* The shared tables are one table per channel: no scan changes another channel's, a scan publishes
\* all of what it read or nothing, a deletion stops only at what cannot be deleted, and a restart
\* brings back what was stored.
KeepsPromise == Promise!Spec
=============================================================================
