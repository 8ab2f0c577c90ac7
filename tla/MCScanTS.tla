-------------------------------- MODULE MCScanTS --------------------------------
(* ScanPromise (so ScanTS) with two channels and small multiplexes. *)
EXTENDS ScanPromise, TLC

Stream1(pid) == [pid |-> pid, ecm |-> << >>]

\* "two": two programs with a PCR, one with a scrambled program level, EMM and another PID.
\* "stuck": a second program without PMT on air, so without PCR: the stream cannot be deleted.
\* "ecm": a stream with ECMs of its own.
MCOnAir ==
    [f \in {"two", "stuck", "ecm"} |->
        IF f = "two" THEN
            [pat |-> TRUE, emm |-> <<30>>, other |-> <<40, 41>>, progs |->
                <<[sid |-> 1, pmt |-> TRUE, pcr |-> 11, es |-> <<Stream1(11), Stream1(12)>>, cas |-> <<13, 14>>],
                  [sid |-> 2, pmt |-> TRUE, pcr |-> 21, es |-> <<Stream1(21)>>, cas |-> << >>]>>]
        ELSE IF f = "stuck" THEN
            [pat |-> TRUE, emm |-> << >>, other |-> <<50>>, progs |->
                <<[sid |-> 3, pmt |-> TRUE, pcr |-> 31, es |-> <<Stream1(31)>>, cas |-> << >>],
                  [sid |-> 4, pmt |-> FALSE, pcr |-> 8191, es |-> << >>, cas |-> << >>]>>]
        ELSE
            [pat |-> TRUE, emm |-> << >>, other |-> << >>, progs |->
                <<[sid |-> 5, pmt |-> TRUE, pcr |-> 51,
                   es |-> <<Stream1(51), [pid |-> 52, ecm |-> <<53, 54>>]>>, cas |-> <<55>>]>>]]

\* The hypothesis of the theorems of ScanTS_proofs.
ASSUME WhatIsOnAir == AirFits
=============================================================================
