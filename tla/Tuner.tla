--------------------------------- MODULE Tuner ---------------------------------
(***************************************************************************)
(* The tuners.  The web thread writes the parameters of a tuner; the       *)
(* thread Tuner_process looks at the tuners in turn, tunes the ones whose  *)
(* parameters changed and tells the scan threads with b_IsLockFreqChange.  *)
(* The parameters of a tuner are its frequency, the only field that        *)
(* Tuner_c_IsLockParamChange compares.                                     *)
(***************************************************************************)
EXTENDS Integers

CONSTANTS
    DTV4U_TUNER_CHAN_NUM,   \* 4 in the code; as many as channels
    Freqs,
    LockedFreqs,            \* the frequencies with a signal the tuner can lock
    DefaultFreq,
    MaxSets                 \* bound of the exploration: settings from the web page

NoFreq == "not tuned"       \* after a reset

ASSUME TunerAssumption ==
    /\ DTV4U_TUNER_CHAN_NUM \in Nat \ {0}
    /\ LockedFreqs \subseteq Freqs /\ DefaultFreq \in Freqs /\ NoFreq \notin Freqs
    /\ MaxSets \in Nat

VARIABLES
    stCParams,
    stCOldParams,
    tuned,                  \* what each tuner was last told (lockSignal)
    b_IsLockFreqChange,
    tunerAt,                \* where Tuner_process is
    u8TunerIdx,
    sets

tunerVars == <<stCParams, stCOldParams, tuned, b_IsLockFreqChange, tunerAt, u8TunerIdx, sets>>

Tuners == 0 .. DTV4U_TUNER_CHAN_NUM - 1

\* Channel ch is fed by this tuner.
tuner_ts_map(ch) == DTV4U_TUNER_CHAN_NUM - 1 - ch

TunerTypeOK ==
    /\ stCParams \in [Tuners -> Freqs]
    /\ stCOldParams \in [Tuners -> Freqs]
    /\ tuned \in [Tuners -> Freqs \cup {NoFreq}]
    /\ b_IsLockFreqChange \in [Tuners -> BOOLEAN]
    /\ tunerAt \in {"poll", "lock", "flag"}
    /\ u8TunerIdx \in Tuners
    /\ sets \in 0 .. MaxSets

\* Tuner_init, after the parameters were read from the file.
TunerStart(params, old, at, flag, place, idx) ==
    /\ old = params
    /\ at = [k \in Tuners |-> NoFreq]
    /\ flag = [k \in Tuners |-> FALSE]
    /\ place = "poll"
    /\ idx = 0

isChannelLock(k) == tuned[k] \in LockedFreqs

\* A tuner that is not locked is tuned again; then comes the next one.
CheckLock ==
    /\ tuned' = IF isChannelLock(u8TunerIdx) THEN tuned
                ELSE [tuned EXCEPT ![u8TunerIdx] = stCParams[u8TunerIdx]]
    /\ u8TunerIdx' = (u8TunerIdx + 1) % DTV4U_TUNER_CHAN_NUM
    /\ tunerAt' = "poll"

IslockParamChange ==
    /\ tunerAt = "poll"
    /\ stCOldParams[u8TunerIdx] # stCParams[u8TunerIdx]
    /\ stCOldParams' = [stCOldParams EXCEPT ![u8TunerIdx] = stCParams[u8TunerIdx]]
    /\ tunerAt' = "lock"
    /\ UNCHANGED <<stCParams, tuned, b_IsLockFreqChange, u8TunerIdx, sets>>

NoParamChange ==
    /\ tunerAt = "poll"
    /\ stCOldParams[u8TunerIdx] = stCParams[u8TunerIdx]
    /\ CheckLock
    /\ UNCHANGED <<stCParams, stCOldParams, b_IsLockFreqChange, sets>>

lockSignal ==
    /\ tunerAt = "lock"
    /\ tuned' = [tuned EXCEPT ![u8TunerIdx] = stCParams[u8TunerIdx]]
    /\ tunerAt' = "flag"
    /\ UNCHANGED <<stCParams, stCOldParams, b_IsLockFreqChange, u8TunerIdx, sets>>

SetLockFreqChangeFlag ==
    /\ tunerAt = "flag"
    /\ b_IsLockFreqChange' = [b_IsLockFreqChange EXCEPT ![u8TunerIdx] = TRUE]
    /\ CheckLock
    /\ UNCHANGED <<stCParams, stCOldParams, sets>>

Tuner_process == IslockParamChange \/ NoParamChange \/ lockSignal \/ SetLockFreqChangeFlag

\* The web thread.
SetLockParam(k, f) ==
    /\ sets < MaxSets
    /\ sets' = sets + 1
    /\ f # stCParams[k]
    /\ stCParams' = [stCParams EXCEPT ![k] = f]
    /\ UNCHANGED <<stCOldParams, tuned, b_IsLockFreqChange, tunerAt, u8TunerIdx>>

=============================================================================
