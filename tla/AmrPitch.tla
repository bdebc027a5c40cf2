------------------------------ MODULE AmrPitch ------------------------------
(***************************************************************************)
(* The long-term prediction of the decoder: the pitch lag of a subframe,   *)
(* received or concealed, and the samples of the excitation buffer that it *)
(* makes the decoder read.                                                 *)
(*                                                                         *)
(* One action is one subframe.  The samples are left out; what is kept of  *)
(* the buffer is which of its samples have the scale of the subframe.      *)
(***************************************************************************)
EXTENDS Integers

CONSTANTS
    Abs8, Abs9,    \* absolute lag indices of 8 and 9 bits
    Rel5, Rel6,    \* relative lag indices of 5 and 6 bits
    Noises,        \* values of noise_gen_amrwb
    Scalings       \* values of Q_new

ASSUME PitchAssumption ==
    /\ Abs8 \subseteq 0..255 /\ Abs9 \subseteq 0..511
    /\ Rel5 \subseteq 0..31 /\ Rel6 \subseteq 0..63
    /\ Noises \subseteq Int
    /\ Scalings \subseteq 0..8

VARIABLES
    coder,      \* mode of the frame: "lowest" (6.6), "low" (8.85) or "high"
    lost,       \* bfi and unusable_frame
    sub,        \* subframes of the frame that are decoded
    T0,         \* the lag of the last one ...
    T0_frac,    \* ... and its fraction, in quarters
    T0_min,     \* the lag that relative indices start from
    lag_hist,   \* lags of the last five good subframes, the last one first
    old_T0,     \* the last good lag
    Q_old,      \* scale of the excitation
    rescaled    \* samples from here on have the scale Q_old

pitchVars == <<coder, lost, sub, T0, T0_frac, T0_min, lag_hist, old_T0, Q_old, rescaled>>

PIT_MIN    == 34
PIT_FR2    == 128
PIT_FR1_9b == 160
PIT_FR1_8b == 92
PIT_MAX    == 231
L_INTERPOL == 17
L_SUBFR    == 64
L_FRAME    == 256
Q_MAX      == 8

Lags == PIT_MIN..PIT_MAX

(* The buffer starts with the past that a prediction may need. *)
BufferStart == -(PIT_MAX + L_INTERPOL)

-----------------------------------------------------------------------------
(* The lag that was received, as its integer part and quarters. *)

AbsoluteLow(index) ==
    IF index < (PIT_FR1_8b - PIT_MIN) * 2
    THEN [lag |-> PIT_MIN + index \div 2, frac |-> 2 * (index % 2)]
    ELSE [lag |-> index + (PIT_FR1_8b - (PIT_FR1_8b - PIT_MIN) * 2), frac |-> 0]

Quarters == (PIT_FR2 - PIT_MIN) * 4
Halves   == (PIT_FR1_9b - PIT_FR2) * 2

AbsoluteHigh(index) ==
    IF index < Quarters
    THEN [lag |-> PIT_MIN + index \div 4, frac |-> index % 4]
    ELSE IF index < Quarters + Halves
    THEN [lag |-> PIT_FR2 + (index - Quarters) \div 2, frac |-> 2 * ((index - Quarters) % 2)]
    ELSE [lag |-> index + (PIT_FR1_9b - Quarters - Halves), frac |-> 0]

(* T0_min: where the lags of the next subframe may start. *)
LowestRelative(lag) ==
    LET min == IF lag - 8 < PIT_MIN THEN PIT_MIN ELSE lag - 8
    IN  IF min + 15 > PIT_MAX THEN PIT_MAX - 15 ELSE min

Relative(index, steps) ==
    [lag |-> T0_min + index \div steps, frac |-> (4 \div steps) * (index % steps)]

Absolute == sub = 0 \/ (sub = 2 /\ coder # "lowest")

(* The lags that the bits may encode; of a lost frame, the bits of the one *)
(* before are read.                                                        *)
Received ==
    IF Absolute
    THEN IF coder = "high" THEN {AbsoluteHigh(i) : i \in Abs9} ELSE {AbsoluteLow(i) : i \in Abs8}
    ELSE IF coder = "high" THEN {Relative(i, 4) : i \in Rel6} ELSE {Relative(i, 2) : i \in Rel5}

-----------------------------------------------------------------------------
(* lagconceal, for a lost frame. *)

(* insert: the elements of s[0..n-1] that are greater than x move up. *)
insert(s, n, x) ==
    LET kept(i) == \E k \in i..(n - 1) : s[k] <= x IN
    [i \in 0..4 |->
        IF i > n \/ kept(i) THEN s[i]
        ELSE IF i = 0 \/ kept(i - 1) THEN x
        ELSE s[i - 1]]

(* insertion_sort: an insertion changes nothing above it. *)
insertion_sort(s) ==
    insert(insert(insert(insert(s, 1, s[1]), 2, s[2]), 3, s[3]), 4, s[4])

(* mult_int16 *)
mult(a, b) == (a * b) \div 32768

(* The lag is weighted towards bigger lags, with a random variation. *)
Weighted(sorted, noise) ==
    LET dif == IF sorted[4] - sorted[2] > 40 THEN 40 ELSE sorted[4] - sorted[2]
    IN  mult(sorted[2] + sorted[3] + sorted[4], 10923) + mult(dif \div 2, noise)

(* Mutant: the lag is not kept from exceeding the largest one before. *)
ClampBelow(lag, min, max) == IF lag < min THEN min ELSE lag

Clamp(lag, min, max) == IF lag > max THEN max ELSE IF lag < min THEN min ELSE lag

(* "New lag is not allowed to be bigger or smaller than last lag values". *)
BetweenLast(lag) ==
    LET max == CHOOSE m \in Lags : \E i \in 0..4 : m = lag_hist[i] /\ \A k \in 0..4 : lag_hist[k] <= m
        min == CHOOSE m \in Lags : \E i \in 0..4 : m = lag_hist[i] /\ \A k \in 0..4 : lag_hist[k] >= m
    IN  Clamp(lag, min, max)

(* Which of the three rules applies depends on the gains. *)
Concealed ==
    LET spread == {lag_hist[i] - lag_hist[k] : i \in 0..4, k \in 0..4}
    IN  {BetweenLast(lag_hist[0])}
          \cup (IF \A d \in spread : d < 10 THEN {BetweenLast(old_T0)} ELSE {})
          \cup {BetweenLast(Weighted(insertion_sort(lag_hist), noise)) : noise \in Noises}

-----------------------------------------------------------------------------
(* Pred_lt4 *)

(* Mutant: the filter starts one sample early. *)
FirstReadEarly(lag, frac, n) == n - lag - (IF frac > 0 THEN 1 ELSE 0) - 17

(* The samples that the one at n is interpolated from: two for each of the *)
(* 16 taps on either side of the lag.                                      *)
FirstRead(lag, frac, n) == n - lag - (IF frac > 0 THEN 1 ELSE 0) - 15

LastRead(lag, frac, n) == FirstRead(lag, frac, n) + 31

(* Samples are computed four at a time: what is written before that one.   *)
Written(n) == n - (n % 4)

-----------------------------------------------------------------------------
PitchTypeOK ==
    /\ coder \in {"lowest", "low", "high"}
    /\ lost \in BOOLEAN
    /\ sub \in 0..4
    /\ T0 \in Int /\ T0_frac \in 0..3
    /\ T0_min \in Int
    /\ lag_hist \in [0..4 -> Int]
    /\ old_T0 \in Int
    /\ Q_old \in 0..Q_MAX
    /\ rescaled \in BufferStart..L_FRAME

(* pvDecoder_AmrWb_Reset *)
PitchInit ==
    /\ coder = "lowest" /\ lost = FALSE
    /\ sub = 4
    /\ T0 = 64 /\ T0_frac = 0 /\ T0_min = PIT_MIN
    /\ lag_hist = [i \in 0..4 |-> 64]
    /\ old_T0 = 64
    /\ Q_old = Q_MAX
    /\ rescaled = BufferStart

(* The end of the excitation becomes the past of the next frame. *)
StartFrame ==
    /\ sub = 4
    /\ coder' \in {"lowest", "low", "high"}
    /\ lost' \in BOOLEAN
    /\ sub' = 0
    /\ rescaled' = IF rescaled - L_FRAME < BufferStart THEN BufferStart ELSE rescaled - L_FRAME
    /\ UNCHANGED <<T0, T0_frac, T0_min, lag_hist, old_T0, Q_old>>

(* Mutant: only the subframe itself is brought to the new scale. *)
RescaleFromSubframe == sub * L_SUBFR

(* scale_signal: the first sample that gets the scale of the subframe. *)
RescaleFrom == BufferStart + sub * L_SUBFR

Rescale ==
    /\ Q_old' \in Scalings
    /\ rescaled' = IF Q_old' = Q_old /\ rescaled <= RescaleFrom THEN rescaled ELSE RescaleFrom

KeepRelative(p) == T0_min' = IF Absolute THEN LowestRelative(p.lag) ELSE T0_min

GoodSubframe ==
    /\ sub < 4 /\ ~lost
    /\ \E p \in Received :
          /\ T0' = p.lag /\ T0_frac' = p.frac
          /\ KeepRelative(p)
          /\ lag_hist' = [i \in 0..4 |-> IF i = 0 THEN p.lag ELSE lag_hist[i - 1]]
          /\ old_T0' = p.lag
    /\ Rescale
    /\ sub' = sub + 1
    /\ UNCHANGED <<coder, lost>>

LostSubframe ==
    /\ sub < 4 /\ lost
    /\ \E p \in Received : KeepRelative(p)
    /\ T0' \in Concealed /\ T0_frac' = 0
    /\ Rescale
    /\ sub' = sub + 1
    /\ UNCHANGED <<coder, lost, lag_hist, old_T0>>

(* pvDecoder_AmrWb_Reset(st, 0) after comfort noise: the history of lags   *)
(* is kept.                                                                *)
ForgetExcitation ==
    /\ sub = 4
    /\ old_T0' = 64 /\ Q_old' = Q_MAX /\ rescaled' = BufferStart
    /\ UNCHANGED <<coder, lost, sub, T0, T0_frac, T0_min, lag_hist>>

PitchNext == StartFrame \/ GoodSubframe \/ LostSubframe \/ ForgetExcitation

PitchSpec == PitchInit /\ [][PitchNext]_pitchVars

-----------------------------------------------------------------------------
(* Properties. *)

(* A lag is one that the coder can send, whether it was received, concealed *)
(* from the lags before or read from bits that are not of the frame.        *)
LagInRange ==
    /\ T0 \in Lags /\ old_T0 \in Lags /\ \A i \in 0..4 : lag_hist[i] \in Lags
    /\ T0_min \in PIT_MIN..(PIT_MAX - 15)

(* The prediction reads samples that exist: not before the buffer, and not *)
(* those that it has yet to write, the one beyond the subframe included.   *)
PredictionReadsThePast ==
    \A n \in 0..L_SUBFR :
        /\ FirstRead(T0, T0_frac, n) >= BufferStart
        /\ LastRead(T0, T0_frac, n) < Written(n)

(* What is read, and what the end of a frame keeps and normalises, has one *)
(* scale, that of Q_old, whatever the scales of the subframes before.      *)
ExcitationHasOneScale ==
    /\ sub < 4 => rescaled <= sub * L_SUBFR + BufferStart
    /\ sub = 4 => rescaled <= 0 /\ rescaled <= L_FRAME + BufferStart

(* insertion_sort sorts the history it is given. *)
HistorySorted ==
    \A sorted \in {insertion_sort(lag_hist)} :
        /\ \A i \in 0..3 : sorted[i] <= sorted[i + 1]
        /\ \A i \in 0..4 : \E k \in 0..4 : sorted[i] = lag_hist[k]
        /\ \A i \in 0..4 : \E k \in 0..4 : sorted[k] = lag_hist[i]
=============================================================================
