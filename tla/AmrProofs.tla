------------------------------ MODULE AmrProofs ------------------------------
(***************************************************************************)
(* Proofs about AmrPitch, that the lags and the reads of the long-term     *)
(* prediction stay in range for every index that fits its bits, every      *)
(* noise and every scale; about AmrGains and AmrSpectrum, that what stands *)
(* for a lost frame is founded on what was received, and that spectra stay *)
(* in 16 bits and in order; about AmrCodebook, that a decoder takes the    *)
(* bits that an index has and no pulse leaves its track; and about MCAmr,  *)
(* that what is proved of the parts holds of the specification that is     *)
(* checked.                                                                *)
(***************************************************************************)
EXTENDS MCAmr, AmrDecoderProofs, AmrArithmeticProofs, SequenceTheorems

-----------------------------------------------------------------------------
(* The long-term prediction. *)

(* A received lag, with its fraction. *)
Positions == [lag : Lags, frac : 0..3]

(* Every absolute index of 8 bits gives a lag from 34 to 231. *)
LEMMA AbsoluteLowInRange ==
    ASSUME NEW i \in 0..255
    PROVE  AbsoluteLow(i) \in Positions
<1>1. CASE i < 116
  <2>1. i \div 2 \in 0..57 /\ i % 2 \in 0..1
    BY <1>1
  <2> QED
    BY <1>1, <2>1 DEF AbsoluteLow, Positions, Lags, PIT_MIN, PIT_MAX, PIT_FR1_8b
<1>2. CASE i >= 116
  BY <1>2 DEF AbsoluteLow, Positions, Lags, PIT_MIN, PIT_MAX, PIT_FR1_8b
<1> QED
  BY <1>1, <1>2

(* Every absolute index of 9 bits gives a lag from 34 to 231. *)
LEMMA AbsoluteHighInRange ==
    ASSUME NEW i \in 0..511
    PROVE  AbsoluteHigh(i) \in Positions
<1> USE DEF Quarters, Halves, PIT_MIN, PIT_MAX, PIT_FR2, PIT_FR1_9b
<1>1. CASE i < 376
  <2>1. i \div 4 \in 0..93 /\ i % 4 \in 0..3
    BY <1>1
  <2> QED
    BY <1>1, <2>1 DEF AbsoluteHigh, Positions, Lags
<1>2. CASE i >= 376 /\ i < 440
  <2>1. (i - 376) \div 2 \in 0..31 /\ (i - 376) % 2 \in 0..1
    BY <1>2
  <2> QED
    BY <1>2, <2>1 DEF AbsoluteHigh, Positions, Lags
<1>3. CASE i >= 440
  BY <1>3 DEF AbsoluteHigh, Positions, Lags
<1> QED
  BY <1>1, <1>2, <1>3

(* A relative lag is at most 15 above the lowest one. *)
LEMMA RelativeInRange ==
    ASSUME T0_min \in PIT_MIN..(PIT_MAX - 15)
    PROVE  /\ \A i \in 0..31 : Relative(i, 2) \in Positions
           /\ \A i \in 0..63 : Relative(i, 4) \in Positions
<1>1. ASSUME NEW i \in 0..31
      PROVE  Relative(i, 2) \in Positions
  <2>1. i \div 2 \in 0..15 /\ i % 2 \in 0..1 /\ 4 \div 2 = 2
    OBVIOUS
  <2> QED
    BY <2>1 DEF Relative, Positions, Lags, PIT_MIN, PIT_MAX
<1>2. ASSUME NEW i \in 0..63
      PROVE  Relative(i, 4) \in Positions
  <2>1. i \div 4 \in 0..15 /\ i % 4 \in 0..3 /\ 4 \div 4 = 1
    OBVIOUS
  <2> QED
    BY <2>1 DEF Relative, Positions, Lags, PIT_MIN, PIT_MAX
<1> QED
  BY <1>1, <1>2

LEMMA ReceivedInRange ==
    ASSUME T0_min \in PIT_MIN..(PIT_MAX - 15)
    PROVE  Received \subseteq Positions
  BY PitchAssumption, AbsoluteLowInRange, AbsoluteHighInRange, RelativeInRange DEF Received, PitchAssumption

(* The base of the relative lags leaves room for 15 more. *)
LEMMA LowestRelativeInRange ==
    ASSUME NEW lag \in Lags
    PROVE  LowestRelative(lag) \in PIT_MIN..(PIT_MAX - 15)
  BY DEF LowestRelative, Lags, PIT_MIN, PIT_MAX

(* insertion_sort makes lags of lags. *)
LEMMA InsertType ==
    ASSUME NEW s \in [0..4 -> Lags], NEW n \in 0..4, NEW x \in Lags
    PROVE  insert(s, n, x) \in [0..4 -> Lags]
<1> DEFINE kept(i) == \E k \in i..(n - 1) : s[k] <= x
<1>1. ASSUME NEW i \in 0..4, ~(i = 0 \/ kept(i - 1))
      PROVE  s[i - 1] \in Lags
  BY <1>1
<1>2. ASSUME NEW i \in 0..4
      PROVE  (IF i > n \/ kept(i) THEN s[i] ELSE IF i = 0 \/ kept(i - 1) THEN x ELSE s[i - 1]) \in Lags
  <2>1. CASE i > n \/ kept(i)
    BY <2>1
  <2>2. CASE ~(i > n \/ kept(i)) /\ (i = 0 \/ kept(i - 1))
    BY <2>2
  <2>3. CASE ~(i > n \/ kept(i)) /\ ~(i = 0 \/ kept(i - 1))
    BY <1>1, <2>3
  <2> HIDE DEF kept
  <2> QED
    BY <2>1, <2>2, <2>3
<1>3. insert(s, n, x) = [i \in 0..4 |-> IF i > n \/ kept(i) THEN s[i] ELSE IF i = 0 \/ kept(i - 1) THEN x ELSE s[i - 1]]
  BY DEF insert
<1> HIDE DEF kept
<1> QED
  BY <1>2, <1>3

LEMMA SortType ==
    ASSUME NEW s \in [0..4 -> Lags]
    PROVE  insertion_sort(s) \in [0..4 -> Lags]
<1>1. insert(s, 1, s[1]) \in [0..4 -> Lags]
  BY InsertType
<1>2. insert(insert(s, 1, s[1]), 2, s[2]) \in [0..4 -> Lags]
  BY <1>1, InsertType
<1>3. insert(insert(insert(s, 1, s[1]), 2, s[2]), 3, s[3]) \in [0..4 -> Lags]
  BY <1>2, InsertType
<1> QED
  BY <1>3, InsertType DEF insertion_sort

(* The largest and the smallest of five. *)
LEMMA FiveExtremes ==
    ASSUME NEW a \in Int, NEW b \in Int, NEW c \in Int, NEW d \in Int, NEW e \in Int
    PROVE  /\ \E m \in {a, b, c, d, e} : a <= m /\ b <= m /\ c <= m /\ d <= m /\ e <= m
           /\ \E m \in {a, b, c, d, e} : a >= m /\ b >= m /\ c >= m /\ d >= m /\ e >= m
<1>1. \E m \in {a, b} : a <= m /\ b <= m
  OBVIOUS
<1>2. \E m \in {a, b, c} : a <= m /\ b <= m /\ c <= m
  BY <1>1
<1>3. \E m \in {a, b, c, d} : a <= m /\ b <= m /\ c <= m /\ d <= m
  BY <1>2
<1>4. \E m \in {a, b, c, d, e} : a <= m /\ b <= m /\ c <= m /\ d <= m /\ e <= m
  BY <1>3
<1>5. \E m \in {a, b} : a >= m /\ b >= m
  OBVIOUS
<1>6. \E m \in {a, b, c} : a >= m /\ b >= m /\ c >= m
  BY <1>5
<1>7. \E m \in {a, b, c, d} : a >= m /\ b >= m /\ c >= m /\ d >= m
  BY <1>6
<1>8. \E m \in {a, b, c, d, e} : a >= m /\ b >= m /\ c >= m /\ d >= m /\ e >= m
  BY <1>7
<1> QED
  BY <1>4, <1>8

(* A history has a largest and a smallest lag. *)
LEMMA Extremes ==
    ASSUME NEW h \in [0..4 -> Lags]
    PROVE  /\ \E m \in Lags : (\E i \in 0..4 : m = h[i]) /\ \A k \in 0..4 : h[k] <= m
           /\ \E m \in Lags : (\E i \in 0..4 : m = h[i]) /\ \A k \in 0..4 : h[k] >= m
<1>0. /\ h[0] \in Lags /\ h[1] \in Lags /\ h[2] \in Lags /\ h[3] \in Lags /\ h[4] \in Lags
      /\ Lags \subseteq Int
  BY DEF Lags
<1>a. h[0] \in Int /\ h[1] \in Int /\ h[2] \in Int /\ h[3] \in Int /\ h[4] \in Int
  BY <1>0
<1>1. PICK m \in {h[0], h[1], h[2], h[3], h[4]} : h[0] <= m /\ h[1] <= m /\ h[2] <= m /\ h[3] <= m /\ h[4] <= m
  BY <1>a, FiveExtremes
<1>2. PICK w \in {h[0], h[1], h[2], h[3], h[4]} : h[0] >= w /\ h[1] >= w /\ h[2] >= w /\ h[3] >= w /\ h[4] >= w
  BY <1>a, FiveExtremes
<1>3. \A k \in 0..4 : k = 0 \/ k = 1 \/ k = 2 \/ k = 3 \/ k = 4
  OBVIOUS
<1>4. m \in Lags /\ (\E i \in 0..4 : m = h[i]) /\ \A k \in 0..4 : h[k] <= m
  <2>1. \E i \in 0..4 : m = h[i]
    BY <1>1
  <2>2. \A k \in 0..4 : h[k] <= m
    BY <1>1, <1>3
  <2> QED
    BY <1>0, <2>1, <2>2
<1>5. w \in Lags /\ (\E i \in 0..4 : w = h[i]) /\ \A k \in 0..4 : h[k] >= w
  <2>1. \E i \in 0..4 : w = h[i]
    BY <1>2
  <2>2. \A k \in 0..4 : h[k] >= w
    BY <1>2, <1>3
  <2> QED
    BY <1>0, <2>1, <2>2
<1> QED
  BY <1>4, <1>5

(* Whatever was weighted, what is concealed lies between former lags. *)
LEMMA BetweenLastInRange ==
    ASSUME lag_hist \in [0..4 -> Lags], NEW x \in Int
    PROVE  BetweenLast(x) \in Lags
<1> DEFINE max == CHOOSE m \in Lags : (\E i \in 0..4 : m = lag_hist[i]) /\ \A k \in 0..4 : lag_hist[k] <= m
           min == CHOOSE m \in Lags : (\E i \in 0..4 : m = lag_hist[i]) /\ \A k \in 0..4 : lag_hist[k] >= m
<1>1. max \in Lags /\ \A k \in 0..4 : lag_hist[k] <= max
  BY Extremes
<1>2. min \in Lags /\ \A k \in 0..4 : lag_hist[k] >= min
  BY Extremes
<1>3. BetweenLast(x) = Clamp(x, min, max)
  BY DEF BetweenLast
<1> HIDE DEF max, min
<1>4. min <= max
  <2>1. min <= lag_hist[0] /\ lag_hist[0] <= max /\ lag_hist[0] \in Lags
    BY <1>1, <1>2
  <2> QED
    BY <1>1, <1>2, <2>1 DEF Lags, PIT_MIN, PIT_MAX
<1> QED
  BY <1>1, <1>2, <1>3, <1>4 DEF Clamp, Lags, PIT_MIN, PIT_MAX

LEMMA ConcealedInRange ==
    ASSUME lag_hist \in [0..4 -> Lags], old_T0 \in Lags
    PROVE  Concealed \subseteq Lags
<1>1. lag_hist[0] \in Int /\ old_T0 \in Int
  BY DEF Lags
<1>2. ASSUME NEW noise \in Noises
      PROVE  Weighted(insertion_sort(lag_hist), noise) \in Int
  <2>1. insertion_sort(lag_hist) \in [0..4 -> Lags]
    BY SortType
  <2>2. noise \in Int
    BY PitchAssumption DEF PitchAssumption
  <2> HIDE DEF Lags
  <2>3. \A i \in 0..4 : insertion_sort(lag_hist)[i] \in Int
    BY <2>1 DEF Lags
  <2>4. \A a, b \in Int : mult(a, b) \in Int
    BY DEF mult
  <2> DEFINE srt == insertion_sort(lag_hist)
             dif == IF srt[4] - srt[2] > 40 THEN 40 ELSE srt[4] - srt[2]
  <2>5. dif \div 2 \in Int /\ srt[2] + srt[3] + srt[4] \in Int
    BY <2>3
  <2>6. mult(srt[2] + srt[3] + srt[4], 10923) \in Int /\ mult(dif \div 2, noise) \in Int
    BY <2>2, <2>4, <2>5
  <2> QED
    BY <2>6 DEF Weighted
<1>3. BetweenLast(lag_hist[0]) \in Lags /\ BetweenLast(old_T0) \in Lags
  BY <1>1, BetweenLastInRange
<1>4. \A noise \in Noises : BetweenLast(Weighted(insertion_sort(lag_hist), noise)) \in Lags
  BY <1>2, BetweenLastInRange
<1> QED
  BY <1>3, <1>4 DEF Concealed

-----------------------------------------------------------------------------
PitchInv == PitchTypeOK /\ LagInRange /\ ExcitationHasOneScale

LEMMA PitchInitInv == PitchInit => PitchInv
<1> SUFFICES ASSUME PitchInit PROVE PitchInv
  OBVIOUS
<1>1. lag_hist \in [0..4 -> Int] /\ \A i \in 0..4 : lag_hist[i] = 64
  BY DEF PitchInit
<1>2. 64 \in Lags /\ PIT_MIN \in PIT_MIN..(PIT_MAX - 15)
  BY DEF Lags, PIT_MIN, PIT_MAX
<1>3. LagInRange
  BY <1>1, <1>2 DEF PitchInit, LagInRange
<1>4. BufferStart = -248
  BY DEF BufferStart, PIT_MAX, L_INTERPOL
<1>5. ExcitationHasOneScale
  BY <1>4 DEF PitchInit, ExcitationHasOneScale, L_FRAME
<1>6. PitchTypeOK
  <2>1. rescaled \in BufferStart..L_FRAME
    BY <1>4 DEF PitchInit, L_FRAME
  <2>2. lost \in BOOLEAN /\ coder \in {"lowest", "low", "high"}
    BY DEF PitchInit
  <2> QED
    BY <1>1, <2>1, <2>2 DEF PitchInit, PitchTypeOK, Q_MAX, PIT_MIN
<1> QED
  BY <1>3, <1>5, <1>6 DEF PitchInv

(* A new scale reaches back far enough for the next prediction. *)
LEMMA RescaleInv ==
    ASSUME PitchInv, sub < 4, Rescale, sub' = sub + 1
    PROVE  Q_old' \in 0..Q_MAX /\ rescaled' \in BufferStart..L_FRAME /\ ExcitationHasOneScale'
<1>1. Q_old' \in 0..Q_MAX
  <2>1. Scalings \subseteq 0..8
    BY PitchAssumption DEF PitchAssumption
  <2> QED
    BY <2>1 DEF Rescale, Q_MAX
<1>2. sub \in 0..3 /\ rescaled \in BufferStart..L_FRAME
  BY DEF PitchInv, PitchTypeOK
<1>3. rescaled' = RescaleFrom \/ (rescaled' = rescaled /\ rescaled <= RescaleFrom)
  BY DEF Rescale
<1> QED
  BY <1>1, <1>2, <1>3
  DEF RescaleFrom, ExcitationHasOneScale, BufferStart, L_SUBFR, L_FRAME, PIT_MAX, L_INTERPOL

LEMMA PitchNextInv == PitchInv /\ [PitchNext]_pitchVars => PitchInv'
<1> SUFFICES ASSUME PitchInv, [PitchNext]_pitchVars
             PROVE  PitchInv'
  OBVIOUS
<1>h. lag_hist \in [0..4 -> Lags] /\ Lags \subseteq Int
  BY DEF PitchInv, PitchTypeOK, LagInRange, Lags
<1>1. CASE StartFrame
  <2>1. PitchTypeOK' /\ ExcitationHasOneScale'
    BY <1>1 DEF StartFrame, PitchInv, PitchTypeOK, ExcitationHasOneScale, BufferStart, PIT_MAX,
                L_INTERPOL, L_FRAME, L_SUBFR
  <2> QED
    BY <1>1, <2>1 DEF StartFrame, PitchInv, LagInRange
<1>2. CASE GoodSubframe
  <2>1. PICK p \in Received :
          /\ T0' = p.lag /\ T0_frac' = p.frac
          /\ KeepRelative(p)
          /\ lag_hist' = [i \in 0..4 |-> IF i = 0 THEN p.lag ELSE lag_hist[i - 1]]
          /\ old_T0' = p.lag
    BY <1>2 DEF GoodSubframe
  <2>2. p.lag \in Lags /\ p.frac \in 0..3
    BY ReceivedInRange DEF PitchInv, LagInRange, Positions
  <2>3. T0_min' \in PIT_MIN..(PIT_MAX - 15)
    BY <2>1, <2>2, LowestRelativeInRange DEF KeepRelative, PitchInv, LagInRange
  <2>4. lag_hist' \in [0..4 -> Lags]
    <3>1. \A i \in 0..4 : i # 0 => lag_hist[i - 1] \in Lags
      BY <1>h
    <3> QED
      BY <2>1, <2>2, <3>1
  <2>5. sub' = sub + 1 /\ sub \in 0..3 /\ coder' = coder /\ lost' = lost
    BY <1>2 DEF GoodSubframe, PitchInv, PitchTypeOK
  <2>6. Q_old' \in 0..Q_MAX /\ rescaled' \in BufferStart..L_FRAME /\ ExcitationHasOneScale'
    BY <1>2, RescaleInv DEF GoodSubframe
  <2>7. LagInRange'
    BY <2>1, <2>2, <2>3, <2>4 DEF LagInRange
  <2>8. PitchTypeOK'
    <3>1. T0' \in Int /\ T0_frac' \in 0..3 /\ old_T0' \in Int /\ lag_hist' \in [0..4 -> Int]
      BY <1>h, <2>1, <2>2, <2>4
    <3>2. T0_min' \in Int
      BY <2>3 DEF PIT_MIN, PIT_MAX
    <3> QED
      BY <2>5, <2>6, <3>1, <3>2 DEF PitchTypeOK, PitchInv
  <2> QED
    BY <2>6, <2>7, <2>8 DEF PitchInv
<1>3. CASE LostSubframe
  <2>1. PICK p \in Received : KeepRelative(p)
    BY <1>3 DEF LostSubframe
  <2>2. p.lag \in Lags
    BY ReceivedInRange DEF PitchInv, LagInRange, Positions
  <2>3. T0_min' \in PIT_MIN..(PIT_MAX - 15)
    BY <2>1, <2>2, LowestRelativeInRange DEF KeepRelative, PitchInv, LagInRange
  <2>4. T0' \in Lags /\ T0_frac' = 0
    BY <1>3, <1>h, ConcealedInRange DEF LostSubframe, PitchInv, LagInRange
  <2>5. sub' = sub + 1 /\ sub \in 0..3 /\ UNCHANGED <<coder, lost, lag_hist, old_T0>>
    BY <1>3 DEF LostSubframe, PitchInv, PitchTypeOK
  <2>6. Q_old' \in 0..Q_MAX /\ rescaled' \in BufferStart..L_FRAME /\ ExcitationHasOneScale'
    BY <1>3, RescaleInv DEF LostSubframe
  <2>7. LagInRange'
    BY <2>3, <2>4, <2>5 DEF LagInRange, PitchInv
  <2>8. PitchTypeOK'
    <3>1. T0' \in Int /\ T0_frac' \in 0..3 /\ T0_min' \in Int
      BY <1>h, <2>3, <2>4 DEF PIT_MIN, PIT_MAX
    <3> QED
      BY <2>5, <2>6, <3>1 DEF PitchTypeOK, PitchInv
  <2> QED
    BY <2>6, <2>7, <2>8 DEF PitchInv
<1>4. CASE ForgetExcitation
  <2>1. PitchTypeOK' /\ ExcitationHasOneScale'
    BY <1>4 DEF ForgetExcitation, PitchInv, PitchTypeOK, ExcitationHasOneScale, BufferStart, PIT_MAX,
                L_INTERPOL, L_FRAME, L_SUBFR, Q_MAX
  <2> QED
    BY <1>4, <2>1 DEF ForgetExcitation, PitchInv, LagInRange, Lags, PIT_MIN, PIT_MAX
<1>5. CASE UNCHANGED pitchVars
  BY <1>5 DEF pitchVars, PitchInv, PitchTypeOK, LagInRange, ExcitationHasOneScale
<1> QED
  BY <1>1, <1>2, <1>3, <1>4, <1>5 DEF PitchNext

LEMMA PitchAlwaysInv == PitchSpec => []PitchInv
  BY PitchInitInv, PitchNextInv, PTL DEF PitchSpec

(* The variables of the long-term prediction keep their types. *)
THEOREM PitchTypes == PitchSpec => []PitchTypeOK
<1>1. PitchInv => PitchTypeOK
  BY DEF PitchInv
<1> QED
  BY <1>1, PitchAlwaysInv, PTL

(* A lag, received, concealed or read from stale bits, is one that the     *)
(* coder can send.                                                         *)
THEOREM LagsInRange == PitchSpec => []LagInRange
<1>1. PitchInv => LagInRange
  BY DEF PitchInv
<1> QED
  BY <1>1, PitchAlwaysInv, PTL

(* The prediction reads only samples that exist already. *)
THEOREM ReadsThePast == PitchSpec => []PredictionReadsThePast
<1>1. PitchInv => PredictionReadsThePast
  <2> SUFFICES ASSUME PitchInv, NEW n \in 0..L_SUBFR
               PROVE  /\ FirstRead(T0, T0_frac, n) >= BufferStart
                      /\ LastRead(T0, T0_frac, n) < Written(n)
    BY DEF PredictionReadsThePast
  <2>1. T0 \in 34..231 /\ n \in 0..64 /\ T0_frac \in 0..3
    BY DEF PitchInv, PitchTypeOK, LagInRange, Lags, PIT_MIN, PIT_MAX, L_SUBFR
  <2>2. n % 4 \in 0..3
    BY <2>1
  <2> QED
    BY <2>1, <2>2 DEF FirstRead, LastRead, Written, BufferStart, PIT_MAX, L_INTERPOL
<1> QED
  BY <1>1, PitchAlwaysInv, PTL

(* The excitation that is read has the scale of the subframe. *)
THEOREM OneScale == PitchSpec => []ExcitationHasOneScale
<1>1. PitchInv => ExcitationHasOneScale
  BY DEF PitchInv
<1> QED
  BY <1>1, PitchAlwaysInv, PTL

-----------------------------------------------------------------------------
(* insertion_sort. *)

(* The first lags of a history are in order, and two histories have the    *)
(* same lags.                                                              *)
Rising(s, n) == \A i, k \in 0..(n - 1) : i <= k => s[i] <= s[k]
SameValues(r, s) == (\A i \in 0..4 : \E k \in 0..4 : r[i] = s[k]) /\ (\A i \in 0..4 : \E k \in 0..4 : r[k] = s[i])

(* Where the next of some rising lags belongs. *)
LEMMA PlaceOf ==
    ASSUME NEW s \in [0..4 -> Int], NEW n \in 1..4, Rising(s, n)
    PROVE  \E p \in 0..n : (\A k \in 0..(p - 1) : s[k] <= s[n]) /\ \A k \in p..(n - 1) : s[k] > s[n]
<1> DEFINE Fits(p) == (\A k \in 0..(p - 1) : s[k] <= s[n]) /\ \A k \in p..(n - 1) : s[k] > s[n]
<1>1. \A i \in 0..4 : s[i] \in Int
  OBVIOUS
<1>2. ASSUME NEW p \in 0..n, p = 0 \/ s[p - 1] <= s[n], p = n \/ s[p] > s[n]
      PROVE  Fits(p)
  <2>1. ASSUME NEW k \in 0..(p - 1) PROVE s[k] <= s[n]
    <3>1. s[k] <= s[p - 1] /\ s[p - 1] <= s[n]
      BY <1>2 DEF Rising
    <3> QED BY <1>1, <3>1
  <2>2. ASSUME NEW k \in p..(n - 1) PROVE s[k] > s[n]
    <3>1. s[p] <= s[k] /\ s[p] > s[n]
      BY <1>2 DEF Rising
    <3> QED BY <1>1, <3>1
  <2> QED BY <2>1, <2>2
<1>3. \E p \in 0..n : (p = 0 \/ s[p - 1] <= s[n]) /\ (p = n \/ s[p] > s[n])
  <2> DEFINE a == s[0]
             b == s[1]
             c == s[2]
             d == s[3]
             x == s[n]
  <2>1. CASE a > x
    BY <2>1
  <2>2. CASE a <= x /\ (n = 1 \/ b > x)
    BY <2>2
  <2>3. CASE a <= x /\ n > 1 /\ b <= x /\ (n = 2 \/ c > x)
    BY <2>3
  <2>4. CASE a <= x /\ n > 2 /\ b <= x /\ c <= x /\ (n = 3 \/ d > x)
    BY <2>4
  <2>5. CASE n = 4 /\ d <= x
    BY <2>5
  <2>6. a \in Int /\ b \in Int /\ c \in Int /\ d \in Int /\ x \in Int
    BY <1>1
  <2> HIDE DEF a, b, c, d, x
  <2> QED BY <2>1, <2>2, <2>3, <2>4, <2>5, <2>6
<1> HIDE DEF Fits
<1>4. \E p \in 0..n : Fits(p)
  BY <1>2, <1>3
<1> QED BY <1>4 DEF Fits

(* insert puts it there, and moves those above it up. *)
LEMMA InsertSorts ==
    ASSUME NEW s \in [0..4 -> Int], NEW n \in 1..4, Rising(s, n)
    PROVE  /\ insert(s, n, s[n]) \in [0..4 -> Int]
           /\ Rising(insert(s, n, s[n]), n + 1)
           /\ SameValues(insert(s, n, s[n]), s)
<1> DEFINE x == s[n]
           r == insert(s, n, x)
           kept(i) == \E k \in i..(n - 1) : s[k] <= x
<1>1. PICK p \in 0..n : (\A k \in 0..(p - 1) : s[k] <= x) /\ \A k \in p..(n - 1) : s[k] > x
  BY PlaceOf
<1>2. \A i \in 0..4 : s[i] \in Int
  OBVIOUS
<1>3. x \in Int
  OBVIOUS
<1>4. \A i \in 0..4 : kept(i) <=> i < p
  <2> SUFFICES ASSUME NEW i \in 0..4 PROVE kept(i) <=> i < p
    OBVIOUS
  <2> HIDE DEF x
  <2>1. CASE i < p
    BY <1>1, <2>1
  <2>2. CASE ~(i < p)
    <3>1. \A k \in i..(n - 1) : k \in p..(n - 1) /\ k \in 0..4 /\ s[k] \in Int
      BY <1>2, <2>2
    <3> QED BY <1>1, <1>3, <2>2, <3>1
  <2> QED BY <2>1, <2>2
<1>5. r = [i \in 0..4 |-> IF i > n \/ kept(i) THEN s[i] ELSE IF i = 0 \/ kept(i - 1) THEN x ELSE s[i - 1]]
  BY DEF insert
<1> HIDE DEF kept, r, x
<1>6. \A i \in 0..4 : r[i] = IF i > n \/ i < p THEN s[i] ELSE IF i = p THEN x ELSE s[i - 1]
  <2> SUFFICES ASSUME NEW i \in 0..4
               PROVE  r[i] = IF i > n \/ i < p THEN s[i] ELSE IF i = p THEN x ELSE s[i - 1]
    OBVIOUS
  <2>1. r[i] = IF i > n \/ kept(i) THEN s[i] ELSE IF i = 0 \/ kept(i - 1) THEN x ELSE s[i - 1]
    BY <1>5
  <2>2. kept(i) <=> i < p
    BY <1>4
  <2>3. i # 0 => (kept(i - 1) <=> i - 1 < p)
    BY <1>4
  <2> QED BY <2>1, <2>2, <2>3
<1>7. r \in [0..4 -> Int]
  <2>1. r = [i \in 0..4 |-> r[i]]
    BY <1>5
  <2>2. \A i \in 0..4 : r[i] \in Int
    <3> SUFFICES ASSUME NEW i \in 0..4 PROVE r[i] \in Int
      OBVIOUS
    <3>1. s[i] \in Int /\ (i # 0 => s[i - 1] \in Int)
      BY <1>2
    <3> QED BY <1>3, <1>6, <3>1
  <2> QED BY <2>1, <2>2
<1>8. Rising(r, n + 1)
  <2> SUFFICES ASSUME NEW i \in 0..n, NEW k \in 0..n, i < k
               PROVE  r[i] <= r[k]
    BY <1>7 DEF Rising
  <2>1. r[i] = (IF i < p THEN s[i] ELSE IF i = p THEN x ELSE s[i - 1])
    BY <1>6
  <2>2. r[k] = (IF k < p THEN s[k] ELSE IF k = p THEN x ELSE s[k - 1])
    BY <1>6
  <2>3. CASE k < p
    <3>1. s[i] <= s[k]
      BY <2>3 DEF Rising
    <3> QED BY <2>1, <2>2, <2>3, <3>1
  <2>4. CASE k = p
    <3>1. s[i] <= x
      BY <1>1, <2>4
    <3> QED BY <2>1, <2>2, <2>4, <3>1
  <2>5. CASE k > p /\ i < p
    <3>1. s[i] <= s[k - 1]
      BY <2>5 DEF Rising
    <3> QED BY <2>1, <2>2, <2>5, <3>1
  <2>6. CASE k > p /\ i = p
    <3>1. s[k - 1] > x /\ s[k - 1] \in Int
      BY <1>1, <1>2, <2>6
    <3> QED BY <1>3, <2>1, <2>2, <2>6, <3>1
  <2>7. CASE k > p /\ i > p
    <3>1. s[i - 1] <= s[k - 1]
      BY <2>7 DEF Rising
    <3> QED BY <2>1, <2>2, <2>7, <3>1
  <2> QED BY <2>3, <2>4, <2>5, <2>6, <2>7
<1>9. ASSUME NEW i \in 0..4 PROVE \E k \in 0..4 : r[i] = s[k]
  <2>1. CASE i > n \/ i < p
    BY <1>6, <2>1
  <2>2. CASE i = p
    BY <1>6, <2>2 DEF x
  <2>3. CASE i > p /\ ~(i > n)
    BY <1>6, <2>3
  <2> QED BY <2>1, <2>2, <2>3
<1>10. ASSUME NEW i \in 0..4 PROVE \E k \in 0..4 : r[k] = s[i]
  <2>1. CASE i > n \/ i < p
    BY <1>6, <2>1
  <2>2. CASE i = n
    <3>1. r[p] = s[i]
      BY <1>6, <2>2 DEF x
    <3> QED BY <3>1
  <2>3. CASE i >= p /\ i < n
    <3>1. i + 1 \in 0..4 /\ r[i + 1] = s[i]
      BY <1>6, <2>3
    <3> QED BY <3>1
  <2> QED BY <2>1, <2>2, <2>3
<1> QED BY <1>7, <1>8, <1>9, <1>10 DEF SameValues, r, x

(* insertion_sort sorts whatever it is given. *)
LEMMA SortSorts ==
    ASSUME NEW s \in [0..4 -> Int]
    PROVE  Rising(insertion_sort(s), 5) /\ SameValues(insertion_sort(s), s)
<1> DEFINE a == insert(s, 1, s[1])
           b == insert(a, 2, s[2])
           c == insert(b, 3, s[3])
           d == insert(c, 4, s[4])
<1>1. Rising(s, 1)
  BY DEF Rising
<1>2. a \in [0..4 -> Int] /\ Rising(a, 2) /\ SameValues(a, s) /\ \A i \in 2..4 : a[i] = s[i]
  <2>1. a \in [0..4 -> Int] /\ Rising(a, 1 + 1) /\ SameValues(a, s)
    BY <1>1, InsertSorts
  <2>2. \A i \in 2..4 : a[i] = s[i]
    BY DEF insert
  <2> QED BY <2>1, <2>2
<1>3. b \in [0..4 -> Int] /\ Rising(b, 3) /\ SameValues(b, a) /\ \A i \in 3..4 : b[i] = s[i]
  <2> HIDE DEF a
  <2>1. b = insert(a, 2, a[2])
    BY <1>2
  <2>2. b \in [0..4 -> Int] /\ Rising(b, 2 + 1) /\ SameValues(b, a)
    <3> HIDE DEF b
    <3> QED BY <1>2, <2>1, InsertSorts
  <2>3. \A i \in 3..4 : b[i] = s[i]
    BY <1>2 DEF insert
  <2> QED BY <2>2, <2>3
<1>4. c \in [0..4 -> Int] /\ Rising(c, 4) /\ SameValues(c, b) /\ c[4] = s[4]
  <2> HIDE DEF a, b
  <2>1. c = insert(b, 3, b[3])
    BY <1>3
  <2>2. c \in [0..4 -> Int] /\ Rising(c, 3 + 1) /\ SameValues(c, b)
    <3> HIDE DEF c
    <3> QED BY <1>3, <2>1, InsertSorts
  <2>3. c[4] = s[4]
    BY <1>3 DEF insert
  <2> QED BY <2>2, <2>3
<1>5. d \in [0..4 -> Int] /\ Rising(d, 5) /\ SameValues(d, c)
  <2> HIDE DEF a, b, c
  <2>1. d = insert(c, 4, c[4])
    BY <1>4
  <2>2. d \in [0..4 -> Int] /\ Rising(d, 4 + 1) /\ SameValues(d, c)
    <3> HIDE DEF d
    <3> QED BY <1>4, <2>1, InsertSorts
  <2> QED BY <2>2
<1>6. d = insertion_sort(s)
  BY DEF insertion_sort
<1> HIDE DEF a, b, c, d
<1>7. SameValues(d, s)
  BY <1>2, <1>3, <1>4, <1>5 DEF SameValues
<1> QED BY <1>5, <1>6, <1>7

LEMMA SortedAlways == PitchInv => HistorySorted
<1> SUFFICES ASSUME PitchInv PROVE HistorySorted
  OBVIOUS
<1>1. lag_hist \in [0..4 -> Int]
  BY DEF PitchInv, PitchTypeOK
<1> DEFINE r == insertion_sort(lag_hist)
<1>2. Rising(r, 5) /\ SameValues(r, lag_hist)
  BY <1>1, SortSorts
<1> HIDE DEF r
<1>3. \A i \in 0..3 : r[i] <= r[i + 1]
  BY <1>2 DEF Rising
<1> QED BY <1>2, <1>3 DEF HistorySorted, SameValues, r

(* lagconceal finds the lags of the last good subframes in order, none of  *)
(* them lost and none added, whatever they are.                            *)
THEOREM HistoryIsSorted == PitchSpec => []HistorySorted
BY SortedAlways, PitchAlwaysInv, PTL

-----------------------------------------------------------------------------
(* Sequences. *)

(* Sequences of a length are functions. *)
LEMMA OfLength ==
    ASSUME NEW S, NEW n \in Nat
    PROVE  \A x : x \in [1..n -> S] <=> x \in Seq(S) /\ Len(x) = n
<1>1. ASSUME NEW x \in [1..n -> S] PROVE x \in Seq(S) /\ Len(x) = n
  <2>1. x \in Seq(S)
    BY SeqDef
  <2>2. Len(x) \in Nat /\ DOMAIN x = 1..Len(x) /\ DOMAIN x = 1..n
    BY <2>1, LenProperties
  <2> DEFINE m == Len(x)
  <2>3. 1..m = 1..n /\ m \in Nat
    BY <2>2
  <2> HIDE DEF m
  <2>4. m = n
    BY <2>3
  <2> QED BY <2>1, <2>4 DEF m
<1>2. ASSUME NEW x \in Seq(S), Len(x) = n PROVE x \in [1..n -> S]
  BY <1>2, LenProperties
<1> QED BY <1>1, <1>2

(* The first one gives way to a new last one. *)
LEMMA PushBack ==
    ASSUME NEW S, NEW n \in Nat \ {0}, NEW x \in [1..n -> S], NEW a \in S
    PROVE  /\ Shifted(x, a) \in [1..n -> S]
           /\ Shifted(x, a)[n] = a
           /\ \A i \in 1..(n - 1) : Shifted(x, a)[i] = x[i + 1]
<1> DEFINE r == Shifted(x, a)
<1> DEFINE t == Tail(x)
<1>1. x \in Seq(S) /\ Len(x) = n
  BY OfLength
<1>2. t \in Seq(S) /\ Len(t) = n - 1 /\ \A i \in 1..Len(t) : t[i] = x[i+1]
  <2>1. x # << >>
    BY <1>1
  <2> QED BY <1>1, <2>1, HeadTailProperties
<1> HIDE DEF t
<1>3. /\ Append(t, a) \in Seq(S) /\ Len(Append(t, a)) = Len(t)+1 
      /\ \A i \in 1.. Len(t) : Append(t,a)[i] = t[i]
      /\ Append(t,a)[Len(t)+1] = a
  BY <1>2, AppendProperties
<1>4. r \in [1..n -> S]
  <2>1. r \in Seq(S) /\ Len(r) = n
    BY <1>2, <1>3 DEF t, Shifted
  <2> HIDE DEF r
  <2> QED BY <2>1, LenProperties
<1> QED BY <1>2, <1>3, <1>4 DEF t, Shifted

(* One more in front. *)
LEMMA PushFront ==
    ASSUME NEW S, NEW n \in Nat, NEW x \in [1..n -> S], NEW a \in S
    PROVE  /\ <<a>> \o x \in [1..(n + 1) -> S]
           /\ (<<a>> \o x)[1] = a
           /\ \A i \in 2..(n + 1) : (<<a>> \o x)[i] = x[i - 1]
<1> DEFINE h == <<a>>
<1>1. x \in Seq(S) /\ Len(x) = n
  BY OfLength
<1>2. h \in Seq(S) /\ Len(h) = 1 /\ h[1] = a
  OBVIOUS
<1> HIDE DEF h
<1>3. h \o x \in Seq(S) /\ Len(h \o x) = 1 + n /\
      \A i \in 1..(1+n) : (h \o x)[i] = IF i <= 1 THEN h[i] ELSE x[i-1]
  <2>1. h \o x \in Seq(S) /\ Len(h \o x) = Len(h) + Len(x) /\
        \A i \in 1..(Len(h) + Len(x)) : (h \o x)[i] = IF i <= Len(h) THEN h[i] ELSE x[i - Len(h)]
    BY <1>1, <1>2, ConcatProperties
  <2> QED BY <1>1, <1>2, <2>1
<1> DEFINE r == h \o x
<1>4. r \in [1..(n+1) -> S]
  <2>1. r \in Seq(S) /\ Len(r) = n + 1
    BY <1>3
  <2> HIDE DEF r
  <2> QED BY <2>1, LenProperties
<1> QED BY <1>2, <1>3, <1>4 DEF h

LEMMA FirstOnes ==
    ASSUME NEW S, NEW n \in Nat, NEW x \in [1..n -> S], NEW k \in 0..n
    PROVE  SubSeq(x, 1, k) = [i \in 1..k |-> x[i]] /\ SubSeq(x, 1, k) \in [1..k -> S]
<1>1. \A i \in 1..k : x[i] \in S
  OBVIOUS
<1>2. SubSeq(x, 1, k) \in Seq(S) /\ Len(SubSeq(x, 1, k)) = k /\ \A i \in 1..k : SubSeq(x, 1, k)[i] = x[i]
  <2>1. SubSeq(x, 1, k) \in Seq(S) /\ Len(SubSeq(x, 1, k)) = (IF 1 <= k THEN k-1+1 ELSE 0) 
        /\ \A i \in 1..k-1+1 : SubSeq(x, 1, k)[i] = x[1+i-1]
    BY <1>1, SubSeqProperties
  <2> QED BY <2>1
<1> DEFINE r == SubSeq(x, 1, k)
<1>3. r \in [1..k -> S]
  <2>1. r \in Seq(S) /\ Len(r) = k
    BY <1>2
  <2> HIDE DEF r
  <2> QED BY <2>1, LenProperties
<1> QED BY <1>2, <1>3

-----------------------------------------------------------------------------
(* The inductive invariant of the gains: what is predicted from is what    *)
(* was received, as far as that goes, and the dispersion has the gains of  *)
(* the last six subframes.                                                 *)
Predicted ==
    /\ Len(received) \in 0..4 /\ received \in [1..Len(received) -> Energy]
    /\ \A i \in 1..Len(received) : received[i] = past_qua_en[i]

Remembered ==
    /\ six \in [1..6 -> Gain] /\ prev_gain_pit \in [1..6 -> Gain]
    /\ \A i \in 1..6 : prev_gain_pit[i] = six[7 - i]

GainsInv == GainsTypeOK /\ Predicted /\ Remembered /\ prev_gc = lastGood

LEMMA SixteenBits ==
    Greatest \in Int /\ LeastEnergy \in Int /\ 15565 < Greatest /\ LeastEnergy < Greatest /\ LeastEnergy < 0
BY DEF Greatest, LeastEnergy

LEMMA TupleOfFive ==
    ASSUME NEW S, NEW a \in S, NEW b \in S, NEW c \in S, NEW d \in S, NEW e \in S
    PROVE  <<a, b, c, d, e>> \in [1..5 -> S]
OBVIOUS

(* Memories that hold nothing agree. *)
LEMMA NothingIsRemembered ==
    /\ six = <<0, 0, 0, 0, 0, 0>> /\ prev_gain_pit = <<0, 0, 0, 0, 0, 0>> => Remembered
    /\ six' = <<0, 0, 0, 0, 0, 0>> /\ prev_gain_pit' = <<0, 0, 0, 0, 0, 0>> => Remembered'
<1> DEFINE z == <<0, 0, 0, 0, 0, 0>>
<1>1. z \in [1..6 -> Gain]
  <2>1. 0 \in Gain
    BY DEF Gain, Greatest
  <2> QED BY <2>1
<1>2. \A i \in 1..6 : z[i] = 0
  OBVIOUS
<1>3. \A i \in 1..6 : 7 - i \in 1..6
  OBVIOUS
<1> HIDE DEF z
<1>4. six = z /\ prev_gain_pit = z => Remembered
  BY <1>1, <1>2, <1>3 DEF Remembered
<1>5. six' = z /\ prev_gain_pit' = z => Remembered'
  BY <1>1, <1>2, <1>3 DEF Remembered
<1> QED BY <1>4, <1>5 DEF z

LEMMA GainsInitInv == GainsInit => GainsInv
<1> SUFFICES ASSUME GainsInit PROVE GainsInv
  OBVIOUS
<1>1. LeastEnergy \in Energy /\ 0 \in Gain
  BY DEF Energy, Gain, LeastEnergy, Greatest
<1>2. past_qua_en \in [1..4 -> Energy]
  BY <1>1 DEF GainsInit
<1>3. pbuf \in [1..5 -> Gain] /\ gbuf \in [1..5 -> Gain]
  BY <1>1, TupleOfFive DEF GainsInit
<1>4. Remembered
  BY NothingIsRemembered DEF GainsInit
<1>5. Predicted
  BY DEF GainsInit, Predicted
<1>6. frameLost \in BOOLEAN /\ afterLoss \in BOOLEAN /\ inactive \in BOOLEAN
  <2>1. frameLost = FALSE /\ afterLoss = FALSE /\ inactive = FALSE
    BY DEF GainsInit
  <2> QED BY <2>1
<1>7. bfh \in 0..6 /\ subframe \in 0..4 /\ prev_state \in 0..2
  BY DEF GainsInit
<1>8. past_gain_pit \in Gain /\ past_gain_code \in Gain /\ prev_gc \in Gain /\ gain_pit \in Gain /\ prev_gc = lastGood
  BY <1>1 DEF GainsInit
<1>9. dtxGlobalState \in {"speech", "dtx", "mute"}
  BY DEF GainsInit
<1>10. GainsTypeOK
  BY <1>2, <1>3, <1>6, <1>7, <1>8, <1>9, Zenon DEF GainsTypeOK
<1> QED BY <1>4, <1>5, <1>8, <1>10, Zenon DEF GainsInv

(* The middle one of five is one of them. *)
LEMMA MedianOfFive ==
    ASSUME NEW S, S \subseteq Int, NEW x \in [1..5 -> S]
    PROVE  median5(x) \in S
<1>1. \A a, b \in S : Lower(a, b) \in S /\ Higher(a, b) \in S
  BY DEF Lower, Higher
<1>2. x[1] \in S /\ x[2] \in S /\ x[3] \in S /\ x[4] \in S /\ x[5] \in S
  OBVIOUS
<1> DEFINE y == SiftOne(x)
<1>3. y[1] \in S /\ y[2] \in S /\ y[3] \in S /\ y[4] \in S
  BY <1>1, <1>2 DEF SiftOne
<1> HIDE DEF y
<1>4. median5(x) \in S
  BY <1>1, <1>3 DEF median5, y
<1> QED BY <1>4

(* A gain times a factor of at most one is a gain. *)
LEMMA ScaledGain ==
    ASSUME NEW i \in 1..7, NEW g \in Gain
    PROVE  Scaled(pdown_unusable[i], g) \in Gain /\ Scaled(cdown_unusable[i], g) \in Gain
<1>1. g \in Int /\ 0 <= g /\ g <= Greatest /\ Greatest \in Int
  BY DEF Gain, Greatest
<1>9. \A f \in {32767, 31130, 29491, 24576, 7537, 1638, 328, 16384, 8192, 4915, 3277} :
         Scaled(f, g) \in Int /\ 0 <= Scaled(f, g) /\ Scaled(f, g) <= g
  BY <1>1 DEF Scaled
<1>8. \A f \in {32767, 31130, 29491, 24576, 7537, 1638, 328, 16384, 8192, 4915, 3277} : Scaled(f, g) \in Gain
  BY <1>1, <1>9 DEF Gain
<1>2. pdown_unusable[i] \in {32767, 31130, 29491, 24576, 7537, 1638, 328, 16384, 8192, 4915, 3277}
  BY DEF pdown_unusable
<1>3. cdown_unusable[i] \in {32767, 31130, 29491, 24576, 7537, 1638, 328, 16384, 8192, 4915, 3277}
  BY DEF cdown_unusable
<1> QED BY <1>2, <1>3, <1>8

(* A new one of six: in front, and at the end. *)
LEMMA SixFront ==
    ASSUME NEW S, NEW x \in [1..6 -> S], NEW a \in S
    PROVE  /\ <<a>> \o SubSeq(x, 1, 5) \in [1..6 -> S]
           /\ (<<a>> \o SubSeq(x, 1, 5))[1] = a
           /\ \A i \in 2..6 : (<<a>> \o SubSeq(x, 1, 5))[i] = x[i - 1]
<1> DEFINE n == 5
           t == SubSeq(x, 1, n)
           r == <<a>> \o t
<1>1. n \in Nat /\ n \in 0..(n + 1) /\ n + 1 \in Nat /\ n + 1 = 6
  OBVIOUS
<1> HIDE DEF n
<1>2. x \in [1..(n + 1) -> S]
  BY <1>1
<1>3. t \in [1..n -> S] /\ t = [i \in 1..n |-> x[i]]
  BY <1>1, <1>2, FirstOnes
<1> HIDE DEF t
<1>4. r \in [1..(n + 1) -> S] /\ r[1] = a /\ \A i \in 2..(n + 1) : r[i] = t[i - 1]
  BY <1>1, <1>3, PushFront
<1> HIDE DEF r
<1>5. \A i \in 2..(n + 1) : t[i - 1] = x[i - 1]
  BY <1>1, <1>3
<1>6. r \in [1..6 -> S] /\ r[1] = a /\ \A i \in 2..6 : r[i] = x[i - 1]
  BY <1>1, <1>4, <1>5
<1> QED BY <1>6 DEF r, t, n

(* Parts of the invariant, one by one. *)
LEMMA GainTypes ==
    ASSUME GainsInv
    PROVE  /\ dtxGlobalState \in {"speech", "dtx", "mute"}
           /\ frameLost \in BOOLEAN /\ afterLoss \in BOOLEAN /\ inactive \in BOOLEAN
           /\ bfh \in 0..6 /\ subframe \in 0..4
           /\ past_qua_en \in [1..4 -> Energy]
           /\ past_gain_pit \in Gain /\ past_gain_code \in Gain /\ prev_gc \in Gain
           /\ pbuf \in [1..5 -> Gain] /\ gbuf \in [1..5 -> Gain]
           /\ gain_pit \in Gain
           /\ prev_state \in 0..2
           /\ Predicted /\ Remembered /\ prev_gc = lastGood
BY Zenon DEF GainsInv, GainsTypeOK

(* What a subframe leaves of the gains of pitch. *)
LEMMA DisperseInv ==
    ASSUME GainsInv, NEW g \in Gain, Disperse(g)
    PROVE  Remembered' /\ prev_state' \in 0..2
<1>1. prev_gain_pit \in [1..6 -> Gain] /\ six \in [1..6 -> Gain]
  BY GainTypes DEF Remembered
<1>2. prev_gain_pit' = <<g>> \o SubSeq(prev_gain_pit, 1, 5) /\ six' = Shifted(six, g)
  BY DEF Disperse, Remember
<1>3. /\ prev_gain_pit' \in [1..6 -> Gain] /\ prev_gain_pit'[1] = g
      /\ \A i \in 2..6 : prev_gain_pit'[i] = prev_gain_pit[i - 1]
  BY <1>1, <1>2, SixFront
<1>4. /\ six' \in [1..6 -> Gain] /\ six'[6] = g
      /\ \A i \in 1..5 : six'[i] = six[i + 1]
  <2> DEFINE n == 6
  <2>1. n \in Nat \ {0}
    OBVIOUS
  <2>2. n = 6
    OBVIOUS
  <2> HIDE DEF n
  <2>3. six \in [1..n -> Gain]
    BY <1>1, <2>2
  <2>4. Shifted(six, g) \in [1..n -> Gain]
    BY <2>1, <2>3, PushBack
  <2>5. Shifted(six, g)[n] = g /\ \A i \in 1..(n - 1) : Shifted(six, g)[i] = six[i + 1]
    BY <2>1, <2>3, <2>4, PushBack
  <2> QED BY <1>2, <2>2, <2>4, <2>5
<1>5. Remembered'
  <2>1. \A i \in 1..6 : prev_gain_pit'[i] = six'[7 - i]
    <3> SUFFICES ASSUME NEW i \in 1..6 PROVE prev_gain_pit'[i] = six'[7 - i]
      OBVIOUS
    <3>1. CASE i = 1
      BY <1>3, <1>4, <3>1
    <3>2. CASE i \in 2..6
      <4>1. prev_gain_pit'[i] = prev_gain_pit[i - 1] /\ prev_gain_pit[i - 1] = six[7 - (i - 1)]
        BY <1>3, <3>2, GainTypes DEF Remembered
      <4>2. 7 - i \in 1..5 /\ (7 - i) + 1 = 7 - (i - 1)
        BY <3>2
      <4> QED BY <1>4, <4>1, <4>2
    <3> QED BY <3>1, <3>2
  <2> QED BY <1>3, <1>4, <2>1 DEF Remembered
<1>6. prev_state' \in 0..2
  <2>1. PICK onset \in BOOLEAN : prev_state' = Dispersion(prev_gain_pit', onset)
    BY DEF Disperse
  <2>2. prev_state \in 0..2
    BY GainTypes
  <2> DEFINE strength == Strength(prev_gain_pit'[1])
             weak == Len(SelectSeq(prev_gain_pit', LAMBDA h : h < pitch_0_6)) > 2
             few == IF weak THEN 0 ELSE strength
  <2>3. strength \in 0..2
    BY DEF Strength
  <2>4. prev_state' = IF onset THEN Lower(strength + 1, 2) ELSE IF few > prev_state + 1 THEN few - 1 ELSE few
    BY <2>1 DEF Dispersion
  <2> HIDE DEF strength, weak
  <2> QED BY <2>2, <2>3, <2>4 DEF Lower
<1> QED BY <1>5, <1>6

(* What a frame takes over from the one before it. *)
LEMMA StartOfFrame ==
    ASSUME GainsInv
    PROVE  /\ \A missed \in BOOLEAN : Badness(missed) \in 0..6
           /\ WasLost \in BOOLEAN
<1>1. bfh \in 0..6 /\ frameLost \in BOOLEAN
  BY GainTypes
<1>2. Lower(bfh + 1, 6) \in 0..6 /\ bfh \div 2 \in 0..6 /\ 5 \in 0..6
  BY <1>1 DEF Lower
<1>3. \A missed \in BOOLEAN : Badness(missed) \in 0..6
  BY <1>2, Zenon DEF Badness
<1>4. WasLost \in BOOLEAN
  BY <1>1, Zenon DEF WasLost
<1> QED BY <1>3, <1>4

LEMMA NextFrameInv == ASSUME GainsInv, NextFrame PROVE GainsInv'
<1>1. /\ UNCHANGED <<past_qua_en, past_gain_pit, past_gain_code, prev_gc, pbuf, gbuf, gain_pit, prev_gain_pit,
                     prev_state, received, lastGood, six>>
      /\ subframe' = 0 /\ dtxGlobalState' = "speech" /\ afterLoss' = WasLost
      /\ frameLost' \in {missed \in BOOLEAN : missed => dtxGlobalState = "speech"}
      /\ bfh' = Badness(frameLost')
      /\ inactive' \in IF frameLost' THEN {inactive} ELSE BOOLEAN
  BY Zenon DEF NextFrame
<1>2. frameLost' \in BOOLEAN /\ afterLoss' \in BOOLEAN /\ inactive' \in BOOLEAN
  <2>1. inactive \in BOOLEAN
    BY GainTypes
  <2>2. \A x : x \in {inactive} => x \in BOOLEAN
    BY <2>1, Zenon
  <2>3. frameLost' \in BOOLEAN
    BY <1>1, Zenon
  <2> QED BY <1>1, <2>2, <2>3, StartOfFrame, Zenon
<1>3. bfh' \in 0..6
  BY <1>1, <1>2, StartOfFrame, Zenon
<1>4. subframe' \in 0..4 /\ dtxGlobalState' \in {"speech", "dtx", "mute"}
  BY <1>1
<1>5. GainsTypeOK'
  BY <1>1, <1>2, <1>3, <1>4, GainTypes, Zenon DEF GainsTypeOK
<1>6. Predicted' /\ Remembered' /\ prev_gc' = lastGood'
  BY <1>1, GainTypes DEF Predicted, Remembered
<1> QED BY <1>5, <1>6, Zenon DEF GainsInv

LEMMA NoiseFrameInv == ASSUME GainsInv, NoiseFrame PROVE GainsInv'
<1>1. /\ UNCHANGED <<inactive, subframe, past_qua_en, past_gain_pit, past_gain_code, prev_gc, pbuf, gbuf, gain_pit,
                     received, lastGood>>
      /\ dtxGlobalState' \in {"dtx", "mute"} /\ afterLoss' = WasLost
      /\ frameLost' \in {missed \in BOOLEAN : missed => dtxGlobalState # "speech"}
      /\ bfh' = Badness(frameLost')
      /\ prev_gain_pit' = <<0, 0, 0, 0, 0, 0>> /\ prev_state' = 0 /\ six' = <<0, 0, 0, 0, 0, 0>>
  BY Zenon DEF NoiseFrame
<1>2. frameLost' \in BOOLEAN /\ afterLoss' \in BOOLEAN
  <2>1. frameLost' \in BOOLEAN
    BY <1>1, Zenon
  <2> QED BY <1>1, <2>1, StartOfFrame, Zenon
<1>3. bfh' \in 0..6
  BY <1>1, <1>2, StartOfFrame, Zenon
<1>4. dtxGlobalState' \in {"speech", "dtx", "mute"} /\ prev_state' \in 0..2
  BY <1>1
<1>5. GainsTypeOK'
  BY <1>1, <1>2, <1>3, <1>4, GainTypes, Zenon DEF GainsTypeOK
<1>6. Predicted' /\ prev_gc' = lastGood'
  BY <1>1, GainTypes DEF Predicted
<1>7. Remembered'
  BY <1>1, NothingIsRemembered
<1> QED BY <1>5, <1>6, <1>7, Zenon DEF GainsInv

LEMMA GainsInitInvNext == GainsInit' => GainsInv'
BY GainsInitInv, PTL

(* After the reset of a homing frame everything is as at the start. *)
LEMMA GainsResetInv == ASSUME GainsReset PROVE GainsInv'
<1>1. GainsInit'
  BY DEF GainsReset, GainsInit
<1> QED BY <1>1, GainsInitInvNext

LEMMA GoodGainsInv == ASSUME GainsInv, GoodGains PROVE GainsInv'
<1>1. PICK e \in Entries :
         /\ gain_pit' = e.pit /\ past_gain_pit' = e.pit
         /\ past_gain_code' = Admitted(e.code)
         /\ past_qua_en' = Pushed(e.energy)
         /\ received' = SubSeq(<<e.energy>> \o received, 1, Lower(4, Len(received) + 1))
  BY DEF GoodGains
<1>2. e.pit \in Gain /\ e.code \in Gain /\ e.energy \in Energy
  BY GainsAssumption DEF GainsAssumption
<1>3. past_gain_code' \in Gain
  <2>1. prev_gc \in Gain
    BY GainTypes
  <2> DEFINE c == e.code
             limit == (prev_gc * 5 + 2) \div 4
  <2>2. c \in 0..Greatest /\ prev_gc \in 0..Greatest /\ Greatest \in Int
    BY <1>2, <2>1, SixteenBits DEF Gain
  <2>3. past_gain_code' = IF afterLoss /\ c > 800 THEN IF c < limit THEN c ELSE limit ELSE c
    BY <1>1 DEF Admitted, Lower
  <2>4. limit \in Nat
    BY <2>2
  <2> HIDE DEF c, limit
  <2>5. past_gain_code' \in 0..Greatest
    BY <2>2, <2>3, <2>4
  <2> QED BY <2>5 DEF Gain
<1>4. /\ UNCHANGED <<dtxGlobalState, frameLost, afterLoss, bfh, inactive>> /\ subframe' = subframe + 1 /\ subframe < 4
      /\ prev_gc' = past_gain_code' /\ lastGood' = past_gain_code'
      /\ gbuf' = <<gbuf[2], gbuf[2], gbuf[3], gbuf[4], past_gain_code'>>
      /\ pbuf' = <<pbuf[2], pbuf[2], pbuf[3], pbuf[4], past_gain_pit'>>
      /\ Disperse(gain_pit')
  BY DEF GoodGains, ShiftedGood
<1>5. Remembered' /\ prev_state' \in 0..2
  BY <1>1, <1>2, <1>4, DisperseInv
<1>6. /\ past_qua_en \in [1..4 -> Energy] /\ pbuf \in [1..5 -> Gain]
      /\ gbuf \in [1..5 -> Gain]
  BY GainTypes
<1>7. /\ past_qua_en' \in [1..4 -> Energy]
      /\ past_qua_en'[1] = e.energy /\ \A i \in 2..4 : past_qua_en'[i] = past_qua_en[i - 1]
  BY <1>1, <1>2, <1>6 DEF Pushed
<1>8. gbuf' \in [1..5 -> Gain]
  BY <1>3, <1>4, <1>6
<1>9. pbuf' \in [1..5 -> Gain]
  BY <1>1, <1>2, <1>4, <1>6
<1>10. Predicted'
  <2> DEFINE k == Len(received)
             n == Lower(4, k + 1)
             t == <<e.energy>> \o received
  <2>1. k \in Nat /\ k \in 0..4 /\ received \in [1..k -> Energy] /\ \A i \in 1..k : received[i] = past_qua_en[i]
    BY GainTypes DEF Predicted
  <2>2. received' = SubSeq(t, 1, n)
    BY <1>1
  <2> HIDE DEF k
  <2>3. t \in [1..(k + 1) -> Energy] /\ t[1] = e.energy /\ \A i \in 2..(k + 1) : t[i] = received[i - 1]
    BY <1>2, <2>1, PushFront
  <2>4. n \in 1..4 /\ n <= k + 1
    BY <2>1 DEF Lower
  <2> HIDE DEF t, n
  <2>5. received' \in [1..n -> Energy] /\ received' = [i \in 1..n |-> t[i]]
    <3>1. k + 1 \in Nat /\ n \in 0..(k + 1)
      BY <2>1, <2>4
    <3>2. SubSeq(t, 1, n) = [i \in 1..n |-> t[i]] /\ SubSeq(t, 1, n) \in [1..n -> Energy]
      BY <2>3, <3>1, FirstOnes
    <3> QED BY <2>2, <3>2
  <2>6. Len(received') = n
    BY <2>4, <2>5, OfLength
  <2>7. \A i \in 1..n : received'[i] = past_qua_en'[i]
    <3> SUFFICES ASSUME NEW i \in 1..n PROVE received'[i] = past_qua_en'[i]
      OBVIOUS
    <3>1. CASE i = 1
      BY <1>7, <2>3, <2>5, <3>1
    <3>2. CASE i \in 2..n
      <4>1. t[i] = received[i - 1] /\ received[i - 1] = past_qua_en[i - 1]
        BY <2>1, <2>3, <2>4, <3>2
      <4>2. past_qua_en'[i] = past_qua_en[i - 1]
        BY <1>7, <2>4, <3>2
      <4> QED BY <2>5, <4>1, <4>2
    <3> QED BY <2>4, <3>1, <3>2
  <2> QED BY <2>4, <2>5, <2>6, <2>7 DEF Predicted
<1>11. subframe' \in 0..4 /\ bfh' \in 0..6
  BY <1>4, GainTypes
<1>12. /\ frameLost' \in BOOLEAN /\ afterLoss' \in BOOLEAN /\ inactive' \in BOOLEAN
       /\ dtxGlobalState' \in {"speech", "dtx", "mute"}
  BY <1>4, GainTypes, Zenon
<1>13. past_gain_pit' \in Gain /\ gain_pit' \in Gain /\ prev_gc' \in Gain
  BY <1>1, <1>2, <1>3, <1>4, Zenon
<1>14. GainsTypeOK'
  BY <1>3, <1>5, <1>7, <1>8, <1>9, <1>11, <1>12, <1>13, Zenon DEF GainsTypeOK
<1> QED BY <1>4, <1>5, <1>10, <1>14, Zenon DEF GainsInv

LEMMA LostGainsInv == ASSUME GainsInv, LostGains PROVE GainsInv'
<1>1. /\ past_qua_en \in [1..4 -> Energy] /\ pbuf \in [1..5 -> Gain]
      /\ gbuf \in [1..5 -> Gain]
  BY GainTypes
<1>2. /\ UNCHANGED <<dtxGlobalState, frameLost, afterLoss, bfh, inactive, prev_gc, lastGood>> /\ subframe' = subframe + 1 /\ subframe < 4
      /\ past_gain_pit' = ConcealedPitch
      /\ gain_pit' = Scaled(pdown_unusable[bfh + 1], past_gain_pit')
      /\ past_gain_code' = ConcealedCode
      /\ past_qua_en' = FadedEnergies
      /\ gbuf' = Shifted(gbuf, past_gain_code')
      /\ pbuf' = Shifted(pbuf, past_gain_pit')
      /\ Disperse(gain_pit') /\ received' = << >>
  BY DEF LostGains
<1>3. bfh + 1 \in 1..7 /\ Gain \subseteq Int
  <2>1. bfh \in 0..6
    BY GainTypes
  <2>2. bfh + 1 \in 1..7
    BY <2>1
  <2> QED BY <2>2 DEF Gain
<1>4. median5(pbuf) \in Gain /\ median5(gbuf) \in Gain
  BY <1>1, <1>3, MedianOfFive
<1>5. past_gain_pit' \in Gain
  <2> DEFINE m == median5(pbuf)
  <2>1. past_gain_pit' = IF m < 15565 THEN m ELSE 15565
    BY <1>2 DEF ConcealedPitch, Lower
  <2>2. m \in Gain
    BY <1>4
  <2> HIDE DEF m
  <2> QED BY <2>1, <2>2, SixteenBits DEF Gain
<1>6. gain_pit' \in Gain
  BY <1>2, <1>3, <1>5, ScaledGain
<1>7. past_gain_code' \in Gain
  <2>1. Scaled(cdown_unusable[bfh + 1], median5(gbuf)) \in Gain
    BY <1>3, <1>4, ScaledGain
  <2> QED BY <1>2, <1>4, <2>1 DEF ConcealedCode
<1>8. past_qua_en' \in [1..4 -> Energy]
  <2> DEFINE a == past_qua_en[1]
             b == past_qua_en[2]
             c == past_qua_en[3]
             d == past_qua_en[4]
             k == ((a + b + c + d) \div 8) - 3072
             m == Higher(k, LeastEnergy)
  <2>1. a \in Energy /\ b \in Energy /\ c \in Energy /\ d \in Energy
    BY <1>1
  <2>2. past_qua_en' = <<m, a, b, d>>
    BY <1>2 DEF FadedEnergies
  <2> HIDE DEF a, b, c, d
  <2>3. k \in Int /\ k <= Greatest
    BY <2>1, SixteenBits DEF Energy
  <2> HIDE DEF k
  <2>4. m \in Energy
    BY <2>3, SixteenBits DEF Higher, Energy
  <2> HIDE DEF m
  <2> QED BY <2>1, <2>2, <2>4
<1>9. gbuf' \in [1..5 -> Gain] /\ pbuf' \in [1..5 -> Gain]
  <2> DEFINE n == 5
  <2>1. n \in Nat \ {0}
    OBVIOUS
  <2>2. n = 5
    OBVIOUS
  <2> HIDE DEF n
  <2>3. pbuf \in [1..n -> Gain] /\ gbuf \in [1..n -> Gain]
    BY <1>1, <2>2
  <2>4. Shifted(pbuf, past_gain_pit') \in [1..n -> Gain] /\ Shifted(gbuf, past_gain_code') \in [1..n -> Gain]
    BY <1>5, <1>7, <2>1, <2>3, PushBack
  <2> QED BY <1>2, <2>2, <2>4
<1>10. Remembered' /\ prev_state' \in 0..2
  BY <1>2, <1>6, DisperseInv
<1>11. Predicted'
  BY <1>2 DEF Predicted
<1>12. subframe' \in 0..4 /\ bfh' \in 0..6
  BY <1>2, GainTypes
<1>13. /\ frameLost' \in BOOLEAN /\ afterLoss' \in BOOLEAN /\ inactive' \in BOOLEAN
       /\ dtxGlobalState' \in {"speech", "dtx", "mute"}
  BY <1>2, GainTypes, Zenon
<1>14. prev_gc' \in Gain /\ prev_gc' = lastGood'
  BY <1>2, GainTypes, Zenon
<1>15. GainsTypeOK'
  BY <1>5, <1>6, <1>7, <1>8, <1>9, <1>10, <1>12, <1>13, <1>14, Zenon DEF GainsTypeOK
<1> QED BY <1>10, <1>11, <1>14, <1>15, Zenon DEF GainsInv

LEMMA GainsNextInv == ASSUME GainsInv, [GainsNext]_gainVars PROVE GainsInv'
<1>1. CASE UNCHANGED gainVars
  <2>1. GainsTypeOK'
    BY <1>1, GainTypes, Zenon DEF gainVars, GainsTypeOK
  <2>2. Predicted' /\ Remembered' /\ prev_gc' = lastGood'
    BY <1>1, GainTypes DEF gainVars, Predicted, Remembered
  <2> QED BY <2>1, <2>2, Zenon DEF GainsInv
<1> QED BY <1>1, NextFrameInv, NoiseFrameInv, GainsResetInv, GoodGainsInv, LostGainsInv DEF GainsNext

(* What the invariant says of what conceals a loss. *)
LEMMA GainsAreFounded == ASSUME GainsInv PROVE PredictionRecovers /\ DispersionRemembers
<1>1. PredictionRecovers
  <2> DEFINE n == Len(received)
  <2>1. /\ n \in 0..4 /\ received \in [1..n -> Energy] /\ \A i \in 1..n : received[i] = past_qua_en[i]
        /\ past_qua_en \in [1..4 -> Energy]
    BY GainTypes DEF Predicted
  <2> HIDE DEF n
  <2>2. SubSeq(past_qua_en, 1, n) = [i \in 1..n |-> past_qua_en[i]]
    BY <2>1, FirstOnes
  <2>3. received = [i \in 1..n |-> received[i]]
    BY <2>1
  <2> QED BY <2>1, <2>2, <2>3 DEF PredictionRecovers, n
<1>2. DispersionRemembers
  <2>1. /\ six \in [1..6 -> Gain] /\ prev_gain_pit \in [1..6 -> Gain]
        /\ \A i \in 1..6 : prev_gain_pit[i] = six[7 - i]
    BY GainTypes DEF Remembered
  <2>2. prev_gain_pit = [i \in 1..6 |-> six[7 - i]]
    BY <2>1
  <2>3. Reverse(six) = [i \in 1..6 |-> six[(6 - i) + 1]]
    <3>1. Len(six) = 6
      BY <2>1, OfLength
    <3> QED BY <3>1 DEF Reverse
  <2>4. \A i \in 1..6 : 7 - i = (6 - i) + 1
    OBVIOUS
  <2> QED BY <2>2, <2>3, <2>4 DEF DispersionRemembers
<1> QED BY <1>1, <1>2

LEMMA RecoveryLimited == ASSUME GainsInv PROVE RecoveryIsLimited
<1> SUFFICES ASSUME GoodGains, afterLoss
             PROVE  past_gain_code' <= Higher(800, (lastGood * 5 + 2) \div 4)
  BY DEF RecoveryIsLimited
<1>1. PICK e \in Entries : past_gain_code' = Admitted(e.code)
  BY DEF GoodGains
<1>2. e.code \in Gain /\ prev_gc \in Gain /\ prev_gc = lastGood
  BY GainsAssumption, GainTypes DEF GainsAssumption
<1> QED BY <1>1, <1>2 DEF Admitted, Lower, Higher, Gain

-----------------------------------------------------------------------------
(* What is predicted from is the same in both decoders, as far as frames   *)
(* were received since the last loss.                                      *)
Shape(d) == DOMAIN d = {"isf_q", "isfold", "past_isfq", "isf_buf"}
Buffer(b) == b = [k \in 1..3 |-> b[k]]

SpectrumInv ==
    /\ Shape(receiver) /\ Shape(twin) /\ Buffer(receiver.isf_buf) /\ Buffer(twin.isf_buf)
    /\ intact \in 0..4
    /\ intact >= 1 => receiver.past_isfq = twin.past_isfq
    /\ \A k \in 1..3 : k < intact => receiver.isf_buf[k] = twin.isf_buf[k]

(* A vector before the first two of three. *)
LEMMA BufferMoves ==
    ASSUME NEW b, Buffer(b), NEW v
    PROVE  <<v>> \o SubSeq(b, 1, 2) = [k \in 1..3 |-> IF k = 1 THEN v ELSE b[k - 1]]
<1> DEFINE S == {v, b[1], b[2], b[3]}
           t == SubSeq(b, 1, 2)
           r == <<v>> \o t
<1>1. \A i \in 1..2 : b[i] \in S
  <2>1. \A i \in 1..2 : i = 1 \/ i = 2
    OBVIOUS
  <2> QED BY <2>1
<1>2. t \in Seq(S) /\ Len(t) = 2 /\ \A i \in 1..2 : t[i] = b[i]
  <2> DEFINE m == 1  n == 2
  <2> HIDE DEF S
  <2>1. m \in Int /\ n \in Int /\ m = 1 /\ n = 2
    OBVIOUS
  <2> HIDE DEF m, n
  <2>2. \A i \in m..n : b[i] \in S
    BY <1>1, <2>1
  <2>3. /\ SubSeq(b, m, n) \in Seq(S)
        /\ Len(SubSeq(b, m, n)) = IF m <= n THEN n - m + 1 ELSE 0
        /\ \A i \in 1..n - m + 1 : SubSeq(b, m, n)[i] = b[m + i - 1]
    BY <2>1, <2>2, SubSeqProperties
  <2> QED BY <2>1, <2>3
<1>3. <<v>> \in Seq(S) /\ Len(<<v>>) = 1 /\ <<v>>[1] = v
  OBVIOUS
<1> DEFINE h == <<v>>
<1> HIDE DEF S, t, h
<1>4. /\ h \o t \in Seq(S) /\ Len(h \o t) = Len(h) + Len(t)
      /\ \A i \in 1..(Len(h) + Len(t)) : (h \o t)[i] = IF i <= Len(h) THEN h[i] ELSE t[i - Len(h)]
  BY <1>2, <1>3, ConcatProperties DEF h
<1>5. h \o t \in Seq(S) /\ Len(h \o t) = 3 /\ \A i \in 1..3 : (h \o t)[i] = IF i = 1 THEN v ELSE b[i - 1]
  BY <1>2, <1>3, <1>4 DEF h
<1> HIDE DEF r
<1>6. DOMAIN (h \o t) = 1..3
  BY <1>5, LenProperties
<1>7. h \o t = [i \in 1..3 |-> (h \o t)[i]]
  <2> DEFINE w == h \o t
  <2>1. w \in Seq(S) /\ Len(w) = 3
    BY <1>5
  <2> HIDE DEF w
  <2>2. w \in [1..3 -> S]
    BY <2>1, LenProperties
  <2>3. w = [i \in 1..3 |-> w[i]]
    BY <2>2
  <2> QED BY <2>3 DEF w
<1> QED BY <1>5, <1>7 DEF r, h, t

LEMMA GoodIsfIs ==
    ASSUME NEW d, NEW residual, Buffer(d.isf_buf)
    PROVE  /\ Shape(GoodIsf(d, residual)) /\ Buffer(GoodIsf(d, residual).isf_buf)
           /\ GoodIsf(d, residual).past_isfq = residual
           /\ GoodIsf(d, residual).isf_buf =
                 [k \in 1..3 |-> IF k = 1 THEN DecodedIsf(d, residual) ELSE d.isf_buf[k - 1]]
<1> DEFINE v == DecodedIsf(d, residual)
           b == d.isf_buf
           q == Reorder_isf(v, ISF_GAP)
<1>1. L_MEANBUF - 1 = 2
  BY DEF L_MEANBUF
<1>2. GoodIsf(d, residual) = [isf_q |-> q, isfold |-> d.isf_q, past_isfq |-> residual, isf_buf |-> <<v>> \o SubSeq(b, 1, 2)]
  BY <1>1, Zenon DEF GoodIsf
<1>3. Buffer(b)
  OBVIOUS
<1> HIDE DEF v, b, q
<1>4. <<v>> \o SubSeq(b, 1, 2) = [k \in 1..3 |-> IF k = 1 THEN v ELSE b[k - 1]]
  BY <1>3, BufferMoves
<1> DEFINE c == [k \in 1..3 |-> IF k = 1 THEN v ELSE b[k - 1]]
<1>5. Buffer(c)
  BY DEF Buffer
<1> HIDE DEF c
<1>6. GoodIsf(d, residual) = [isf_q |-> q, isfold |-> d.isf_q, past_isfq |-> residual, isf_buf |-> c]
  BY <1>2, <1>4 DEF c
<1> HIDE DEF GoodIsf
<1>7. /\ Shape(GoodIsf(d, residual)) /\ GoodIsf(d, residual).past_isfq = residual
      /\ GoodIsf(d, residual).isf_buf = c
  BY <1>6 DEF Shape
<1> QED BY <1>5, <1>7 DEF c, v, b

LEMMA SpectrumInitInv == SpectrumInit => SpectrumInv
<1> SUFFICES ASSUME SpectrumInit PROVE SpectrumInv
  OBVIOUS
<1>1. Shape(InitialIsf) /\ Buffer(InitialIsf.isf_buf)
  BY DEF InitialIsf, Shape, Buffer, L_MEANBUF
<1>2. receiver = twin /\ receiver = InitialIsf /\ intact = 4
  BY DEF SpectrumInit, L_MEANBUF
<1> QED BY <1>1, <1>2 DEF SpectrumInv

LEMMA ReceiveIsfsInv == ASSUME SpectrumInv, ReceiveIsfs PROVE SpectrumInv'
<1>1. PICK residual \in Residuals : receiver' = GoodIsf(receiver, residual) /\ twin' = GoodIsf(twin, residual)
  BY DEF ReceiveIsfs
<1>2. intact' = IF intact > 3 THEN intact ELSE intact + 1
  BY DEF ReceiveIsfs, L_MEANBUF
<1>3. /\ Shape(receiver') /\ Buffer(receiver'.isf_buf) /\ receiver'.past_isfq = residual
      /\ receiver'.isf_buf = [k \in 1..3 |-> IF k = 1 THEN DecodedIsf(receiver, residual) ELSE receiver.isf_buf[k - 1]]
  BY <1>1, GoodIsfIs DEF SpectrumInv
<1>4. /\ Shape(twin') /\ Buffer(twin'.isf_buf) /\ twin'.past_isfq = residual
      /\ twin'.isf_buf = [k \in 1..3 |-> IF k = 1 THEN DecodedIsf(twin, residual) ELSE twin.isf_buf[k - 1]]
  BY <1>1, GoodIsfIs DEF SpectrumInv
<1>5. intact' \in 0..4
  BY <1>2 DEF SpectrumInv
<1>6. \A k \in 1..3 : k < intact' => receiver'.isf_buf[k] = twin'.isf_buf[k]
  <2> SUFFICES ASSUME NEW k \in 1..3, k < intact'
               PROVE  receiver'.isf_buf[k] = twin'.isf_buf[k]
    OBVIOUS
  <2>1. CASE k = 1
    <3>1. receiver.past_isfq = twin.past_isfq
      BY <1>2, <2>1 DEF SpectrumInv
    <3>2. DecodedIsf(receiver, residual) = DecodedIsf(twin, residual)
      BY <3>1, Zenon DEF DecodedIsf
    <3> QED BY <1>3, <1>4, <2>1, <3>2
  <2>2. CASE k # 1
    <3>1. k - 1 \in 1..3 /\ k - 1 < intact
      BY <1>2, <2>2 DEF SpectrumInv
    <3>2. receiver.isf_buf[k - 1] = twin.isf_buf[k - 1]
      BY <3>1 DEF SpectrumInv
    <3> QED BY <1>3, <1>4, <2>2, <3>2
  <2> QED BY <2>1, <2>2
<1> QED BY <1>3, <1>4, <1>5, <1>6 DEF SpectrumInv

LEMMA LoseIsfsInv == ASSUME SpectrumInv, LoseIsfs PROVE SpectrumInv'
<1>1. PICK residual \in Residuals : twin' = GoodIsf(twin, residual)
  BY DEF LoseIsfs
<1>2. Shape(twin') /\ Buffer(twin'.isf_buf)
  BY <1>1, GoodIsfIs DEF SpectrumInv
<1>3. receiver' = LostIsf(receiver) /\ intact' = 0
  BY DEF LoseIsfs
<1>4. Shape(LostIsf(receiver)) /\ LostIsf(receiver).isf_buf = receiver.isf_buf
  BY DEF LostIsf, Shape, SpectrumInv
<1> QED BY <1>2, <1>3, <1>4 DEF SpectrumInv

LEMMA ComfortIsfsInv == ASSUME SpectrumInv, ComfortIsfs PROVE SpectrumInv'
<1>1. PICK mine \in NoiseIsfs, its \in NoiseIsfs : receiver' = NoiseIsf(receiver, mine) /\ twin' = NoiseIsf(twin, its)
  BY DEF ComfortIsfs
<1>2. ASSUME NEW d, NEW isf, Shape(d)
      PROVE  /\ Shape(NoiseIsf(d, isf)) /\ NoiseIsf(d, isf).isf_buf = d.isf_buf
             /\ NoiseIsf(d, isf).past_isfq = [i \in Isfs |-> 0]
  BY <1>2 DEF NoiseIsf, Shape
<1>3. intact' = intact
  BY DEF ComfortIsfs
<1> QED BY <1>1, <1>2, <1>3 DEF SpectrumInv

LEMMA SpectrumNextInv == ASSUME SpectrumInv, [SpectrumNext]_spectrumVars PROVE SpectrumInv'
<1>1. CASE UNCHANGED spectrumVars
  BY <1>1 DEF spectrumVars, SpectrumInv
<1> QED BY <1>1, ReceiveIsfsInv, LoseIsfsInv, ComfortIsfsInv DEF SpectrumNext

LEMMA SpectrumIsFounded == ASSUME SpectrumInv PROVE SpectrumRecovers
<1>1. receiver.isf_buf = twin.isf_buf <=> \A k \in 1..3 : receiver.isf_buf[k] = twin.isf_buf[k]
  BY DEF SpectrumInv, Buffer
<1> QED BY <1>1 DEF SpectrumInv, SpectrumRecovers, L_MEANBUF

-----------------------------------------------------------------------------
(* The spectra stay in 16 bits and, but for comfort noise, apart.  No      *)
(* decoded ISF is above Ceiling, and each of those that are put in order   *)
(* is moved at most to ISF_GAP above the one before it; so the sums that   *)
(* order them never saturate, and the order is that of the numbers.        *)
Ceiling == 26000

(* The residual that stands for a lost one is a half. *)
Past == -16384..16383

LEMMA SpectrumRanges ==
    /\ \A x \in Int16s : x \in Int /\ -32768 <= x /\ x <= 32767
    /\ \A x \in Int : -32768 <= x /\ x <= 32767 => x \in Int16s
    /\ \A x \in Frequency : x \in Int /\ 0 <= x /\ x <= 16384
    /\ \A x \in Int : 0 <= x /\ x <= 16384 => x \in Frequency
    /\ \A x \in Residual : x \in Int /\ -4096 <= x /\ x <= 4095
    /\ \A x \in Int : -4096 <= x /\ x <= 4095 => x \in Residual
    /\ \A x \in Past : x \in Int /\ -16384 <= x /\ x <= 16383
    /\ \A x \in Int : -16384 <= x /\ x <= 16383 => x \in Past
    /\ Ceiling = 26000 /\ ISF_GAP = 128 /\ Order \in Nat /\ 2 <= Order /\ Order <= 16 /\ MaxFrames \in Nat
<1>1. Order \in 2..16 /\ MaxFrames \in Nat
  BY SpectrumAssumption DEF SpectrumAssumption
<1>2. (\A x \in Int16s : x \in Int /\ -32768 <= x /\ x <= 32767) /\ \A x \in Int : -32768 <= x /\ x <= 32767 => x \in Int16s
  <2> DEFINE low == -32768  high == 32767
  <2>1. Int16s = low..high /\ low \in Int /\ high \in Int
    BY DEF Int16s
  <2> HIDE DEF low, high
  <2>2. (\A x \in Int16s : x \in Int /\ low <= x /\ x <= high) /\ \A x \in Int : low <= x /\ x <= high => x \in Int16s
    BY <2>1
  <2> QED BY <2>2 DEF low, high
<1>3. (\A x \in Frequency : x \in Int /\ 0 <= x /\ x <= 16384) /\ \A x \in Int : 0 <= x /\ x <= 16384 => x \in Frequency
  <2> DEFINE low == 0  high == 16384
  <2>1. Frequency = low..high /\ low \in Int /\ high \in Int
    BY DEF Frequency
  <2> HIDE DEF low, high
  <2>2. (\A x \in Frequency : x \in Int /\ low <= x /\ x <= high) /\ \A x \in Int : low <= x /\ x <= high => x \in Frequency
    BY <2>1
  <2> QED BY <2>2 DEF low, high
<1>4. (\A x \in Residual : x \in Int /\ -4096 <= x /\ x <= 4095) /\ \A x \in Int : -4096 <= x /\ x <= 4095 => x \in Residual
  <2> DEFINE low == -4096  high == 4095
  <2>1. Residual = low..high /\ low \in Int /\ high \in Int
    BY DEF Residual
  <2> HIDE DEF low, high
  <2>2. (\A x \in Residual : x \in Int /\ low <= x /\ x <= high) /\ \A x \in Int : low <= x /\ x <= high => x \in Residual
    BY <2>1
  <2> QED BY <2>2 DEF low, high
<1>5. (\A x \in Past : x \in Int /\ -16384 <= x /\ x <= 16383) /\ \A x \in Int : -16384 <= x /\ x <= 16383 => x \in Past
  <2> DEFINE low == -16384  high == 16383
  <2>1. Past = low..high /\ low \in Int /\ high \in Int
    BY DEF Past
  <2> HIDE DEF low, high
  <2>2. (\A x \in Past : x \in Int /\ low <= x /\ x <= high) /\ \A x \in Int : low <= x /\ x <= high => x \in Past
    BY <2>1
  <2> QED BY <2>2 DEF low, high
<1>6. Order \in Nat /\ 2 <= Order /\ Order <= 16 /\ MaxFrames \in Nat
  BY <1>1
<1>7. Ceiling = 26000 /\ ISF_GAP = 128
  BY DEF Ceiling, ISF_GAP
<1> QED BY <1>2, <1>3, <1>4, <1>5, <1>6, <1>7

LEMMA Sat16Is ==
    ASSUME NEW x \in Int
    PROVE  /\ Sat16(x) \in Int16s /\ Sat16(x) \in Int
           /\ -32768 <= x /\ x <= 32767 => Sat16(x) = x
           /\ \A m \in Int : -32768 <= m /\ x <= m => Sat16(x) <= m
BY SpectrumRanges DEF Sat16

LEMMA TimesIs ==
    ASSUME NEW a \in Int, NEW b \in Int
    PROVE  /\ Times(a, b) \in Int /\ Times(a, b) \in Int16s
           /\ (a * b) \div 32768 \in Int /\ Times(a, b) = Sat16((a * b) \div 32768)
<1> DEFINE x == a * b  n == 32768
<1>1. x \in Int /\ n \in Nat /\ n > 0
  OBVIOUS
<1> HIDE DEF x, n
<1>2. x \div n \in Int
  BY <1>1, Divided
<1> QED BY <1>2, Sat16Is DEF Times, x, n

(* Each ISF is at least ISF_GAP above the one below, and no higher than    *)
(* it need be.                                                             *)
LEMMA ReorderIs ==
    ASSUME NEW isf \in IsfVectors, \A i \in Isfs : isf[i] <= Ceiling + 128 * i
    PROVE  LET new == Reorder_isf(isf, ISF_GAP) IN
           /\ new \in IsfVectors /\ Apart(new) /\ \A i \in Isfs : new[i] <= Ceiling + 128 * i
<1> DEFINE Bottom(f, i) == IF i = 1 THEN ISF_GAP ELSE Sat16(f[i - 1] + ISF_GAP)
           Step(f, i) == IF i < Order /\ isf[i] < Bottom(f, i) THEN Bottom(f, i) ELSE isf[i]
           S == {m \in Nat : \E f : f = [i \in 1..m |-> Step(f, i)]}
<1>1. 0 \in S
  <2> DEFINE f == [i \in 1..0 |-> 0]
  <2>1. 1..0 = {}
    OBVIOUS
  <2> HIDE DEF Step
  <2>2. f = [i \in 1..0 |-> Step(f, i)]
    BY <2>1
  <2> HIDE DEF f
  <2> QED BY <2>2
<1>2. ASSUME NEW m \in Nat, m \in S PROVE m + 1 \in S
  <2>1. PICK f : f = [i \in 1..m |-> Step(f, i)]
    BY <1>2
  <2> DEFINE g == [i \in 1..(m + 1) |-> IF i <= m THEN f[i] ELSE Step(f, m + 1)]
  <2>2. \A i \in 1..(m + 1) : g[i] = Step(g, i)
    <3> SUFFICES ASSUME NEW i \in 1..(m + 1) PROVE g[i] = Step(g, i)
      OBVIOUS
    <3>1. Bottom(g, i) = Bottom(f, i)
      <4>1. CASE i = 1
        BY <4>1
      <4>2. CASE i # 1
        <5>1. i - 1 \in 1..(m + 1) /\ i - 1 <= m
          BY <4>2
        <5>2. g[i - 1] = f[i - 1]
          BY <5>1
        <5> HIDE DEF g
        <5> QED BY <5>2
      <4> QED BY <4>1, <4>2
    <3> HIDE DEF Bottom
    <3>2. Step(g, i) = Step(f, i)
      BY <3>1
    <3> HIDE DEF Step
    <3>3. i <= m => f[i] = Step(f, i)
      BY <2>1
    <3>4. ~ (i <= m) => i = m + 1
      OBVIOUS
    <3> QED BY <3>2, <3>3, <3>4
  <2>3. g = [i \in 1..(m + 1) |-> g[i]]
    OBVIOUS
  <2> HIDE DEF g, Step
  <2>4. g = [i \in 1..(m + 1) |-> Step(g, i)]
    BY <2>2, <2>3
  <2> QED BY <2>4
<1>3. Order \in S
  <2> HIDE DEF S
  <2> QED BY <1>1, <1>2, UpFromZero, SpectrumRanges
<1> DEFINE moved == CHOOSE f : f = [i \in Isfs |-> Step(f, i)]
           new == [i \in Isfs |-> moved[i]]
<1>4. moved = [i \in Isfs |-> Step(moved, i)]
  <2> HIDE DEF Step
  <2> QED BY <1>3, Zenon DEF Isfs
<1>5. Reorder_isf(isf, ISF_GAP) = new
  BY DEF Reorder_isf
<1> HIDE DEF moved
<1>6. \A i \in Isfs : moved[i] = Step(moved, i)
  <2> HIDE DEF Step
  <2> QED BY <1>4
<1>7. \A i \in Isfs : i \in Nat /\ isf[i] \in Int /\ -32768 <= isf[i] /\ isf[i] <= 32767 /\ i >= 1
  BY SpectrumRanges DEF IsfVectors, Isfs
<1> DEFINE T == {i \in Nat : i \in Isfs =>
                    /\ moved[i] \in Int /\ -32768 <= moved[i] /\ moved[i] <= Ceiling + 128 * i
                    /\ i < Order => /\ i = 1 => moved[i] >= 128
                                    /\ i > 1 => moved[i] >= moved[i - 1] + 128}
<1>8. 0 \in T
  BY DEF Isfs
<1>9. ASSUME NEW m \in Nat, m \in T PROVE m + 1 \in T
  <2> DEFINE i == m + 1
  <2> SUFFICES ASSUME i \in Isfs
               PROVE  /\ moved[i] \in Int /\ -32768 <= moved[i] /\ moved[i] <= Ceiling + 128 * i
                      /\ i < Order => /\ i = 1 => moved[i] >= 128
                                      /\ i > 1 => moved[i] >= moved[i - 1] + 128
    OBVIOUS
  <2>1. moved[i] = Step(moved, i) /\ isf[i] \in Int /\ -32768 <= isf[i] /\ isf[i] <= Ceiling + 128 * i
    BY <1>6, <1>7
  <2>2. i \in Nat /\ i >= 1 /\ i <= Order /\ Order <= 16 /\ Ceiling = 26000 /\ ISF_GAP = 128 /\ Order \in Nat
    BY SpectrumRanges DEF Isfs
  <2> DEFINE low == Bottom(moved, i)
  <2>3. /\ low \in Int /\ -32768 <= low /\ low <= Ceiling + 128 * i
        /\ i = 1 => low = 128
        /\ i > 1 => low = moved[i - 1] + 128
    <3>1. CASE i = 1
      BY <2>2, <3>1
    <3>2. CASE i > 1
      <4>1. m \in Isfs
        BY <2>2, <3>2 DEF Isfs
      <4>2. moved[m] \in Int /\ -32768 <= moved[m] /\ moved[m] <= Ceiling + 128 * m
        BY <1>9, <4>1
      <4>3. i - 1 = m
        BY <2>2
      <4> DEFINE x == moved[m] + 128
      <4>4. x \in Int /\ -32768 <= x /\ x <= 32767 /\ x <= Ceiling + 128 * i
        BY <2>2, <4>2
      <4> HIDE DEF x
      <4>5. Sat16(x) = x
        BY <4>4, Sat16Is
      <4>6. low = Sat16(x)
        BY <2>2, <3>2, <4>3 DEF x
      <4> QED BY <3>2, <4>3, <4>4, <4>5, <4>6 DEF x
    <3> QED BY <2>2, <3>1, <3>2
  <2>4. moved[i] = IF i < Order /\ isf[i] < low THEN low ELSE isf[i]
    BY <2>1
  <2> HIDE DEF low, i, Step
  <2> QED BY <2>1, <2>2, <2>3, <2>4
<1>10. Nat \subseteq T
  <2> HIDE DEF T
  <2> QED BY <1>8, <1>9, UpFromZero
<1> HIDE DEF Step
<1>11. \A i \in Isfs : /\ moved[i] \in Int /\ -32768 <= moved[i] /\ moved[i] <= Ceiling + 128 * i
                       /\ i < Order => /\ i = 1 => moved[i] >= 128
                                       /\ i > 1 => moved[i] >= moved[i - 1] + 128
  BY <1>7, <1>10
<1>12. new \in IsfVectors
  <2>1. \A i \in Isfs : moved[i] \in Int16s
    BY <1>7, <1>11, SpectrumRanges DEF Isfs
  <2> QED BY <2>1 DEF IsfVectors
<1>13. Apart(new)
  <2>1. 1 \in Isfs /\ 1 < Order /\ Order \in Nat
    BY SpectrumRanges DEF Isfs
  <2>2. new[1] >= 128
    BY <1>11, <2>1
  <2>3. ASSUME NEW i \in 2..(Order - 1) PROVE new[i] - new[i - 1] >= 128
    <3>1. i \in Isfs /\ i - 1 \in Isfs /\ i > 1 /\ i < Order
      BY <2>1 DEF Isfs
    <3>2. moved[i] \in Int /\ moved[i - 1] \in Int /\ moved[i] >= moved[i - 1] + 128
      BY <1>11, <3>1
    <3>3. new[i] = moved[i] /\ new[i - 1] = moved[i - 1]
      BY <3>1
    <3> HIDE DEF new
    <3> QED BY <3>2, <3>3
  <2> HIDE DEF new
  <2> QED BY <2>2, <2>3, SpectrumRanges DEF Apart
<1>14. \A i \in Isfs : new[i] <= Ceiling + 128 * i
  BY <1>11
<1> QED BY <1>5, <1>12, <1>13, <1>14

LEMMA Constants ==
    /\ mean_isf \in [Isfs -> Frequency] /\ isf_init \in [Isfs -> Frequency]
    /\ \A isf \in NoiseIsfs : isf \in [Isfs -> Frequency]
    /\ \A residual \in Residuals : residual \in [Isfs -> Residual]
BY SpectrumAssumption DEF SpectrumAssumption

LEMMA FrequenciesAre ==
    ASSUME NEW isf \in [Isfs -> Frequency]
    PROVE  /\ isf \in IsfVectors
           /\ \A i \in Isfs : isf[i] \in Int /\ 0 <= isf[i] /\ isf[i] <= 16384 /\ isf[i] <= Ceiling + 128 * i
BY SpectrumRanges DEF Isfs, IsfVectors

(* What is known of a decoder's vectors. *)
Vector(isf) == isf \in IsfVectors /\ \A i \in Isfs : isf[i] <= Ceiling + 128 * i

Sound(d) ==
    /\ Shape(d)
    /\ Vector(d.isf_q) /\ Vector(d.isfold)
    /\ d.past_isfq \in [Isfs -> Past]
    /\ Buffer(d.isf_buf) /\ \A k \in 1..3 : d.isf_buf[k] \in IsfVectors /\ \A i \in Isfs : d.isf_buf[k][i] <= Ceiling

LEMMA DecodedIs ==
    ASSUME NEW d, NEW residual \in [Isfs -> Residual], d.past_isfq \in [Isfs -> Past]
    PROVE  LET isf == DecodedIsf(d, residual) IN
           isf \in IsfVectors /\ \A i \in Isfs : isf[i] <= Ceiling
<1> DEFINE isf == DecodedIsf(d, residual)
<1>1. ASSUME NEW i \in Isfs PROVE isf[i] \in Int16s /\ isf[i] <= Ceiling
  <2> DEFINE r == residual[i]  m == mean_isf[i]  p == d.past_isfq[i]
  <2>1. r \in Residual /\ m \in Frequency /\ p \in Past
    BY Constants
  <2> HIDE DEF r, m, p
  <2>2. r \in Int /\ -4096 <= r /\ r <= 4095 /\ m \in Int /\ 0 <= m /\ m <= 16384
        /\ p \in Int /\ -16384 <= p /\ p <= 16383
    BY <2>1, SpectrumRanges
  <2> DEFINE t == (10923 * p) \div 32768
  <2>3. t \in Int /\ -5462 <= t /\ t <= 5461
    BY <2>2
  <2> HIDE DEF t
  <2>4. Times(MU, p) = t
    <3>1. Times(10923, p) = Sat16(t)
      BY <2>2, TimesIs DEF t
    <3>2. Sat16(t) = t
      BY <2>3, Sat16Is
    <3> QED BY <3>1, <3>2 DEF MU
  <2> DEFINE s == r + m
  <2>5. s \in Int /\ -4096 <= s /\ s <= 20479
    BY <2>2
  <2> HIDE DEF s
  <2>6. Sat16(s) = s
    BY <2>5, Sat16Is
  <2> DEFINE u == s + t
  <2>7. u \in Int /\ -9558 <= u /\ u <= 25940
    BY <2>3, <2>5
  <2> HIDE DEF u
  <2>8. Sat16(u) = u
    BY <2>7, Sat16Is
  <2>9. isf[i] = Sat16(Sat16(r + m) + Times(MU, p))
    BY DEF DecodedIsf, r, m, p
  <2>10. isf[i] = u
    BY <2>4, <2>6, <2>8, <2>9 DEF s, u
  <2> HIDE DEF isf
  <2> QED BY <2>7, <2>10, SpectrumRanges
<1>2. isf = [i \in Isfs |-> isf[i]]
  BY DEF DecodedIsf
<1> HIDE DEF isf
<1> QED BY <1>1, <1>2 DEF isf, IsfVectors
LEMMA LostIs ==
    ASSUME NEW d, Sound(d)
    PROVE  LET new == LostIsf(d) IN Sound(new) /\ Apart(new.isf_q)
<1> DEFINE ref == ref_isf(d)
           isf == [i \in Isfs |-> Sat16(Times(ALPHA, d.isf_q[i]) + Times(ONE_ALPHA, ref[i]))]
           q == Reorder_isf(isf, ISF_GAP)
           past == [i \in Isfs |-> Sat16(isf[i] - Sat16(ref[i] + Times(d.past_isfq[i], MU))) \div 2]
<1>1. ASSUME NEW i \in Isfs PROVE ref[i] \in Int16s /\ ref[i] <= 23597
  <2> DEFINE m == mean_isf[i]  a == d.isf_buf[1][i]  b == d.isf_buf[2][i]  c == d.isf_buf[3][i]
  <2>1. m \in Frequency /\ a \in Int16s /\ b \in Int16s /\ c \in Int16s /\ a <= Ceiling /\ b <= Ceiling /\ c <= Ceiling
    BY Constants DEF Sound, IsfVectors
  <2>2. ref[i] = (16384 * (m + a + b + c) + 32768) \div 65536
    BY DEF ref_isf
  <2> HIDE DEF m, a, b, c, ref
  <2>3. m \in Int /\ 0 <= m /\ m <= 16384 /\ a \in Int /\ b \in Int /\ c \in Int
        /\ -32768 <= a /\ -32768 <= b /\ -32768 <= c /\ a <= 26000 /\ b <= 26000 /\ c <= 26000
    BY <2>1, SpectrumRanges
  <2> DEFINE s == m + a + b + c
  <2>4. s \in Int /\ -98304 <= s /\ s <= 94384
    BY <2>3
  <2> HIDE DEF s
  <2>5. (16384 * s + 32768) \div 65536 \in Int /\ -24576 <= (16384 * s + 32768) \div 65536
        /\ (16384 * s + 32768) \div 65536 <= 23597
    BY <2>4
  <2> QED BY <2>2, <2>5, SpectrumRanges DEF s
<1>2. ASSUME NEW i \in Isfs PROVE isf[i] \in Int16s /\ isf[i] <= Ceiling + 128 * i
  <2> DEFINE v == d.isf_q[i]  r == ref[i]
             t == (29491 * v) \div 32768  u == (3277 * r) \div 32768
  <2>1. isf[i] = Sat16(Times(ALPHA, v) + Times(ONE_ALPHA, r))
    OBVIOUS
  <2>2. v \in Int16s /\ v <= Ceiling + 128 * i /\ r \in Int16s /\ r <= 23597 /\ i \in Nat /\ i >= 1 /\ i <= 16
    <3>1. v \in Int16s /\ v <= Ceiling + 128 * i
      BY DEF Sound, Vector, IsfVectors
    <3>2. i \in Nat /\ i >= 1 /\ i <= 16
      BY SpectrumRanges DEF Isfs
    <3> QED BY <1>1, <3>1, <3>2
  <2> HIDE DEF v, r, isf
  <2>3. v \in Int /\ -32768 <= v /\ v <= 26000 + 128 * i /\ r \in Int /\ -32768 <= r
    BY <2>2, SpectrumRanges
  <2>4. ALPHA = 29491 /\ ONE_ALPHA = 3277
    BY DEF ALPHA, ONE_ALPHA
  <2>5. t \in Int /\ 32768 * t <= 29491 * v /\ -29492 <= t /\ u \in Int /\ 32768 * u <= 3277 * r /\ -3278 <= u
    BY <2>2, <2>3
  <2>6. t <= 32767 /\ u <= 32767
    BY <2>2, <2>3, <2>5
  <2> HIDE DEF t, u
  <2>7. Times(ALPHA, v) = t
    BY <2>3, <2>4, <2>5, <2>6, TimesIs, Sat16Is DEF t
  <2>8. Times(ONE_ALPHA, r) = u
    BY <2>2, <2>3, <2>4, <2>5, <2>6, TimesIs, Sat16Is DEF u
  <2>9. t + u \in Int /\ t + u <= 26000 + 128 * i /\ -32770 <= t + u
    BY <2>2, <2>3, <2>5
  <2>10. Sat16(t + u) \in Int16s /\ Sat16(t + u) <= 26000 + 128 * i
    <3>1. 26000 + 128 * i \in Int /\ -32768 <= 26000 + 128 * i
      BY <2>2
    <3> QED BY <2>9, <3>1, Sat16Is
  <2> QED BY <2>1, <2>7, <2>8, <2>10, SpectrumRanges
<1>3. isf \in IsfVectors
  <2> HIDE DEF ref
  <2>1. isf = [i \in Isfs |-> isf[i]]
    OBVIOUS
  <2> HIDE DEF isf
  <2> QED BY <1>2, <2>1 DEF IsfVectors
<1> HIDE DEF isf
<1>4. Vector(q) /\ Apart(q)
  BY <1>2, <1>3, ReorderIs DEF Vector
<1>5. past \in [Isfs -> Past]
  <2>1. ASSUME NEW i \in Isfs PROVE past[i] \in Past
    <3> DEFINE a == d.past_isfq[i]  p == Times(a, MU)  x == ref[i] + p  y == Sat16(x)  z == isf[i] - y  w == Sat16(z)
    <3>1. a \in Int /\ MU \in Int
      BY SpectrumRanges DEF Sound, MU
    <3>3. ref[i] \in Int /\ isf[i] \in Int
      BY <1>1, <1>2, SpectrumRanges
    <3>4. past[i] = w \div 2
      OBVIOUS
    <3> HIDE DEF a, x, y, z, w, ref, past
    <3>2. p \in Int
      BY <3>1, TimesIs
    <3> HIDE DEF p
    <3>5. x \in Int
      BY <3>2, <3>3 DEF x
    <3>6. y \in Int
      BY <3>5, Sat16Is DEF y
    <3>7. z \in Int
      BY <3>3, <3>6 DEF z
    <3>8. w \in Int16s
      BY <3>7, Sat16Is DEF w
    <3>9. w \in Int /\ -32768 <= w /\ w <= 32767
      BY <3>8, SpectrumRanges
    <3>10. w \div 2 \in Int /\ -16384 <= w \div 2 /\ w \div 2 <= 16383
      BY <3>9
    <3> QED BY <3>4, <3>10, SpectrumRanges
  <2>2. past = [i \in Isfs |-> past[i]]
    OBVIOUS
  <2> HIDE DEF past
  <2> QED BY <2>1, <2>2
<1>6. LostIsf(d) = [d EXCEPT !.isf_q = q, !.isfold = d.isf_q, !.past_isfq = past]
  BY DEF LostIsf, isf
<1> HIDE DEF q, past
<1>7. /\ Shape(LostIsf(d)) /\ LostIsf(d).isf_q = q /\ LostIsf(d).isfold = d.isf_q /\ LostIsf(d).past_isfq = past
      /\ LostIsf(d).isf_buf = d.isf_buf
  BY <1>6 DEF Sound, Shape
<1> QED BY <1>4, <1>5, <1>7 DEF Sound
LEMMA GoodIs ==
    ASSUME NEW d, Sound(d), NEW residual \in [Isfs -> Residual]
    PROVE  LET new == GoodIsf(d, residual) IN Sound(new) /\ Apart(new.isf_q)
<1> DEFINE isf == DecodedIsf(d, residual)
           good == GoodIsf(d, residual)
           q == Reorder_isf(isf, ISF_GAP)
<1>1. isf \in IsfVectors /\ \A i \in Isfs : isf[i] <= Ceiling
  BY DecodedIs DEF Sound
<1>2. \A i \in Isfs : i \in Nat /\ isf[i] \in Int
  <2>1. \A i \in Isfs : isf[i] \in Int16s
    BY <1>1 DEF IsfVectors
  <2> QED BY <2>1, SpectrumRanges DEF Isfs
<1>3. good.isf_q = q /\ good.isfold = d.isf_q /\ good.past_isfq = residual
  BY DEF GoodIsf
<1>4. /\ Shape(good) /\ Buffer(good.isf_buf)
      /\ good.isf_buf = [k \in 1..3 |-> IF k = 1 THEN isf ELSE d.isf_buf[k - 1]]
  BY GoodIsfIs DEF Sound
<1> HIDE DEF isf, good
<1>5. \A i \in Isfs : isf[i] <= Ceiling + 128 * i
  BY <1>1, <1>2, SpectrumRanges
<1>6. Vector(q) /\ Apart(q)
  BY <1>1, <1>5, ReorderIs DEF Vector
<1>7. residual \in [Isfs -> Past]
  <2>1. \A x \in Residual : x \in Past
    BY SpectrumRanges
  <2> QED BY <2>1
<1>8. \A k \in 1..3 : good.isf_buf[k] \in IsfVectors /\ \A i \in Isfs : good.isf_buf[k][i] <= Ceiling
  <2> SUFFICES ASSUME NEW k \in 1..3
               PROVE  good.isf_buf[k] \in IsfVectors /\ \A i \in Isfs : good.isf_buf[k][i] <= Ceiling
    OBVIOUS
  <2>1. CASE k = 1
    BY <1>1, <1>4, <2>1
  <2>2. CASE k # 1
    <3>1. k - 1 \in 1..3
      BY <2>2
    <3>2. good.isf_buf[k] = d.isf_buf[k - 1]
      BY <1>4, <2>2
    <3> QED BY <3>1, <3>2 DEF Sound
  <2> QED BY <2>1, <2>2
<1> HIDE DEF q
<1> QED BY <1>3, <1>4, <1>6, <1>7, <1>8 DEF Sound, good

LEMMA NoiseIs ==
    ASSUME NEW d, Sound(d), NEW isf \in NoiseIsfs
    PROVE  Sound(NoiseIsf(d, isf))
<1> DEFINE noise == NoiseIsf(d, isf)  zero == [i \in Isfs |-> 0]
<1>1. /\ Shape(noise) /\ noise.isf_q = isf /\ noise.isfold = d.isf_q
      /\ noise.past_isfq = zero /\ noise.isf_buf = d.isf_buf
  BY DEF NoiseIsf, Sound, Shape
<1>2. zero \in [Isfs -> Past]
  BY SpectrumRanges
<1>3. Vector(isf)
  BY Constants, FrequenciesAre DEF Vector
<1> HIDE DEF noise, zero
<1> QED BY <1>1, <1>2, <1>3 DEF Sound, noise

LEMMA InitialIs == Sound(InitialIsf)
<1> DEFINE zero == [i \in Isfs |-> 0]  buf == [k \in 1..3 |-> isf_init]
<1>1. InitialIsf = [isf_q |-> isf_init, isfold |-> isf_init, past_isfq |-> zero, isf_buf |-> buf]
  BY DEF InitialIsf, L_MEANBUF
<1>2. zero \in [Isfs -> Past]
  BY SpectrumRanges
<1>3. isf_init \in IsfVectors /\ Vector(isf_init)
  BY Constants, FrequenciesAre DEF Vector
<1>4. \A i \in Isfs : isf_init[i] <= Ceiling
  BY Constants, FrequenciesAre, SpectrumRanges
<1>5. Buffer(buf) /\ \A k \in 1..3 : buf[k] = isf_init
  BY DEF Buffer
<1> HIDE DEF zero, buf
<1> QED BY <1>1, <1>2, <1>3, <1>4, <1>5 DEF Sound, Shape

Scales == 0..32767

LEMMA ScalesAre == ASSUME NEW x \in Int, 0 <= x, x <= 32767 PROVE x \in Scales
<1> DEFINE high == 32767
<1>1. Scales = 0..high
  BY DEF Scales
<1>2. high \in Int /\ x <= high
  OBVIOUS
<1> HIDE DEF high
<1> QED BY <1>1, <1>2

(* The scale of the noise enhancer: the sum is capped as it is made. *)
LEMMA StabilityIs ==
    ASSUME NEW d, Sound(d)
    PROVE  stab_fac(d) \in Scales
<1> DEFINE square(i) == LET change == Sat16(d.isf_q[i] - d.isfold[i]) IN change * change
           Add(f, i) == IF i = 0 THEN 0
                        ELSE LET more == f[i - 1] + square(i) IN IF more > 4194304 THEN 4194304 ELSE more
           S == {m \in Nat : \E f : f = [i \in 0..m |-> Add(f, i)]}
           sum == CHOOSE f : f = [i \in 0..(Order - 1) |-> Add(f, i)]
           high == IF sum[Order - 1] = 4194304 THEN 32767 ELSE sum[Order - 1] \div 128
           tmp == Sat16(2 * (20480 - Times(high, 26214)))
<1>1. stab_fac(d) = IF tmp < 0 THEN 0 ELSE tmp
  BY DEF stab_fac
<1> HIDE DEF square
<1>2. 0 \in S
  <2> DEFINE f == [i \in 0..0 |-> 0]
  <2>1. \A i \in 0..0 : Add(f, i) = 0
    OBVIOUS
  <2> HIDE DEF Add
  <2>2. f = [i \in 0..0 |-> Add(f, i)]
    BY <2>1
  <2> HIDE DEF f
  <2> QED BY <2>2
<1>3. ASSUME NEW m \in Nat, m \in S PROVE m + 1 \in S
  <2>1. PICK f : f = [i \in 0..m |-> Add(f, i)]
    BY <1>3
  <2> DEFINE g == [i \in 0..(m + 1) |-> IF i <= m THEN f[i] ELSE Add(f, m + 1)]
  <2>2. \A i \in 0..(m + 1) : g[i] = Add(g, i)
    <3> SUFFICES ASSUME NEW i \in 0..(m + 1) PROVE g[i] = Add(g, i)
      OBVIOUS
    <3>1. i # 0 => g[i - 1] = f[i - 1]
      OBVIOUS
    <3>2. g[i] = IF i <= m THEN f[i] ELSE Add(f, m + 1)
      OBVIOUS
    <3> HIDE DEF g
    <3>3. Add(g, i) = Add(f, i)
      BY <3>1
    <3> HIDE DEF Add
    <3>4. i <= m => f[i] = Add(f, i)
      BY <2>1
    <3>5. ~ (i <= m) => i = m + 1
      OBVIOUS
    <3> QED BY <3>2, <3>3, <3>4, <3>5
  <2>3. g = [i \in 0..(m + 1) |-> g[i]]
    OBVIOUS
  <2> HIDE DEF g, Add
  <2>4. g = [i \in 0..(m + 1) |-> Add(g, i)]
    BY <2>2, <2>3
  <2> QED BY <2>4
<1>4. Order - 1 \in S
  <2> HIDE DEF S
  <2> QED BY <1>2, <1>3, UpFromZero, SpectrumRanges
<1>5. sum = [i \in 0..(Order - 1) |-> Add(sum, i)]
  <2> HIDE DEF Add
  <2> QED BY <1>4, Zenon
<1> HIDE DEF sum
<1>6. \A i \in 0..(Order - 1) : sum[i] = Add(sum, i)
  <2> HIDE DEF Add
  <2> QED BY <1>5
<1>7. ASSUME NEW i \in Isfs PROVE square(i) \in Int /\ square(i) >= 0
  <2> DEFINE a == d.isf_q[i]  b == d.isfold[i]  c == Sat16(a - b)
  <2>1. a \in Int16s /\ b \in Int16s
    BY DEF Sound, Vector, IsfVectors
  <2>2. square(i) = c * c
    BY DEF square
  <2> HIDE DEF a, b
  <2>3. a - b \in Int
    BY <2>1, SpectrumRanges
  <2>4. c \in Int
    BY <2>3, Sat16Is
  <2> HIDE DEF c
  <2>5. c * c \in Int /\ c * c >= 0
    BY <2>4
  <2> QED BY <2>2, <2>5
<1> DEFINE T == {i \in Nat : i < Order => sum[i] \in Int /\ 0 <= sum[i] /\ sum[i] <= 4194304}
<1>8. 0 \in T
  <2>1. 0 \in 0..(Order - 1)
    BY SpectrumRanges
  <2>2. sum[0] = 0
    BY <1>6, <2>1
  <2> QED BY <2>2
<1>9. ASSUME NEW m \in Nat, m \in T PROVE m + 1 \in T
  <2> SUFFICES ASSUME m + 1 < Order
               PROVE  sum[m + 1] \in Int /\ 0 <= sum[m + 1] /\ sum[m + 1] <= 4194304
    OBVIOUS
  <2>1. m + 1 \in Isfs /\ m + 1 \in 0..(Order - 1) /\ m < Order
    BY SpectrumRanges DEF Isfs
  <2>2. sum[m] \in Int /\ 0 <= sum[m] /\ sum[m] <= 4194304
    BY <1>9, <2>1
  <2> DEFINE s == square(m + 1)
  <2>3. s \in Int /\ s >= 0
    BY <1>7, <2>1
  <2>4. sum[m + 1] = Add(sum, m + 1)
    BY <1>6, <2>1
  <2>5. (m + 1) - 1 = m /\ m + 1 # 0
    OBVIOUS
  <2>6. sum[m + 1] = IF sum[m] + s > 4194304 THEN 4194304 ELSE sum[m] + s
    BY <2>4, <2>5
  <2> HIDE DEF s
  <2> QED BY <2>2, <2>3, <2>6
<1>10. Nat \subseteq T
  <2> HIDE DEF T
  <2> QED BY <1>8, <1>9, UpFromZero
<1>11. sum[Order - 1] \in Int /\ 0 <= sum[Order - 1] /\ sum[Order - 1] <= 4194304
  <2>1. Order - 1 \in Nat /\ Order - 1 < Order
    BY SpectrumRanges
  <2> QED BY <1>10, <2>1
<1>12. high \in Int /\ 0 <= high /\ high <= 32767
  BY <1>11
<1> HIDE DEF high
<1>13. Times(high, 26214) \in Int
  BY <1>12, TimesIs
<1> DEFINE x == 2 * (20480 - Times(high, 26214))
<1>14. x \in Int
  BY <1>13
<1> HIDE DEF x
<1>15. Sat16(x) \in Int /\ Sat16(x) <= 32767
  BY <1>14, Sat16Is, SpectrumRanges
<1> DEFINE y == Sat16(x)
<1>16. y \in Int /\ y <= 32767 /\ stab_fac(d) = IF y < 0 THEN 0 ELSE y
  BY <1>1, <1>15 DEF x
<1> HIDE DEF y
<1>17. stab_fac(d) \in Int /\ 0 <= stab_fac(d) /\ stab_fac(d) <= 32767
  BY <1>16
<1> QED BY <1>17, ScalesAre

SpectrumSound == Sound(receiver) /\ Sound(twin) /\ intact \in 0..4 /\ spectrumAge \in 0..MaxFrames

LEMMA SpectrumInitSound == SpectrumInit => SpectrumSound
BY InitialIs, SpectrumRanges DEF SpectrumInit, SpectrumSound, L_MEANBUF

LEMMA SpectrumStepSound ==
    ASSUME SpectrumSound, SpectrumNext
    PROVE  SpectrumSound' /\ (ReceiveIsfs \/ LoseIsfs => Apart(receiver'.isf_q))
<1>1. OneMoreFrame => spectrumAge' \in 0..MaxFrames
  BY SpectrumRanges DEF OneMoreFrame, SpectrumSound
<1>2. ASSUME ReceiveIsfs PROVE SpectrumSound' /\ Apart(receiver'.isf_q)
  <2>1. PICK residual \in Residuals : receiver' = GoodIsf(receiver, residual) /\ twin' = GoodIsf(twin, residual)
    BY <1>2 DEF ReceiveIsfs
  <2>2. OneMoreFrame /\ intact' = IF intact > 3 THEN intact ELSE intact + 1
    BY <1>2 DEF ReceiveIsfs, L_MEANBUF
  <2>3. Sound(receiver') /\ Sound(twin') /\ Apart(receiver'.isf_q)
    BY <2>1, Constants, GoodIs DEF SpectrumSound
  <2>4. intact' \in 0..4
    BY <2>2 DEF SpectrumSound
  <2> QED BY <1>1, <2>2, <2>3, <2>4 DEF SpectrumSound
<1>3. ASSUME LoseIsfs PROVE SpectrumSound' /\ Apart(receiver'.isf_q)
  <2>1. PICK residual \in Residuals : twin' = GoodIsf(twin, residual)
    BY <1>3 DEF LoseIsfs
  <2>2. OneMoreFrame /\ receiver' = LostIsf(receiver) /\ intact' = 0
    BY <1>3 DEF LoseIsfs
  <2>3. Sound(receiver') /\ Apart(receiver'.isf_q)
    BY <2>2, LostIs DEF SpectrumSound
  <2>4. Sound(twin')
    BY <2>1, Constants, GoodIs DEF SpectrumSound
  <2> QED BY <1>1, <2>2, <2>3, <2>4 DEF SpectrumSound
<1>4. ASSUME ComfortIsfs PROVE SpectrumSound'
  <2>1. PICK mine \in NoiseIsfs, its \in NoiseIsfs : receiver' = NoiseIsf(receiver, mine) /\ twin' = NoiseIsf(twin, its)
    BY <1>4 DEF ComfortIsfs
  <2>2. OneMoreFrame /\ intact' = intact
    BY <1>4 DEF ComfortIsfs
  <2>3. Sound(receiver') /\ Sound(twin')
    BY <2>1, NoiseIs DEF SpectrumSound
  <2> QED BY <1>1, <2>2, <2>3 DEF SpectrumSound
<1>5. ReceiveIsfs \/ LoseIsfs => Apart(receiver'.isf_q)
  BY <1>2, <1>3
<1>6. SpectrumSound'
  BY <1>2, <1>3, <1>4 DEF SpectrumNext
<1> QED BY <1>5, <1>6

LEMMA SpectrumAlwaysSound == SpectrumSpec => []SpectrumSound
<1>1. SpectrumSound /\ UNCHANGED spectrumVars => SpectrumSound'
  BY DEF spectrumVars, SpectrumSound
<1>2. SpectrumSound /\ [SpectrumNext]_spectrumVars => SpectrumSound'
  BY <1>1, SpectrumStepSound
<1> QED BY <1>2, SpectrumInitSound, PTL DEF SpectrumSpec

(* The spectra, the residuals and the scale of the noise enhancer stay in  *)
(* 16 bits whatever is received, lost or muted, and however many ISFs      *)
(* there are up to the 16 of the code.                                     *)
THEOREM SpectrumTypes == SpectrumSpec => []SpectrumTypeOK
<1>1. SpectrumSound => SpectrumTypeOK
  <2> SUFFICES ASSUME SpectrumSound PROVE SpectrumTypeOK
    OBVIOUS
  <2> DEFINE Stored(b) == Len(b) = L_MEANBUF /\ \A k \in 1..L_MEANBUF : b[k] \in IsfVectors
             InWords(d) == {d.isf_q, d.isfold, d.past_isfq} \subseteq IsfVectors
             Typed(d) == InWords(d) /\ Stored(d.isf_buf) /\ stab_fac(d) \in Scales
  <2>1. ASSUME NEW d, Sound(d) PROVE Typed(d)
    <3>1. d.isf_q \in IsfVectors /\ d.isfold \in IsfVectors
      BY <2>1 DEF Sound, Vector
    <3>2. d.past_isfq \in IsfVectors
      <4>1. \A x \in Past : x \in Int16s
        BY SpectrumRanges
      <4> QED BY <2>1, <4>1 DEF Sound, IsfVectors
    <3>3. Len(d.isf_buf) = 3 /\ \A k \in 1..3 : d.isf_buf[k] \in IsfVectors
      <4> DEFINE b == d.isf_buf
      <4>1. b = [k \in 1..3 |-> b[k]] /\ \A k \in 1..3 : b[k] \in IsfVectors
        BY <2>1 DEF Sound, Buffer
      <4> HIDE DEF b
      <4>2. b \in [1..3 -> IsfVectors]
        BY <4>1
      <4>3. Len(b) = 3
        BY <4>2
      <4> QED BY <4>1, <4>3 DEF b
    <3>4. stab_fac(d) \in Scales
      BY <2>1, StabilityIs
    <3>5. InWords(d)
      BY <3>1, <3>2
    <3>6. L_MEANBUF = 3
      BY DEF L_MEANBUF
    <3>7. Stored(d.isf_buf)
      BY <3>3, <3>6
    <3> HIDE DEF Stored, InWords
    <3> QED BY <3>4, <3>5, <3>7
  <2>2. Sound(receiver) /\ Sound(twin) /\ intact \in 0..(L_MEANBUF + 1) /\ spectrumAge \in 0..MaxFrames
    BY DEF SpectrumSound, L_MEANBUF
  <2>3. SpectrumTypeOK <=> /\ \A d \in {receiver, twin} : Typed(d)
                           /\ intact \in 0..(L_MEANBUF + 1) /\ spectrumAge \in 0..MaxFrames
    BY DEF SpectrumTypeOK, Scales
  <2> HIDE DEF Typed, SpectrumSound
  <2> QED BY <2>1, <2>2, <2>3
<1> QED BY <1>1, SpectrumAlwaysSound, PTL

-----------------------------------------------------------------------------
(* The codebook. *)

(* The bits of an index. *)
LEMMA BitsAre ==
    ASSUME NEW word \in Nat, NEW k \in Nat
    PROVE  /\ Bit(word, k) \in 0..1
           /\ word \div 2^k \in Nat
           /\ \A n \in Nat : BitsFrom(word, k, n) \in 0..(2^n - 1)
<1> DEFINE p == 2^k  q == word \div p
<1>1. p \in Nat /\ p >= 1
  BY PowersArePositive
<1> HIDE DEF p
<1>2. q \in Int /\ q >= 0
  BY <1>1, Divided, QuotientBounds
<1> HIDE DEF q
<1>3. q % 2 \in 0..1
  BY <1>2
<1>4. ASSUME NEW n \in Nat PROVE q % 2^n \in 0..(2^n - 1)
  <2> DEFINE r == 2^n
  <2>1. r \in Nat /\ r >= 1
    BY PowersArePositive
  <2> HIDE DEF r
  <2>2. q % r \in Int /\ 0 <= q % r /\ q % r < r
    BY <1>2, <2>1, Divided
  <2> QED BY <2>1, <2>2 DEF r
<1> QED BY <1>2, <1>3, <1>4 DEF Bit, BitsFrom, p, q

(* The signed pulses at the 2^N positions from a base. *)
Slots(N, base) == {s \in 0..(2 * NB_POS - 1) : s % NB_POS \in base..(base + 2^N - 1)}

(* What a decoder yields: so many pulses, all at those positions. *)
PulsesAt(pos, n, N, base) == pos \in Seq(Slots(N, base)) /\ Len(pos) = n

(* Where the positions of a part of a track are. *)
Places(N, base) == N \in Nat /\ base \in Nat /\ base + 2^N <= NB_POS

(* A pulse at one of the positions, with a sign. *)
LEMMA PulseIs ==
    ASSUME NEW N, NEW base, Places(N, base), NEW p \in 0..(2^N - 1), NEW s \in 0..1
    PROVE  p + base + NB_POS * s \in Slots(N, base)
<1> DEFINE r == 2^N
<1>1. r \in Nat /\ r >= 1
  BY PowersArePositive DEF Places
<1> QED BY <1>1 DEF Places, Slots, NB_POS

(* Each half of a part is a part of its own. *)
LEMMA HalvesOfTrack ==
    ASSUME NEW N \in Nat, NEW base, Places(N + 1, base), NEW b \in 0..1
    PROVE  /\ Places(N, base + 2^N * b) /\ Slots(N, base + 2^N * b) \subseteq Slots(N + 1, base)
           /\ Places(N, base) /\ Slots(N, base) \subseteq Slots(N + 1, base)
           /\ Places(N, base + 2^N) /\ Slots(N, base + 2^N) \subseteq Slots(N + 1, base)
<1> DEFINE r == 2^N  R == 2^(N + 1)
<1>1. r \in Nat /\ r >= 1 /\ R = 2 * r
  BY PowersArePositive, PowerDoubles
<1> HIDE DEF r, R
<1>2. base \in Nat /\ base + 2 * r <= 16
  BY <1>1 DEF Places, R, NB_POS
<1>3. r * b \in Nat /\ r * b <= r
  <2>1. CASE b = 0
    BY <1>1, <2>1
  <2>2. CASE b = 1
    BY <1>1, <2>2
  <2> QED BY <2>1, <2>2
<1>4. ASSUME NEW o \in Nat, base <= o, o <= base + r
      PROVE  Places(N, o) /\ Slots(N, o) \subseteq Slots(N + 1, base)
  <2>1. Places(N, o)
    BY <1>1, <1>2, <1>4 DEF Places, NB_POS, r
  <2>2. Slots(N, o) = {s \in 0..31 : s % 16 \in o..(o + r - 1)}
    BY DEF Slots, NB_POS, r
  <2>3. Slots(N + 1, base) = {s \in 0..31 : s % 16 \in base..(base + R - 1)}
    BY DEF Slots, NB_POS, R
  <2> QED BY <1>1, <1>2, <1>4, <2>1, <2>2, <2>3
<1> DEFINE o == base + r * b
<1>5. o \in Nat /\ base <= o /\ o <= base + r
  BY <1>1, <1>2, <1>3
<1>6. base + r \in Nat /\ base <= base + r
  BY <1>1, <1>2
<1>7. Places(N, o) /\ Slots(N, o) \subseteq Slots(N + 1, base)
  <2> HIDE DEF o
  <2> QED BY <1>4, <1>5
<1>8. Places(N, base) /\ Slots(N, base) \subseteq Slots(N + 1, base)
  BY <1>1, <1>2, <1>4
<1>9. Places(N, base + r) /\ Slots(N, base + r) \subseteq Slots(N + 1, base)
  BY <1>1, <1>2, <1>4, <1>6
<1> QED BY <1>7, <1>8, <1>9 DEF r, o

(* Pulses of two parts of a track, put one after the other. *)
LEMMA Together ==
    ASSUME NEW N, NEW base, NEW m, NEW n, NEW k, m \in Nat /\ n \in Nat /\ m + n = k,
           NEW x, NEW K, NEW a, PulsesAt(x, m, K, a), Slots(K, a) \subseteq Slots(N, base),
           NEW y, NEW L, NEW b, PulsesAt(y, n, L, b), Slots(L, b) \subseteq Slots(N, base)
    PROVE  PulsesAt(x \o y, k, N, base)
<1>1. x \in Seq(Slots(N, base)) /\ y \in Seq(Slots(N, base)) /\ Len(x) = m /\ Len(y) = n
  BY DEF PulsesAt
<1> QED BY <1>1, ConcatProperties DEF PulsesAt

(* Pulses of a part are pulses of the track. *)
LEMMA SubSlots ==
    ASSUME NEW N, NEW base, NEW n \in Nat, NEW K, NEW o, NEW x,
           PulsesAt(x, n, K, o), Slots(K, o) \subseteq Slots(N, base)
    PROVE  PulsesAt(x, n, N, base)
BY DEF PulsesAt

LEMMA OnePulse ==
    ASSUME NEW word \in Nat, NEW N, NEW base, Places(N, base)
    PROVE  PulsesAt(dec_1p_N1(word, N, base), 1, N, base)
<1> DEFINE p == BitsFrom(word, 0, N)  s == Bit(word, N)
<1>1. p \in 0..(2^N - 1) /\ s \in 0..1
  BY BitsAre DEF Places
<1> HIDE DEF p, s
<1>2. p + base + NB_POS * s \in Slots(N, base)
  BY <1>1, PulseIs
<1>3. dec_1p_N1(word, N, base) = <<p + base + NB_POS * s>>
  BY DEF dec_1p_N1, p, s
<1> QED BY <1>2, <1>3 DEF PulsesAt

LEMMA TwoPulsesIn ==
    ASSUME NEW word \in Nat, NEW N, NEW base, Places(N, base)
    PROVE  PulsesAt(dec_2p_2N1(word, N, base), 2, N, base)
<1> DEFINE p == BitsFrom(word, N, N)  q == BitsFrom(word, 0, N)  s == Bit(word, 2 * N)
           t == IF q + base < p + base THEN 1 - s ELSE s
<1>0. N \in Nat /\ 2 * N \in Nat
  BY DEF Places
<1>1. p \in 0..(2^N - 1) /\ q \in 0..(2^N - 1) /\ s \in 0..1
  BY <1>0, BitsAre
<1>2. dec_2p_2N1(word, N, base) = <<p + base + NB_POS * s, q + base + NB_POS * t>>
  BY DEF dec_2p_2N1
<1> HIDE DEF p, q, s
<1>3. t \in 0..1
  BY <1>1
<1> HIDE DEF t
<1>4. p + base + NB_POS * s \in Slots(N, base) /\ q + base + NB_POS * t \in Slots(N, base)
  BY <1>1, <1>3, PulseIs
<1> QED BY <1>2, <1>4 DEF PulsesAt

(* What the decoders of several pulses need of their words: those of the   *)
(* parts are natural numbers too.                                          *)
LEMMA PartsOfWord ==
    ASSUME NEW word \in Nat, NEW k \in Nat, NEW n \in Nat
    PROVE  BitsFrom(word, k, n) \in Nat /\ word \div 2^k \in Nat /\ Bit(word, k) \in 0..1
<1>1. 2^n \in Nat /\ BitsFrom(word, k, n) \in 0..(2^n - 1)
  BY BitsAre, PowersArePositive
<1> QED BY <1>1, BitsAre

LEMMA ThreePulses ==
    ASSUME NEW word \in Nat, NEW N \in Nat, NEW K, K = N + 1, NEW base, Places(K, base)
    PROVE  PulsesAt(dec_3p_3N1(word, K, base), 3, K, base)
<1> DEFINE w == BitsFrom(word, 0, 2 * K - 1)  v == BitsFrom(word, 2 * K, K + 1)
           o == base + 2^N * Bit(word, 2 * K - 1)
           x == dec_2p_2N1(w, N, o)  y == dec_1p_N1(v, K, base)
<1>1. K - 1 = N /\ K \in Nat /\ 2 * K - 1 \in Nat /\ 2 * K \in Nat /\ K + 1 \in Nat
  OBVIOUS
<1>2. w \in Nat /\ v \in Nat /\ Bit(word, 2 * K - 1) \in 0..1
  BY <1>1, PartsOfWord
<1>3. dec_3p_3N1(word, K, base) = x \o y
  BY <1>1 DEF dec_3p_3N1
<1> HIDE DEF w, v, x, y
<1>4. Places(N, o) /\ Slots(N, o) \subseteq Slots(K, base)
  BY <1>2, HalvesOfTrack
<1> HIDE DEF o
<1>5. PulsesAt(x, 2, N, o) /\ PulsesAt(y, 1, K, base)
  BY <1>2, <1>4, OnePulse, TwoPulsesIn DEF x, y
<1>0. 2 \in Nat /\ 1 \in Nat /\ 2 + 1 = 3
  OBVIOUS
<1>6. PulsesAt(x \o y, 3, K, base)
  BY <1>0, <1>4, <1>5, Together, Zenon
<1> QED BY <1>3, <1>6

LEMMA FourPulsesInHalf ==
    ASSUME NEW word \in Nat, NEW N \in Nat, NEW K, K = N + 1, NEW base, Places(K, base)
    PROVE  PulsesAt(dec_4p_4N1(word, K, base), 4, K, base)
<1> DEFINE w == BitsFrom(word, 0, 2 * K - 1)  v == BitsFrom(word, 2 * K, 2 * K + 1)
           o == base + 2^N * Bit(word, 2 * K - 1)
           x == dec_2p_2N1(w, N, o)  y == dec_2p_2N1(v, K, base)
<1>1. K - 1 = N /\ K \in Nat /\ 2 * K - 1 \in Nat /\ 2 * K \in Nat /\ 2 * K + 1 \in Nat
  OBVIOUS
<1>2. w \in Nat /\ v \in Nat /\ Bit(word, 2 * K - 1) \in 0..1
  BY <1>1, PartsOfWord
<1>3. dec_4p_4N1(word, K, base) = x \o y
  BY <1>1 DEF dec_4p_4N1
<1> HIDE DEF w, v, x, y
<1>4. Places(N, o) /\ Slots(N, o) \subseteq Slots(K, base)
  BY <1>2, HalvesOfTrack
<1> HIDE DEF o
<1>5. PulsesAt(x, 2, N, o) /\ PulsesAt(y, 2, K, base)
  BY <1>2, <1>4, TwoPulsesIn DEF x, y
<1>0. 2 \in Nat /\ 2 \in Nat /\ 2 + 2 = 4
  OBVIOUS
<1>6. PulsesAt(x \o y, 4, K, base)
  BY <1>0, <1>4, <1>5, Together, Zenon
<1> QED BY <1>3, <1>6

LEMMA FourPulses ==
    ASSUME NEW word \in Nat, NEW N \in Nat, NEW K, K = N + 1, NEW J, J = K + 1, NEW base, Places(J, base)
    PROVE  PulsesAt(dec_4p_4N(word, J, base), 4, J, base)
<1> DEFINE upper == base + 2^K
           lower == BitsFrom(word, 4 * J - 2, 2)
           b     == Bit(word, 4 * K + 1)
           half  == IF b = 1 THEN upper ELSE base
           w1 == word \div 2^(3 * K + 1)  w2 == word \div 2^(2 * K + 1)  w3 == word \div 2^(K + 1)
<1>1. J - 1 = K /\ K \in Nat /\ J \in Nat /\ 3 * K + 1 \in Nat /\ 2 * K + 1 \in Nat /\ K + 1 \in Nat
  OBVIOUS
<1>2. w1 \in Nat /\ w2 \in Nat /\ w3 \in Nat
  BY <1>1, PartsOfWord
<1>3. dec_4p_4N(word, J, base) =
        IF lower = 0 THEN dec_4p_4N1(word, K, half)
        ELSE IF lower = 1 THEN dec_1p_N1(w1, K, base) \o dec_3p_3N1(word, K, upper)
        ELSE IF lower = 2 THEN dec_2p_2N1(w2, K, base) \o dec_2p_2N1(word, K, upper)
        ELSE dec_3p_3N1(w3, K, base) \o dec_1p_N1(word, K, upper)
  BY <1>1 DEF dec_4p_4N
<1> HIDE DEF w1, w2, w3, lower, b
<1>4. /\ Places(K, base) /\ Slots(K, base) \subseteq Slots(J, base)
      /\ Places(K, upper) /\ Slots(K, upper) \subseteq Slots(J, base)
  BY <1>1, HalvesOfTrack
<1> HIDE DEF upper
<1>5. Places(K, half) /\ Slots(K, half) \subseteq Slots(J, base)
  BY <1>4
<1> HIDE DEF half
<1>6. CASE lower = 0
  <2>1. PulsesAt(dec_4p_4N1(word, K, half), 4, K, half)
    BY <1>5, FourPulsesInHalf
  <2> QED BY <1>3, <1>5, <1>6, <2>1, SubSlots
<1>7. CASE lower # 0 /\ lower = 1
  <2> DEFINE x == dec_1p_N1(w1, K, base)  y == dec_3p_3N1(word, K, upper)
  <2>1. PulsesAt(x, 1, K, base) /\ PulsesAt(y, 3, K, upper)
    BY <1>2, <1>4, OnePulse, ThreePulses
  <2> HIDE DEF x, y
  <2>0. 1 \in Nat /\ 3 \in Nat /\ 1 + 3 = 4
    OBVIOUS
  <2>2. PulsesAt(x \o y, 4, J, base)
    BY <2>0, <1>4, <2>1, Together, Zenon
  <2> QED BY <1>3, <1>7, <2>2 DEF x, y
<1>8. CASE lower # 0 /\ lower # 1 /\ lower = 2
  <2> DEFINE x == dec_2p_2N1(w2, K, base)  y == dec_2p_2N1(word, K, upper)
  <2>1. PulsesAt(x, 2, K, base) /\ PulsesAt(y, 2, K, upper)
    BY <1>2, <1>4, TwoPulsesIn
  <2> HIDE DEF x, y
  <2>0. 2 \in Nat /\ 2 \in Nat /\ 2 + 2 = 4
    OBVIOUS
  <2>2. PulsesAt(x \o y, 4, J, base)
    BY <2>0, <1>4, <2>1, Together, Zenon
  <2> QED BY <1>3, <1>8, <2>2 DEF x, y
<1>9. CASE lower # 0 /\ lower # 1 /\ lower # 2
  <2> DEFINE x == dec_3p_3N1(w3, K, base)  y == dec_1p_N1(word, K, upper)
  <2>1. PulsesAt(x, 3, K, base) /\ PulsesAt(y, 1, K, upper)
    BY <1>2, <1>4, OnePulse, ThreePulses
  <2> HIDE DEF x, y
  <2>0. 3 \in Nat /\ 1 \in Nat /\ 3 + 1 = 4
    OBVIOUS
  <2>2. PulsesAt(x \o y, 4, J, base)
    BY <2>0, <1>4, <2>1, Together, Zenon
  <2> QED BY <1>3, <1>9, <2>2 DEF x, y
<1> QED BY <1>6, <1>7, <1>8, <1>9

LEMMA FivePulses ==
    ASSUME NEW word \in Nat, NEW N \in Nat, NEW K, K = N + 1, NEW J, J = K + 1, NEW base, Places(J, base)
    PROVE  PulsesAt(dec_5p_5N(word, J, base), 5, J, base)
<1> DEFINE w == word \div 2^(2 * J + 1)
           o == base + 2^K * Bit(word, 5 * J - 1)
           x == dec_3p_3N1(w, K, o)  y == dec_2p_2N1(word, J, base)
<1>1. J - 1 = K /\ K \in Nat /\ J \in Nat /\ 2 * J + 1 \in Nat /\ 5 * J - 1 \in Nat
  OBVIOUS
<1>2. w \in Nat /\ Bit(word, 5 * J - 1) \in 0..1
  BY <1>1, PartsOfWord
<1>3. dec_5p_5N(word, J, base) = x \o y
  BY <1>1 DEF dec_5p_5N
<1> HIDE DEF w, x, y
<1>4. Places(K, o) /\ Slots(K, o) \subseteq Slots(J, base)
  BY <1>1, <1>2, HalvesOfTrack
<1> HIDE DEF o
<1>5. PulsesAt(x, 3, K, o) /\ PulsesAt(y, 2, J, base)
  BY <1>2, <1>4, TwoPulsesIn, ThreePulses DEF x, y
<1>0. 3 \in Nat /\ 2 \in Nat /\ 3 + 2 = 5
  OBVIOUS
<1>6. PulsesAt(x \o y, 5, J, base)
  BY <1>0, <1>4, <1>5, Together, Zenon
<1> QED BY <1>3, <1>6

LEMMA SixPulses ==
    ASSUME NEW word \in Nat, NEW N \in Nat, NEW K, K = N + 2, NEW J, J = K + 1, NEW base, Places(J, base)
    PROVE  PulsesAt(dec_6p_6N_2(word, J, base), 6, J, base)
<1> DEFINE upper == base + 2^K
           b == Bit(word, 6 * J - 5)
           oA == IF b = 0 THEN base ELSE upper
           oB == IF b = 0 THEN upper ELSE base
           split == BitsFrom(word, 6 * J - 4, 2)
           o1 == IF split = 0 THEN oA ELSE oB
           w1 == word \div 2^J  w2 == word \div 2^(2 * K + 1)  w3 == word \div 2^(3 * K + 1)
<1>1. J - 1 = K /\ K \in Nat /\ J \in Nat /\ 3 * K + 1 \in Nat /\ 2 * K + 1 \in Nat
      /\ N + 1 \in Nat /\ K = (N + 1) + 1
  OBVIOUS
<1>2. w1 \in Nat /\ w2 \in Nat /\ w3 \in Nat
  BY <1>1, PartsOfWord
<1>3. dec_6p_6N_2(word, J, base) =
        IF split <= 1 THEN dec_5p_5N(w1, K, oA) \o dec_1p_N1(word, K, o1)
        ELSE IF split = 2 THEN dec_4p_4N(w2, K, oA) \o dec_2p_2N1(word, K, oB)
        ELSE dec_3p_3N1(w3, K, base) \o dec_3p_3N1(word, K, upper)
  BY <1>1 DEF dec_6p_6N_2
<1> HIDE DEF w1, w2, w3, split, b
<1>4. /\ Places(K, base) /\ Slots(K, base) \subseteq Slots(J, base)
      /\ Places(K, upper) /\ Slots(K, upper) \subseteq Slots(J, base)
  BY <1>1, HalvesOfTrack
<1> HIDE DEF upper
<1>5. /\ Places(K, oA) /\ Slots(K, oA) \subseteq Slots(J, base)
      /\ Places(K, oB) /\ Slots(K, oB) \subseteq Slots(J, base)
  BY <1>4
<1> HIDE DEF oA, oB
<1>6. Places(K, o1) /\ Slots(K, o1) \subseteq Slots(J, base)
  BY <1>5
<1> HIDE DEF o1
<1>7. CASE split <= 1
  <2> DEFINE x == dec_5p_5N(w1, K, oA)  y == dec_1p_N1(word, K, o1)
  <2>1. PulsesAt(x, 5, K, oA) /\ PulsesAt(y, 1, K, o1)
    BY <1>1, <1>2, <1>5, <1>6, OnePulse, FivePulses
  <2> HIDE DEF x, y
  <2>0. 5 \in Nat /\ 1 \in Nat /\ 5 + 1 = 6
    OBVIOUS
  <2>2. PulsesAt(x \o y, 6, J, base)
    BY <2>0, <1>5, <1>6, <2>1, Together, Zenon
  <2> QED BY <1>3, <1>7, <2>2 DEF x, y
<1>8. CASE ~ (split <= 1) /\ split = 2
  <2> DEFINE x == dec_4p_4N(w2, K, oA)  y == dec_2p_2N1(word, K, oB)
  <2>1. PulsesAt(x, 4, K, oA) /\ PulsesAt(y, 2, K, oB)
    BY <1>1, <1>2, <1>5, FourPulses, TwoPulsesIn
  <2> HIDE DEF x, y
  <2>0. 4 \in Nat /\ 2 \in Nat /\ 4 + 2 = 6
    OBVIOUS
  <2>2. PulsesAt(x \o y, 6, J, base)
    BY <2>0, <1>5, <2>1, Together, Zenon
  <2> QED BY <1>3, <1>8, <2>2 DEF x, y
<1>9. CASE ~ (split <= 1) /\ split # 2
  <2> DEFINE x == dec_3p_3N1(w3, K, base)  y == dec_3p_3N1(word, K, upper)
  <2>1. PulsesAt(x, 3, K, base) /\ PulsesAt(y, 3, K, upper)
    BY <1>1, <1>2, <1>4, ThreePulses
  <2> HIDE DEF x, y
  <2>0. 3 \in Nat /\ 3 \in Nat /\ 3 + 3 = 6
    OBVIOUS
  <2>2. PulsesAt(x \o y, 6, J, base)
    BY <2>0, <1>4, <2>1, Together, Zenon
  <2> QED BY <1>3, <1>9, <2>2 DEF x, y
<1> QED BY <1>7, <1>8, <1>9

(* Pulses at some positions are pulses at more of them. *)
LEMMA PulsesInSet ==
    ASSUME NEW x, NEW n, NEW N, NEW base, NEW T, PulsesAt(x, n, N, base), Slots(N, base) \subseteq T
    PROVE  x \in Seq(T) /\ Len(x) = n
BY DEF PulsesAt

(* The decoders of a track have bits for 16 positions, from the first on.  *)
LEMMA TrackIs ==
    ASSUME NEW n \in 1..6, NEW word \in Nat
    PROVE  /\ TrackDecoder(n, word, 4) \in Seq(0..(2 * NB_POS - 1))
           /\ Len(TrackDecoder(n, word, 4)) = n
<1>1. 2^4 = 16
  OBVIOUS
<1>2. Places(4, 0) /\ 4 = 3 + 1 /\ 3 = 2 + 1 /\ 3 = 1 + 2 /\ 1 \in Nat /\ 2 \in Nat /\ 3 \in Nat
  BY <1>1 DEF Places, NB_POS
<1>3. PulsesAt(TrackDecoder(n, word, 4), n, 4, 0)
  <2>1. CASE n = 1
    <3>1. TrackDecoder(n, word, 4) = dec_1p_N1(word, 4, 0)
      BY <2>1 DEF TrackDecoder
    <3> QED BY <1>2, <2>1, <3>1, OnePulse
  <2>2. CASE n = 2
    <3>1. TrackDecoder(n, word, 4) = dec_2p_2N1(word, 4, 0)
      BY <2>2 DEF TrackDecoder
    <3> QED BY <1>2, <2>2, <3>1, TwoPulsesIn
  <2>3. CASE n = 3
    <3>1. TrackDecoder(n, word, 4) = dec_3p_3N1(word, 4, 0)
      BY <2>3 DEF TrackDecoder
    <3> QED BY <1>2, <2>3, <3>1, ThreePulses
  <2>4. CASE n = 4
    <3>1. TrackDecoder(n, word, 4) = dec_4p_4N(word, 4, 0)
      BY <2>4 DEF TrackDecoder
    <3> QED BY <1>2, <2>4, <3>1, FourPulses
  <2>5. CASE n = 5
    <3>1. TrackDecoder(n, word, 4) = dec_5p_5N(word, 4, 0)
      BY <2>5 DEF TrackDecoder
    <3> QED BY <1>2, <2>5, <3>1, FivePulses
  <2>6. CASE n = 6
    <3>1. TrackDecoder(n, word, 4) = dec_6p_6N_2(word, 4, 0)
      BY <2>6 DEF TrackDecoder
    <3> QED BY <1>2, <2>6, <3>1, SixPulses
  <2> QED BY <2>1, <2>2, <2>3, <2>4, <2>5, <2>6
<1>4. Slots(4, 0) \subseteq 0..(2 * NB_POS - 1)
  BY DEF Slots
<1> QED BY <1>3, <1>4, PulsesInSet

(* No more pulses meet at a position than there are.                       *)
LEMMA SumIs ==
    ASSUME NEW S, NEW pos \in Seq(S), NEW p
    PROVE  Sum(pos, p) \in (-Len(pos))..Len(pos)
<1> DEFINE D == 1..Len(pos)
           A == {k \in DOMAIN pos : pos[k] = p}  B == {k \in DOMAIN pos : pos[k] = p + NB_POS}
<1>1. Len(pos) \in Nat /\ DOMAIN pos = D
  OBVIOUS
<1>2. IsFiniteSet(D) /\ Cardinality(D) = Len(pos)
  <2>1. IsFiniteSet(D) /\ Cardinality(D) = IF 1 > Len(pos) THEN 0 ELSE Len(pos) - 1 + 1
    BY <1>1, FS_Interval
  <2> QED BY <1>1, <2>1
<1>3. A \in SUBSET D /\ B \in SUBSET D
  BY <1>1
<1> HIDE DEF A, B, D
<1>4. /\ IsFiniteSet(A) /\ Cardinality(A) <= Cardinality(D)
      /\ IsFiniteSet(B) /\ Cardinality(B) <= Cardinality(D)
  BY <1>2, <1>3, FS_Subset
<1>5. Cardinality(A) \in Nat /\ Cardinality(B) \in Nat
  BY <1>4, FS_CardinalityType
<1>6. Sum(pos, p) = Cardinality(A) - Cardinality(B)
  BY DEF Sum, A, B
<1> QED BY <1>1, <1>2, <1>4, <1>5, <1>6

(* The pulses of a track come where no other track has any.                *)
CodebookInv ==
    /\ codeMode \in 0..8 /\ track \in 0..NB_TRACK
    /\ pulses \in Seq(0..(2 * NB_POS - 1))
    /\ code \in [0..(L_CODE - 1) -> -6..6]
    /\ codeMode > 0 => \A i \in 0..(L_CODE - 1) : i % NB_TRACK >= track => code[i] = 0

LEMMA PulsesRange ==
    ASSUME codeMode \in 1..8, track \in 0..3
    PROVE  /\ PulsesOf(codeMode, track) \in 1..6
           /\ ReceivedIndexBits(PulsesOf(codeMode, track), 4) \in Nat
<1>1. PulsesOf(codeMode, track) \in 1..6
  BY DEF PulsesOf
<1>2. \A n \in 1..6 : ReceivedIndexBits(n, 4) \in Nat
  BY DEF ReceivedIndexBits
<1> QED BY <1>1, <1>2

LEMMA CodebookInitInv == CodebookInit => CodebookInv
BY DEF CodebookInit, CodebookInv, NB_TRACK, NB_POS, L_CODE

LEMMA TwoPulsesInv == ASSUME CodebookInv, DecodeTwoPulses PROVE CodebookInv'
<1>1. PICK w \in Words : index' = w % 2^12
  BY DEF DecodeTwoPulses
<1>2. w \in Nat
  BY CodebookAssumption DEF CodebookAssumption
<1>3. 2^12 \in Nat /\ 2^12 >= 1
  BY PowersArePositive
<1>4. index' \in Nat
  BY <1>1, <1>2, <1>3, Divided
<1>5. Bit(index', 11) \in 0..1 /\ Bit(index', 5) \in 0..1
  BY <1>4, PartsOfWord
<1>6. \A i \in 0..(L_CODE - 1) : TwoPulses(index')[i] \in -6..6
  BY <1>5 DEF TwoPulses
<1>7. TwoPulses(index') \in [0..(L_CODE - 1) -> -6..6]
  BY <1>6 DEF TwoPulses
<1> QED BY <1>7 DEF DecodeTwoPulses, CodebookInv, NB_TRACK

LEMMA TrackInv == ASSUME CodebookInv, DecodeTrack PROVE CodebookInv'
<1> DEFINE n == PulsesOf(codeMode, track)  b == ReceivedIndexBits(n, 4)
<1>1. codeMode \in 1..8 /\ track \in 0..3 /\ codeMode' = codeMode /\ track' = track + 1
  BY DEF DecodeTrack, CodebookInv, NB_TRACK
<1>2. n \in 1..6 /\ b \in Nat
  BY <1>1, PulsesRange
<1>3. PICK w \in Words : index' = w % 2^b
  BY DEF DecodeTrack
<1>4. pulses' = TrackDecoder(n, index', 4) /\ code' = add_pulses(pulses', track, code)
  BY DEF DecodeTrack
<1> HIDE DEF n, b
<1>5. w \in Nat
  BY CodebookAssumption DEF CodebookAssumption
<1>6. 2^b \in Nat /\ 2^b >= 1
  BY <1>2, PowersArePositive
<1>7. index' \in Nat
  BY <1>3, <1>5, <1>6, Divided
<1>8. pulses' \in Seq(0..(2 * NB_POS - 1)) /\ Len(pulses') = n
  BY <1>2, <1>4, <1>7, TrackIs
<1>9. \A p : Sum(pulses', p) \in -6..6
  <2> TAKE p
  <2>1. Sum(pulses', p) \in (-Len(pulses'))..Len(pulses')
    BY <1>8, SumIs
  <2> QED BY <1>2, <1>8, <2>1
<1> DEFINE I == 0..(L_CODE - 1)
<1>10. I = 0..63
  BY DEF L_CODE
<1>11. /\ code \in [I -> -6..6]
       /\ \A i \in I : i % NB_TRACK >= track => code[i] = 0
  BY <1>1 DEF CodebookInv
<1>12. code' = [i \in I |-> IF i % NB_TRACK = track THEN code[i] + Sum(pulses', i \div NB_TRACK) ELSE code[i]]
  BY <1>4, Zenon DEF add_pulses
<1> HIDE DEF I
<1>13. \A i \in I : i % NB_TRACK \in 0..3
  BY <1>10 DEF NB_TRACK
<1>14. code' \in [I -> -6..6]
  <2> SUFFICES ASSUME NEW i \in I PROVE code'[i] \in -6..6
    BY <1>12
  <2>1. CASE i % NB_TRACK = track
    <3>1. code[i] = 0 /\ code'[i] = code[i] + Sum(pulses', i \div NB_TRACK)
      BY <1>1, <1>11, <1>12, <1>13, <2>1
    <3>2. Sum(pulses', i \div NB_TRACK) \in -6..6
      BY <1>9
    <3> QED BY <3>1, <3>2
  <2>2. CASE i % NB_TRACK # track
    BY <1>11, <1>12, <2>2
  <2> QED BY <2>1, <2>2
<1>15. \A i \in I : i % NB_TRACK >= track' => code'[i] = 0
  <2> SUFFICES ASSUME NEW i \in I, i % NB_TRACK >= track' PROVE code'[i] = 0
    OBVIOUS
  <2>1. i % NB_TRACK # track /\ i % NB_TRACK >= track
    BY <1>1, <1>13
  <2> QED BY <1>11, <1>12, <2>1
<1>16. track' \in 0..NB_TRACK
  BY <1>1 DEF NB_TRACK
<1>17. codeMode' \in 0..8
  BY <1>1
<1> QED BY <1>8, <1>14, <1>15, <1>16, <1>17 DEF CodebookInv, I

LEMMA CodebookNextInv == ASSUME CodebookInv, [CodebookNext]_codebookVars PROVE CodebookInv'
<1>1. CASE UNCHANGED codebookVars
  BY <1>1 DEF codebookVars, CodebookInv
<1> QED BY <1>1, TwoPulsesInv, TrackInv DEF CodebookNext

LEMMA CodebookInvTypes == CodebookInv => CodebookTypeOK
<1> SUFFICES ASSUME CodebookInv PROVE CodebookTypeOK
  OBVIOUS
<1> DEFINE T == 0..(2 * NB_POS - 1)
<1>1. pulses \in Seq(T)
  BY DEF CodebookInv
<1> HIDE DEF T
<1>2. \A k \in DOMAIN pulses : pulses[k] \in T
  BY <1>1
<1> QED BY <1>2 DEF CodebookInv, CodebookTypeOK, T

LEMMA CodebookAlwaysInv == CodebookSpec => []CodebookInv
BY CodebookInitInv, CodebookNextInv, PTL DEF CodebookSpec

(* A pulse is a position of its track and a sign, and no code vector has a *)
(* pulse higher than six, whatever index is received.                      *)
THEOREM CodebookTypes == CodebookSpec => []CodebookTypeOK
BY CodebookInvTypes, CodebookAlwaysInv, PTL

(* The parts of an index are as wide as the decoder of its track takes it, *)
(* in every mode.                                                          *)
THEOREM IndicesStayWhole == CodebookSpec => []IndicesAreWhole
<1>1. CodebookInv => IndicesAreWhole
  <2> SUFFICES ASSUME codeMode \in 1..8, track \in 0..3 PROVE IndicesAreWhole
    BY DEF CodebookInv, IndicesAreWhole, NB_TRACK
  <2> USE DEF IndicesAreWhole, CodeWidths, ShiftOf, PulsesOf, ReceivedIndexBits, NB_TRACK
  <2>1. CASE codeMode = 1 BY <2>1
  <2>2. CASE codeMode = 2 BY <2>2
  <2>3. CASE codeMode = 3 BY <2>3
  <2>4. CASE codeMode = 4 BY <2>4
  <2>5. CASE codeMode = 5 BY <2>5
  <2>6. CASE codeMode = 6 BY <2>6
  <2>7. CASE codeMode = 7 BY <2>7
  <2>8. CASE codeMode = 8 BY <2>8
  <2> QED BY <2>1, <2>2, <2>3, <2>4, <2>5, <2>6, <2>7, <2>8
<1> QED BY <1>1, CodebookAlwaysInv, PTL

-----------------------------------------------------------------------------
(* The specification that the runs check. *)

LEMMA InitOfParts ==
    ASSUME AmrInit
    PROVE  DecoderInit /\ FrameInit /\ PitchInit /\ GainsInit /\ ArithmeticInit /\ SpectrumInit
           /\ MathInit /\ FilterInit
BY Zenon DEF AmrInit

(* A step takes one part further and leaves the others alone. *)
LEMMA StepOfParts ==
    ASSUME [AmrNext]_amrVars
    PROVE  /\ [Decode]_decoderVars /\ [FrameNext]_frameVars /\ [PitchNext]_pitchVars
           /\ [GainsNext]_gainVars /\ [ArithmeticNext]_arithmeticVars /\ [SpectrumNext]_spectrumVars
           /\ [MathNext]_mathVars /\ [FilterNext]_filterVars
<1>1. CASE UNCHANGED amrVars
  BY <1>1, Zenon DEF amrVars
<1>2. CASE AmrNext
  <2>1. /\ subject # "decoder" => UNCHANGED decoderVars
        /\ subject # "frame" => UNCHANGED frameVars
        /\ subject # "pitch" => UNCHANGED pitchVars
        /\ subject # "gains" => UNCHANGED gainVars
        /\ subject # "arithmetic" => UNCHANGED arithmeticVars
        /\ subject # "spectrum" => UNCHANGED spectrumVars
        /\ subject # "math" => UNCHANGED mathVars
        /\ subject # "filter" => UNCHANGED filterVars
    BY <1>2, Zenon DEF AmrNext, Keep
  <2>2. /\ subject = "decoder" => Decode
        /\ subject = "frame" => FrameNext
        /\ subject = "pitch" => PitchNext
        /\ subject = "gains" => GainsNext
        /\ subject = "arithmetic" => ArithmeticNext
        /\ subject = "spectrum" => SpectrumNext
        /\ subject = "math" => MathNext
        /\ subject = "filter" => FilterNext
    BY <1>2 DEF AmrNext
  <2> QED BY <2>1, <2>2, Zenon
<1> QED BY <1>1, <1>2

(* The two parts that have small variables while they are not the subject  *)
(* behave as they do alone when they are; what is inductive for them is    *)
(* inductive for the whole.                                                *)
PartsInv ==
    /\ subject = "codebook" => CodebookInv
    /\ subject = "synthesis" => SynthesisInv

LEMMA PartsInitInv == AmrInit => PartsInv
<1>1. AmrInit => (subject = "codebook" => CodebookInit) /\ (subject = "synthesis" => SynthesisInit)
  BY Zenon DEF AmrInit
<1> QED BY <1>1, CodebookInitInv, SynthesisInitInv, Zenon DEF PartsInv

LEMMA PartsNextInv == ASSUME PartsInv, [AmrNext]_amrVars PROVE PartsInv'
<1>1. /\ subject' = subject
      /\ subject = "codebook" => [CodebookNext]_codebookVars
      /\ subject = "synthesis" => [SynthesisNext]_synthesisVars
  <2>1. CASE UNCHANGED amrVars
    BY <2>1, Zenon DEF amrVars
  <2>2. CASE AmrNext
    BY <2>2 DEF AmrNext
  <2> QED BY <2>1, <2>2
<1>2. subject = "codebook" => CodebookInv'
  BY <1>1, CodebookNextInv, Zenon DEF PartsInv
<1>3. subject = "synthesis" => SynthesisInv'
  BY <1>1, SynthesisNextInv, Zenon DEF PartsInv
<1> QED BY <1>1, <1>2, <1>3, Zenon DEF PartsInv

LEMMA PartsAlwaysInv == AmrSpec => []PartsInv
BY PartsInitInv, PartsNextInv, PTL DEF AmrSpec

(* Whatever the subject of a run is, each of these parts behaves as it     *)
(* does alone: what is proved of a part holds of the runs.                 *)
THEOREM PartsStandAlone ==
    AmrSpec => DecoderSpec /\ FrameSpec /\ PitchSpec /\ GainsSpec /\ ArithmeticSpec /\ SpectrumSpec
               /\ MathSpec /\ FilterSpec
BY InitOfParts, StepOfParts, PTL
   DEF AmrSpec, DecoderSpec, FrameSpec, PitchSpec, GainsSpec, ArithmeticSpec, SpectrumSpec, MathSpec, FilterSpec

LEMMA GainsAlwaysInv == GainsSpec => []GainsInv
BY GainsInitInv, GainsNextInv, PTL DEF GainsSpec

LEMMA SpectrumAlwaysInv == SpectrumSpec => []SpectrumInv
BY SpectrumInitInv, SpectrumNextInv, PTL DEF SpectrumSpec

(* The gains of pitch and of code, the energies and the state of the       *)
(* dispersion stay in the range of their type.                             *)
THEOREM GainsKeepTypes == GainsSpec => []GainsTypeOK
<1>1. GainsInv => GainsTypeOK
  BY DEF GainsInv
<1> QED BY <1>1, GainsAlwaysInv, PTL

(* What stands for the gains, the lags and the spectra of lost frames is   *)
(* founded on what was received, for every entry of the codebooks.         *)
THEOREM ConcealmentHolds == AmrSpec => ConcealmentIsFounded
<1> DEFINE Ordered == ReceiveIsfs \/ LoseIsfs => Apart(receiver'.isf_q)
           Founded ==
        /\ subject = "gains" => PredictionRecovers' /\ DispersionRemembers' /\ RecoveryIsLimited
        /\ subject = "pitch" /\ lag_hist' # lag_hist => HistorySorted'
        /\ subject = "spectrum" => SpectrumRecovers' /\ Ordered
<1>1. AmrSpec => []GainsInv /\ []PitchInv /\ []SpectrumInv /\ []SpectrumSound
  BY PartsStandAlone, GainsAlwaysInv, PitchAlwaysInv, SpectrumAlwaysInv, SpectrumAlwaysSound, PTL
<1>2. GainsInv => PredictionRecovers /\ DispersionRemembers
  BY GainsAreFounded
<1>3. PitchInv => HistorySorted
  BY SortedAlways
<1>4. SpectrumInv => SpectrumRecovers
  BY SpectrumIsFounded
<1>5. GainsInv => RecoveryIsLimited
  BY RecoveryLimited
<1>6. SpectrumSound => Ordered
  BY SpectrumStepSound DEF SpectrumNext
<1> HIDE DEF Ordered
<1>7. (PredictionRecovers /\ DispersionRemembers)' /\ HistorySorted' /\ SpectrumRecovers' /\ RecoveryIsLimited /\ Ordered
         => [Founded]_amrVars
  OBVIOUS
<1>8. AmrSpec => [][Founded]_amrVars
  BY <1>1, <1>2, <1>3, <1>4, <1>5, <1>6, <1>7, PTL DEF AmrSpec
<1> QED BY <1>8 DEF ConcealmentIsFounded, Ordered

(* Every part keeps to its types, for every mode, body, index, gain,       *)
(* spectrum and operand, not only for those of the runs.                   *)
THEOREM AmrTypesHold == AmrSpec => []AmrTypeOK
<1>1. AmrSpec => /\ []DecoderTypeOK /\ []FrameTypeOK /\ []PitchTypeOK /\ []GainsTypeOK
                 /\ []ArithmeticTypeOK /\ []SpectrumTypeOK
  BY PartsStandAlone, DecoderTypes, BodyTypes, PitchTypes, GainsKeepTypes, ArithmeticTypes, SpectrumTypes, PTL
<1>2. PartsInv => (subject = "codebook" => CodebookTypeOK) /\ (subject = "synthesis" => SynthesisTypeOK)
  BY CodebookInvTypes, SynthesisSound, Zenon DEF PartsInv
<1>3. ASSUME DecoderTypeOK, FrameTypeOK, PitchTypeOK, GainsTypeOK, ArithmeticTypeOK, SpectrumTypeOK,
             subject = "codebook" => CodebookTypeOK, subject = "synthesis" => SynthesisTypeOK
      PROVE  AmrTypeOK
  BY <1>3, Zenon DEF AmrTypeOK
<1> QED BY <1>1, <1>2, <1>3, PartsAlwaysInv, PTL

(* Every sample of the output is made from the samples before it, across   *)
(* subframes, frames and changes of rate, and the high band has its past   *)
(* at every rate: synthesis_amr_wb.                                        *)
THEOREM SynthesisHolds == AmrSpec => []SynthesisIsContinuous
<1>1. PartsInv => SynthesisIsContinuous
  BY SynthesisSound, Zenon DEF PartsInv, SynthesisIsContinuous
<1> QED BY <1>1, PartsAlwaysInv, PTL

(* The operations, the shifts and the numbers in double precision do what  *)
(* they promise, in the runs and for words of every width.                 *)
THEOREM NumbersAlwaysHold == AmrSpec => []NumbersHold
<1>1. ArithmeticInv => OperationsSaturate /\ ShiftsSaturate /\ HalvesMultiply
  BY Operations, Shifts, HalvesAre
<1>2. AmrSpec => []ArithmeticInv
  BY PartsStandAlone, OperandsAreWords, PTL
<1>3. OperationsSaturate /\ ShiftsSaturate /\ HalvesMultiply => NumbersHold
  BY DEF NumbersHold
<1> QED BY <1>1, <1>2, <1>3, PTL
=============================================================================
