----------------------------- MODULE AmrSpectrum -----------------------------
(***************************************************************************)
(* The spectrum of a frame: immittance spectral frequencies (ISFs) from    *)
(* split codebooks and a prediction (qpisf_2s, qisf_ns), the estimate of a *)
(* lost one, the cosines of the ISFs (isp_isf) and their interpolation.    *)
(*                                                                         *)
(* The decoder runs beside a twin that has received every frame.  One      *)
(* action is one frame.  Codebook entries are vectors of a small set; the  *)
(* arithmetic has its real width.                                          *)
(***************************************************************************)
EXTENDS AmrTables, FiniteSets

CONSTANTS
    Order,        \* ISFs of a vector: 16 (ORDER, M)
    mean_isf,     \* their means
    isf_init,     \* ... and their values after a reset
    Residuals,    \* what the codebooks can give together
    NoiseIsfs,    \* spectra of comfort noise
    MaxFrames     \* bound of the model

Isfs      == 1..Order
Int16s    == -32768..32767
Frequency == 0..16384       \* the highest is half of that of the samples
Residual  == -4096..4095    \* no entries of the tables add up to more

ASSUME SpectrumAssumption ==
    /\ Order \in 2..16 /\ MaxFrames \in Nat
    /\ {mean_isf, isf_init} \cup NoiseIsfs \subseteq [Isfs -> Frequency]
    /\ Residuals \subseteq [Isfs -> Residual]

VARIABLES
    receiver,     \* isf_q (of this frame), isfold (of the last one), past_isfq, isf_buf
    twin,         \* the same of a decoder that loses nothing
    intact,       \* good frames since the last loss
    spectrumAge   \* frames

spectrumVars == <<receiver, twin, intact, spectrumAge>>

L_MEANBUF == 3
ISF_GAP   == 128
MU        == 10923    \* 1/3
ALPHA     == 29491    \* 0.9
ONE_ALPHA == 32768 - ALPHA

Sat16(x) == IF x > 32767 THEN 32767 ELSE IF x < -32768 THEN -32768 ELSE x
Times(a, b) == Sat16((a * b) \div 32768)    \* mult_int16

-----------------------------------------------------------------------------
(* Codebooks: which entries of which table make up which ISFs.             *)

Split(table, index, first, width) ==
    [table |-> table, index |-> index, first |-> first, width |-> width]

(* Two stages of two and of five splits (Dpisf_2s_46b). *)
Splits46b == {
    Split("dico1_isf", 1, 0, 9), Split("dico2_isf", 2, 9, 7), Split("dico21_isf", 3, 0, 3), Split("dico22_isf", 4, 3, 3),
    Split("dico23_isf", 5, 6, 3), Split("dico24_isf", 6, 9, 3), Split("dico25_isf", 7, 12, 4)}

(* ... and of two and of three (Dpisf_2s_36b). *)
Splits36b == {
    Split("dico1_isf", 1, 0, 9), Split("dico2_isf", 2, 9, 7), Split("dico21_isf_36b", 3, 0, 5),
    Split("dico22_isf_36b", 4, 5, 4), Split("dico23_isf_36b", 5, 9, 7)}

(* Comfort noise: one stage of five splits (Disf_ns). *)
SplitsNoise == {
    Split("dico1_isf_noise", 1, 0, 2), Split("dico2_isf_noise", 2, 2, 3), Split("dico3_isf_noise", 3, 5, 3),
    Split("dico4_isf_noise", 4, 8, 4), Split("dico5_isf_noise", 5, 12, 4)}

(* Vectors of the tables (SIZE_BK...). *)
Vectors(table) ==
    CASE table \in {"dico1_isf", "dico2_isf"} -> 256
      [] table \in {"dico22_isf", "dico23_isf", "dico21_isf_36b", "dico22_isf_36b"} -> 128
      [] table \in {"dico21_isf", "dico23_isf_36b", "dico1_isf_noise", "dico2_isf_noise", "dico3_isf_noise"} -> 64
      [] table \in {"dico24_isf", "dico25_isf", "dico4_isf_noise", "dico5_isf_noise"} -> 32

(* In the lowest mode one parameter of 14 bits holds two indices. *)
IndexBits(splits) ==
    IF splits = Splits36b THEN LET w == IsfWidths(0) IN <<w[1], w[2], w[3] - 7, 7, w[4]>>
    ELSE IF splits = SplitsNoise THEN SubSeq(SidWidths, 1, 5)
    ELSE IsfWidths(1)

-----------------------------------------------------------------------------
(* All but the last ISF are in order, and min_dist apart. *)
Reorder_isf(isf, min_dist) ==
    LET moved[i \in Isfs] ==
            LET isf_min == IF i = 1 THEN min_dist ELSE Sat16(moved[i - 1] + min_dist)
            IN  IF i < Order /\ isf[i] < isf_min THEN isf_min ELSE isf[i]
    IN  [i \in Isfs |-> moved[i]]

(* The ISFs of a good frame: a third of the last residual is predicted.    *)
(* Only Dpisf_2s_36b saturates; no entries of the tables add up to so much. *)
DecodedIsf(d, residual) ==
    [i \in Isfs |-> Sat16(Sat16(residual[i] + mean_isf[i]) + Times(MU, d.past_isfq[i]))]

(* The buffer keeps them as they were before they are put in order. *)
GoodIsf(d, residual) ==
    [isf_q |-> Reorder_isf(DecodedIsf(d, residual), ISF_GAP), isfold |-> d.isf_q, past_isfq |-> residual,
     isf_buf |-> <<DecodedIsf(d, residual)>> \o SubSeq(d.isf_buf, 1, L_MEANBUF - 1)]

(* What a lost spectrum tends to: the mean of the last good ones and of    *)
(* all speech.                                                             *)
ref_isf(d) ==
    [i \in Isfs |->
        (16384 * (mean_isf[i] + d.isf_buf[1][i] + d.isf_buf[2][i] + d.isf_buf[3][i]) + 32768) \div 65536]

(* A lost frame: "use the past ISFs slightly shifted towards their mean",  *)
(* and half of what the residual would have been.                          *)
LostIsf(d) ==
    LET ref == ref_isf(d)
        isf == [i \in Isfs |-> Sat16(Times(ALPHA, d.isf_q[i]) + Times(ONE_ALPHA, ref[i]))]
    IN  [d EXCEPT !.isf_q = Reorder_isf(isf, ISF_GAP), !.isfold = d.isf_q,
                  !.past_isfq = [i \in Isfs |-> Sat16(isf[i] - Sat16(ref[i] + Times(d.past_isfq[i], MU))) \div 2]]

(* A frame of comfort noise: its spectrum is the old one of the next, and  *)
(* the prediction is reset (pvDecoder_AmrWb_Reset).                        *)
NoiseIsf(d, isf) ==
    [d EXCEPT !.isf_q = isf, !.isfold = d.isf_q, !.past_isfq = [i \in Isfs |-> 0]]

InitialIsf ==
    [isf_q |-> isf_init, isfold |-> isf_init, past_isfq |-> [i \in Isfs |-> 0],
     isf_buf |-> [k \in 1..L_MEANBUF |-> isf_init]]

(* The scale of the noise enhancer: the more the spectrum stays the same,  *)
(* the greater; its square is cut at 1/8 of the range by a saturating      *)
(* shift.                                                                  *)
stab_fac(d) ==
    LET square(i) == LET change == Sat16(d.isf_q[i] - d.isfold[i]) IN change * change
        sum[i \in 0..(Order - 1)] ==
            IF i = 0 THEN 0 ELSE LET more == sum[i - 1] + square(i) IN IF more > 4194304 THEN 4194304 ELSE more
        \* shl_int32(L_tmp, 8), where the sum is doubled
        high == IF sum[Order - 1] = 4194304 THEN 32767 ELSE sum[Order - 1] \div 128
        tmp == Sat16(2 * (20480 - Times(high, 26214)))
    IN  IF tmp < 0 THEN 0 ELSE tmp

-----------------------------------------------------------------------------
(* Cosines. *)

cosines == <<
    32767, 32758, 32729, 32679, 32610, 32522, 32413, 32286, 32138, 31972, 31786, 31581, 31357, 31114, 30853, 30572, 30274,
    29957, 29622, 29269, 28899, 28511, 28106, 27684, 27246, 26791, 26320, 25833, 25330, 24812, 24279, 23732, 23170,
    22595, 22006, 21403, 20788, 20160, 19520, 18868, 18205, 17531, 16846, 16151, 15447, 14733, 14010, 13279, 12540,
    11793, 11039, 10279, 9512, 8740, 7962, 7180, 6393, 5602, 4808, 4011, 3212, 2411, 1608, 804>>

(* Entry ind of the table, which is that of a cosine but for its end. *)
table(ind) ==
    IF ind < 64 THEN cosines[ind + 1]
    ELSE IF ind = 64 THEN 0
    ELSE IF ind < 128 THEN -cosines[129 - ind]
    ELSE -32768

(* From frequencies to cosines.  The last ISF is half of its angle. *)
Isf_isp(isf, m) ==
    [i \in 1..m |->
        LET angle == IF i = m THEN Sat16(2 * isf[i]) ELSE isf[i]
            ind == angle \div 128  offset == angle % 128
        IN  table(ind) + ((table(ind + 1) - table(ind)) * offset) \div 128]

interpol_frac == <<14746, 26214, 31457, 32767>>

(* Between two vectors; the sum of the weights is one (interpolate_isp). *)
Interpolate(old, new, fac_old, fac_new) ==
    [i \in DOMAIN old |-> (2 * old[i] * fac_old + 2 * new[i] * fac_new + 32768) \div 65536]

(* The ISPs of the four subframes. *)
interpolate_isp(old, new) ==
    [k \in 1..4 |-> IF k = 4 THEN new ELSE Interpolate(old, new, 32768 - interpol_frac[k], interpol_frac[k])]

-----------------------------------------------------------------------------
SpectrumInit ==
    /\ receiver = InitialIsf /\ twin = InitialIsf
    /\ intact = L_MEANBUF + 1
    /\ spectrumAge = 0

OneMoreFrame == spectrumAge < MaxFrames /\ spectrumAge' = spectrumAge + 1

ReceiveIsfs ==
    /\ OneMoreFrame
    /\ \E residual \in Residuals :
          receiver' = GoodIsf(receiver, residual) /\ twin' = GoodIsf(twin, residual)
    /\ intact' = IF intact > L_MEANBUF THEN intact ELSE intact + 1

LoseIsfs ==
    /\ OneMoreFrame
    /\ \E residual \in Residuals : twin' = GoodIsf(twin, residual)
    /\ receiver' = LostIsf(receiver)
    /\ intact' = 0

(* Comfort noise, whose spectrum may differ after a loss. *)
ComfortIsfs ==
    /\ OneMoreFrame
    /\ \E mine, its \in NoiseIsfs :
          /\ intact > L_MEANBUF => mine = its
          /\ receiver' = NoiseIsf(receiver, mine) /\ twin' = NoiseIsf(twin, its)
    /\ UNCHANGED intact

SpectrumNext == ReceiveIsfs \/ LoseIsfs \/ ComfortIsfs

SpectrumSpec == SpectrumInit /\ [][SpectrumNext]_spectrumVars

-----------------------------------------------------------------------------
(* Properties. *)

IsfVectors == [Isfs -> Int16s]

SpectrumTypeOK ==
    /\ \A d \in {receiver, twin} :
          /\ {d.isf_q, d.isfold, d.past_isfq} \subseteq IsfVectors
          /\ Len(d.isf_buf) = L_MEANBUF /\ \A k \in 1..L_MEANBUF : d.isf_buf[k] \in IsfVectors
          /\ stab_fac(d) \in 0..32767
    /\ intact \in 0..(L_MEANBUF + 1) /\ spectrumAge \in 0..MaxFrames

(* The indices that a frame has bits for are those of the tables, and each *)
(* ISF has one entry of each stage.                                        *)
IndicesFillTables ==
    \A splits \in {Splits46b, Splits36b, SplitsNoise} :
        /\ \A s \in splits : 2^IndexBits(splits)[s.index] = Vectors(s.table)
        /\ \A i \in 0..15 :
              Cardinality({s \in splits : i \in s.first..(s.first + s.width - 1)}) = IF splits = SplitsNoise THEN 1 ELSE 2

(* "To make sure that the isfs are properly order and to keep a certain    *)
(* minimum distance": so their cosines, and those of all subframes between *)
(* two frames, decrease strictly, which keeps the filters stable.          *)
Apart(isf) == isf[1] >= ISF_GAP /\ \A i \in 2..(Order - 1) : isf[i] - isf[i - 1] >= ISF_GAP
Decreasing(isp) == \A i \in 1..(Order - 2) : isp[i] > isp[i + 1]

SpectrumStaysOrdered ==
    LET new == Isf_isp(receiver.isf_q, Order)  old == Isf_isp(receiver.isfold, Order)
    IN  /\ Apart(receiver.isf_q)
        /\ \A k \in 1..4 : Decreasing(interpolate_isp(old, new)[k])

(* What a loss leaves in the predictor disturbs one good frame, and what   *)
(* that one leaves in the mean is gone three frames later: from then on,   *)
(* comfort noise in between or not, the next loss is concealed as if there *)
(* had been none before.                                                   *)
SpectrumRecovers ==
    /\ intact >= 1 => receiver.past_isfq = twin.past_isfq
    /\ intact >= 2 => receiver.isf_buf[1] = twin.isf_buf[1]
    /\ intact > L_MEANBUF => receiver.isf_buf = twin.isf_buf
=============================================================================
