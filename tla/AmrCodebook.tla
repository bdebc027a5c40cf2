----------------------------- MODULE AmrCodebook -----------------------------
(***************************************************************************)
(* The algebraic codebook: from the indices of a subframe to the signed    *)
(* pulses of its code vector (dec_acelp_4p_in_64, dec_acelp_2p_in_64 and   *)
(* the decoders of dec_alg_codebook).                                      *)
(*                                                                         *)
(* One action is one track of one subframe.  The decoders have a parameter *)
(* N, the bits of a position; the program uses them with N = 4.            *)
(***************************************************************************)
EXTENDS AmrTables, FiniteSets

CONSTANTS
    Words,        \* numbers whose lowest bits are received as an index
    SmallTrack    \* the N for which all vectors of a track are compared

ASSUME CodebookAssumption == Words \subseteq Nat /\ SmallTrack \in 3..4

VARIABLES
    codeMode,     \* mode of the frame
    track,        \* tracks that are decoded
    index,        \* index of the last one, its parts put together
    pulses,       \* pos: its pulses, with NB_POS for a negative one
    code          \* code vector, in units of 512

codebookVars == <<codeMode, track, index, pulses, code>>

NB_TRACK == 4
NB_POS   == 16
L_CODE   == 64

Bit(word, k) == (word \div 2^k) % 2
BitsFrom(word, k, n) == (word \div 2^k) % 2^n

-----------------------------------------------------------------------------
(* The pulses of a track: N + 1 bits for one, fewer for each of several.   *)

dec_1p_N1(word, N, offset) == <<BitsFrom(word, 0, N) + offset + NB_POS * Bit(word, N)>>

(* The order of the positions tells whether the signs are the same. *)
dec_2p_2N1(word, N, offset) ==
    LET pos1 == BitsFrom(word, N, N) + offset
        pos2 == BitsFrom(word, 0, N) + offset
        sign == Bit(word, 2 * N)
    IN  <<pos1 + NB_POS * sign, pos2 + NB_POS * (IF pos2 < pos1 THEN 1 - sign ELSE sign)>>

(* Two pulses in one half of the track, and one anywhere. *)
dec_3p_3N1(word, N, offset) ==
    dec_2p_2N1(BitsFrom(word, 0, 2 * N - 1), N - 1, offset + 2^(N - 1) * Bit(word, 2 * N - 1))
      \o dec_1p_N1(BitsFrom(word, 2 * N, N + 1), N, offset)

dec_4p_4N1(word, N, offset) ==
    dec_2p_2N1(BitsFrom(word, 0, 2 * N - 1), N - 1, offset + 2^(N - 1) * Bit(word, 2 * N - 1))
      \o dec_2p_2N1(BitsFrom(word, 2 * N, 2 * N + 1), N, offset)

(* The two highest bits say how many pulses are in the lower half. *)
dec_4p_4N(word, N, offset) ==
    LET n_1   == N - 1
        upper == offset + 2^n_1
        lower == BitsFrom(word, 4 * N - 2, 2)
    IN  IF lower = 0 THEN dec_4p_4N1(word, n_1, IF Bit(word, 4 * n_1 + 1) = 1 THEN upper ELSE offset)
        ELSE IF lower = 1 THEN dec_1p_N1(word \div 2^(3 * n_1 + 1), n_1, offset) \o dec_3p_3N1(word, n_1, upper)
        ELSE IF lower = 2 THEN dec_2p_2N1(word \div 2^(2 * n_1 + 1), n_1, offset) \o dec_2p_2N1(word, n_1, upper)
        ELSE dec_3p_3N1(word \div 2^(n_1 + 1), n_1, offset) \o dec_1p_N1(word, n_1, upper)

(* Three pulses in one half, and two anywhere. *)
dec_5p_5N(word, N, offset) ==
    dec_3p_3N1(word \div 2^(2 * N + 1), N - 1, offset + 2^(N - 1) * Bit(word, 5 * N - 1))
      \o dec_2p_2N1(word, N, offset)

(* The half A has more pulses than the half B, or both have three. *)
dec_6p_6N_2(word, N, offset) ==
    LET n_1     == N - 1
        upper   == offset + 2^n_1
        offsetA == IF Bit(word, 6 * N - 5) = 0 THEN offset ELSE upper
        offsetB == IF Bit(word, 6 * N - 5) = 0 THEN upper ELSE offset
        split   == BitsFrom(word, 6 * N - 4, 2)
    IN  IF split <= 1
        THEN dec_5p_5N(word \div 2^N, n_1, offsetA) \o dec_1p_N1(word, n_1, IF split = 0 THEN offsetA ELSE offsetB)
        ELSE IF split = 2
        THEN dec_4p_4N(word \div 2^(2 * n_1 + 1), n_1, offsetA) \o dec_2p_2N1(word, n_1, offsetB)
        ELSE dec_3p_3N1(word \div 2^(3 * n_1 + 1), n_1, offset) \o dec_3p_3N1(word, n_1, upper)

TrackDecoder(n, word, N) ==
    CASE n = 1 -> dec_1p_N1(word, N, 0)
      [] n = 2 -> dec_2p_2N1(word, N, 0)
      [] n = 3 -> dec_3p_3N1(word, N, 0)
      [] n = 4 -> dec_4p_4N(word, N, 0)
      [] n = 5 -> dec_5p_5N(word, N, 0)
      [] n = 6 -> dec_6p_6N_2(word, N, 0)

(* Bits of an index for so many pulses, as the comments of the decoders say. *)
ReceivedIndexBits(n, N) == <<N + 1, 2 * N + 1, 3 * N + 1, 4 * N, 5 * N, 6 * N - 2>>[n]

-----------------------------------------------------------------------------
(* dec_acelp_4p_in_64, by the mode that nbbits stands for: how many pulses *)
(* a track has, and by how much the first part of its index is shifted,    *)
(* if there are two.                                                       *)

PulsesOf(mode, t) ==
    <<<<1, 1, 1, 1>>, <<2, 2, 2, 2>>, <<3, 3, 2, 2>>, <<3, 3, 3, 3>>, <<4, 4, 4, 4>>, <<5, 5, 4, 4>>,
      <<6, 6, 6, 6>>, <<6, 6, 6, 6>>>>[mode][t + 1]

ShiftOf(mode, t) ==
    IF mode <= 4 THEN 0 ELSE IF mode >= 7 THEN 11 ELSE IF mode = 6 /\ t < 2 THEN 10 ELSE 14

(* The pulses at a position, the negative ones counted as such. *)
Sum(pos, p) == Cardinality({k \in DOMAIN pos : pos[k] = p}) - Cardinality({k \in DOMAIN pos : pos[k] = p + NB_POS})

(* add_pulses: positions on the track are four samples apart. *)
add_pulses(pos, t, vector) ==
    [i \in 0..(L_CODE - 1) |-> IF i % NB_TRACK = t THEN vector[i] + Sum(pos, i \div NB_TRACK) ELSE vector[i]]

(* dec_acelp_2p_in_64: two tracks of 32 positions, a pulse on each. *)
TwoPulses(word) ==
    [i \in 0..(L_CODE - 1) |->
        IF i = 2 * BitsFrom(word, 6, 5) THEN 1 - 2 * Bit(word, 11)
        ELSE IF i = 2 * BitsFrom(word, 0, 5) + 1 THEN 1 - 2 * Bit(word, 5)
        ELSE 0]

-----------------------------------------------------------------------------
CodebookInit ==
    /\ codeMode \in 0..8
    /\ track = 0 /\ index = 0 /\ pulses = << >>
    /\ code = [i \in 0..(L_CODE - 1) |-> 0]

(* The lowest mode has one index. *)
DecodeTwoPulses ==
    /\ codeMode = 0 /\ track = 0
    /\ \E w \in Words : index' = w % 2^12
    /\ code' = TwoPulses(index')
    /\ track' = NB_TRACK
    /\ UNCHANGED <<codeMode, pulses>>

DecodeTrack ==
    /\ codeMode > 0 /\ track < NB_TRACK
    /\ \E w \in Words : index' = w % 2^ReceivedIndexBits(PulsesOf(codeMode, track), 4)
    /\ pulses' = TrackDecoder(PulsesOf(codeMode, track), index', 4)
    /\ code' = add_pulses(pulses', track, code)
    /\ track' = track + 1
    /\ UNCHANGED codeMode

CodebookNext == DecodeTwoPulses \/ DecodeTrack

CodebookSpec == CodebookInit /\ [][CodebookNext]_codebookVars

-----------------------------------------------------------------------------
(* Properties. *)

(* Pulses of a track and a sign: half of a track never reaches into the    *)
(* sign of a pulse.                                                        *)
CodebookTypeOK ==
    /\ codeMode \in 0..8 /\ track \in 0..NB_TRACK
    /\ \A k \in DOMAIN pulses : pulses[k] \in 0..(2 * NB_POS - 1)
    /\ \A i \in 0..(L_CODE - 1) : code[i] \in -6..6

(* The indices that the frame has for a track are read to their last bit,  *)
(* and the two parts of one do not overlap.                                *)
IndicesAreWhole ==
    codeMode > 0 /\ track < NB_TRACK =>
        LET widths == CodeWidths(codeMode)
            first  == widths[track + 1]
            second == IF Len(widths) = 8 THEN widths[track + 5] ELSE 0
        IN  /\ ShiftOf(codeMode, track) = second
            /\ first + second = ReceivedIndexBits(PulsesOf(codeMode, track), 4)

VectorOf(pos, N) == [p \in 0..(2^N - 1) |-> Sum(pos, p)]

Decodable(n, N) ==
    {VectorOf(TrackDecoder(n, word, N), N) : word \in 0..(2^ReceivedIndexBits(n, N) - 1)}

(* The vectors of so many pulses, those at one position with one sign. *)
WithPulse(vectors, N) ==
    {[v EXCEPT ![p] = IF v[p] > 0 \/ (v[p] = 0 /\ up) THEN @ + 1 ELSE @ - 1] :
        v \in vectors, p \in 0..(2^N - 1), up \in BOOLEAN}

VectorsOf(n, N) ==
    FoldLeft(LAMBDA vectors, k : WithPulse(vectors, N), {[i \in 0..(2^N - 1) |-> 0]}, [k \in 1..n |-> k])

(* No code vector is lost in the sharing of bits: whatever pulses a coder  *)
(* may choose on a track, some index yields them.  Of two pulses, every    *)
(* index yields different ones.                                            *)
EveryVectorHasAnIndex ==
    codeMode \in 1..7 /\ track = 0 =>
        LET n == PulsesOf(codeMode, 0) IN
        /\ VectorsOf(n, SmallTrack) \subseteq Decodable(n, SmallTrack)
        /\ n <= 2 => Decodable(n, SmallTrack) = VectorsOf(n, SmallTrack)
=============================================================================
