---------------------------- MODULE AmrSynthesis ----------------------------
(***************************************************************************)
(* synthesis_amr_wb: from the excitation of a subframe to 80 samples of    *)
(* output.  Every block of it keeps the past that its filter needs in a    *)
(* memory of its own, and all of them share the array ScratchMem.          *)
(*                                                                         *)
(* Values of samples are left out.  A cell says which signal it belongs    *)
(* to, at which index of its subframe, and how many subframes ago; a       *)
(* filter that reads another cell than it should makes its output Wrong.   *)
(*                                                                         *)
(* One action is one block of a subframe.                                  *)
(***************************************************************************)
EXTENDS Integers

VARIABLES
    block,          \* the block that comes next
    rate,           \* "lowest" (6.6), "middle" or "highest" (23.85), by nb_bits
    speech,         \* newDTXState = SPEECH
    fresh,          \* no subframe since the last reset
    scratch,        \* ScratchMem
    synth16k,       \* the output
    mem_syn_hi, mem_syn_lo, mem_deemph, mem_sig_out, mem_oversamp, mem_hp400, mem_syn_hf, mem_hf, mem_hf3

memories == <<mem_syn_hi, mem_syn_lo, mem_deemph, mem_sig_out, mem_oversamp, mem_hp400, mem_syn_hf, mem_hf, mem_hf3>>
synthesisVars == <<block, rate, speech, fresh, scratch, synth16k, memories>>

M          == 16    \* order of the synthesis filter
M16k       == 20    \* ... and of the one of the high band, at the lowest rate
L_SYN      == 64    \* samples of a subframe (L_SUBFR)
L_SUBFR16k == 80    \* ... at 16 kHz
L_FIR      == 30    \* past of the band-pass and of the low-pass
L_UP       == 24    \* past of the oversampling (2 * NB_COEF_UP)

(* Where synthesis_amr_wb has its vectors in ScratchMem, and where those   *)
(* of its caller start.                                                    *)
synth_hi    == 0
synth_lo    == M + L_SYN
synth       == synth_lo + M + L_SYN
HF          == synth + L_SYN
Ap          == HF + L_SUBFR16k
ScratchMem2 == L_SYN + L_SUBFR16k + 2 * (L_SYN + M + M16k + 1)

HfA == Ap + M16k + 1

-----------------------------------------------------------------------------
(* Cells. *)

Low == {"hi", "lo", "deemphasis", "hp50", "hp400"}
Length(signal) == IF signal \in Low THEN L_SYN ELSE L_SUBFR16k

Cell(signal, n, age) == [signal |-> signal, n |-> n, age |-> age]
Zero  == Cell("zero", 0, 0)
Wrong == Cell("wrong", 0, 0)

(* The sample n of the subframe; below zero, of the one before. *)
Sample(signal, n) ==
    IF n >= 0 THEN Cell(signal, n, 0)
    ELSE IF fresh THEN Zero
    ELSE Cell(signal, n + Length(signal), 1)

(* The same sample of a subframe before that. *)
Earlier(cell, signal, n) ==
    cell = Zero \/ (cell.signal = signal /\ cell.n = (n + Length(signal)) % Length(signal) /\ cell.age >= 1)

(* Vectors are functions from 0. *)
At(from, len) == [i \in 0..(len - 1) |-> scratch[from + i]]
Put(array, from, v) ==
    [i \in DOMAIN array \cup {from + k : k \in DOMAIN v} |-> IF i - from \in DOMAIN v THEN v[i - from] ELSE array[i]]
Part(v, from, len) == [i \in 0..(len - 1) |-> v[from + i]]

(* A subframe later. *)
Aged(v) == [i \in DOMAIN v |->
    IF v[i].signal \in {"zero", "wrong"} THEN v[i] ELSE [v[i] EXCEPT !.age = IF @ = 3 THEN 3 ELSE @ + 1]]

-----------------------------------------------------------------------------
(* The filters, as what their output consists of. *)

(* Syn_filt_32: output n is made of the m outputs before it and input n.   *)
Recursive(signal, past, m, len) ==
    [n \in 0..(len - 1) |->
        IF \A k \in 0..(m - 1) : n + k >= m \/ past[n + k] = Sample(signal, n + k - m)
        THEN Cell(signal, n, 0) ELSE Wrong]

Syn_filt_32(signal, past) == Recursive(signal, past, M, L_SYN)

(* deemphasis_32 *)
deemphasis_32(hi, lo, mem) ==
    [n \in 0..(L_SYN - 1) |->
        IF hi[n] = Sample("hi", n) /\ lo[n] = Sample("lo", n) /\ mem[0] = Sample("deemphasis", -1)
        THEN Cell("deemphasis", n, 0) ELSE Wrong]

(* highpass_50Hz_at_12k8, highpass_400Hz_at_12k8: two inputs and two       *)
(* outputs before, in the order y[-2], y[-1], x[-1], x[-2].                *)
highpass(input, output, signal, mem) ==
    [n \in 0..(L_SYN - 1) |->
        IF /\ signal[n] = Sample(input, n)
           /\ mem = [i \in 0..3 |-> IF i = 0 THEN Sample(output, -2) ELSE IF i = 1 THEN Sample(output, -1)
                                    ELSE IF i = 2 THEN Sample(input, -1) ELSE Sample(input, -2)]
        THEN Cell(output, n, 0) ELSE Wrong]

highpassMemory(signal, filtered) ==
    [i \in 0..3 |-> IF i = 0 THEN filtered[L_SYN - 2] ELSE IF i = 1 THEN filtered[L_SYN - 1]
                    ELSE IF i = 2 THEN signal[L_SYN - 1] ELSE signal[L_SYN - 2]]

(* AmrWbUp_samp: four fifths of the position, as fixed-point numbers. *)
UpPosition(j) == (j * 6554) \div 8192

(* The filter for the position between two samples: FAC5 - 1 - frac. *)
UpPhase(j) == IF j % 5 = 0 THEN 0 ELSE (j % 5) - 1

(* AmrWbInterpol: 24 samples around the position, 12 samples late. *)
AmrWbUp_samp(signal) ==
    [j \in 0..(L_SUBFR16k - 1) |->
        LET i == UpPosition(j)
            fifths == IF j % 5 = 0 THEN 0 ELSE 4 - UpPhase(j)
        IN  IF /\ 5 * i + fifths = 4 * j
               /\ \A k \in 1..L_UP : signal[i + k] = Sample("hp50", i + k - L_UP)
            THEN Cell("up", j, 0) ELSE Wrong]

(* wb_syn_filt, with the past of an order m at the start of its buffer.  At *)
(* the order of the lowest rate its earliest samples may be older.         *)
wb_syn_filt(signal, past, m) ==
    [n \in 0..(L_SUBFR16k - 1) |->
        IF /\ signal[n] = Sample("noise", n)
           /\ \A k \in 0..(m - 1) :
                 \/ n + k >= m
                 \/ past[n + k] = Sample("hf", n + k - m)
                 \/ m = M16k /\ n + k < M16k - M /\ Earlier(past[n + k], "hf", n + k - m)
        THEN Cell("hf", n, 0) ELSE Wrong]

(* band_pass_6k_7k: the sum over an input and the 30 before it. *)
band_pass_6k_7k(x) ==
    [n \in 0..(L_SUBFR16k - 1) |->
        IF \A k \in 0..L_FIR : x[n + k] = Sample("hf", n + k - L_FIR) THEN Cell("band", n, 0) ELSE Wrong]

(* low_pass_filt_7k: the same, but its past may be that of an earlier      *)
(* subframe at the highest rate.                                           *)
low_pass_filt_7k(x) ==
    [n \in 0..(L_SUBFR16k - 1) |->
        IF \A k \in 0..L_FIR :
              \/ x[n + k] = Sample("band", n + k - L_FIR)
              \/ n + k < L_FIR /\ Earlier(x[n + k], "band", n + k - L_FIR)
        THEN Cell("low", n, 0) ELSE Wrong]

-----------------------------------------------------------------------------
Zeros(len) == [i \in 0..(len - 1) |-> Zero]

SynthesisInit ==
    /\ block = "start" /\ rate = "lowest" /\ speech = TRUE /\ fresh = TRUE
    /\ scratch = Zeros(ScratchMem2) /\ synth16k = Zeros(L_SUBFR16k)
    /\ mem_syn_hi = Zeros(M) /\ mem_syn_lo = Zeros(M) /\ mem_deemph = Zeros(1) /\ mem_sig_out = Zeros(4)
    /\ mem_oversamp = Zeros(L_UP) /\ mem_hp400 = Zeros(4)
    /\ mem_syn_hf = Zeros(M16k) /\ mem_hf = Zeros(L_FIR) /\ mem_hf3 = Zeros(L_FIR)

(* pvDecoder_AmrWb_Reset(st, 1) *)
ResetMemories ==
    /\ block = "start"
    /\ fresh' = TRUE
    /\ mem_syn_hi' = Zeros(M) /\ mem_syn_lo' = Zeros(M) /\ mem_deemph' = Zeros(1) /\ mem_sig_out' = Zeros(4)
    /\ mem_oversamp' = Zeros(L_UP) /\ mem_hp400' = Zeros(4)
    /\ mem_syn_hf' = Zeros(M16k) /\ mem_hf' = Zeros(L_FIR) /\ mem_hf3' = Zeros(L_FIR)
    /\ UNCHANGED <<block, rate, speech, scratch, synth16k>>

ClearedPast == Put(mem_syn_hf, 0, Zeros(M16k - M))

(* The decoder calls synthesis_amr_wb; in speech above the lowest rate it  *)
(* clears the past that only the lowest one has.  What ScratchMem held is  *)
(* of no use.                                                              *)
StartSubframe ==
    /\ block = "start"
    /\ rate' \in {"lowest", "middle", "highest"}
    /\ speech' \in BOOLEAN
    /\ mem_syn_hf' = IF speech' /\ rate' # "lowest" THEN ClearedPast ELSE mem_syn_hf
    /\ scratch' = [i \in 0..(ScratchMem2 - 1) |-> Wrong]
    /\ block' = "synthesis"
    /\ UNCHANGED <<fresh, synth16k, mem_syn_hi, mem_syn_lo, mem_deemph, mem_sig_out, mem_oversamp, mem_hp400,
                   mem_hf, mem_hf3>>

Synthesise ==
    /\ block = "synthesis" /\ block' = "deemphasis"
    /\ LET hi == Put(mem_syn_hi, M, Syn_filt_32("hi", mem_syn_hi))
           lo == Put(mem_syn_lo, M, Syn_filt_32("lo", mem_syn_lo))
       IN  /\ scratch' = Put(Put(scratch, synth_hi, hi), synth_lo, lo)
           /\ mem_syn_hi' = Part(hi, L_SYN, M) /\ mem_syn_lo' = Part(lo, L_SYN, M)
    /\ UNCHANGED <<rate, speech, fresh, synth16k, mem_deemph, mem_sig_out, mem_oversamp, mem_hp400, mem_syn_hf,
                   mem_hf, mem_hf3>>

Deemphasise ==
    /\ block = "deemphasis" /\ block' = "highpass50"
    /\ LET y == deemphasis_32(At(synth_hi + M, L_SYN), At(synth_lo + M, L_SYN), mem_deemph)
       IN  scratch' = Put(scratch, synth, y) /\ mem_deemph' = Part(y, L_SYN - 1, 1)
    /\ UNCHANGED <<rate, speech, fresh, synth16k, mem_syn_hi, mem_syn_lo, mem_sig_out, mem_oversamp, mem_hp400,
                   mem_syn_hf, mem_hf, mem_hf3>>

HighPass50 ==
    /\ block = "highpass50" /\ block' = "oversample"
    /\ LET x == At(synth, L_SYN)
           y == highpass("deemphasis", "hp50", x, mem_sig_out)
       IN  scratch' = Put(scratch, synth, y) /\ mem_sig_out' = highpassMemory(x, y)
    /\ UNCHANGED <<rate, speech, fresh, synth16k, mem_syn_hi, mem_syn_lo, mem_deemph, mem_oversamp, mem_hp400,
                   mem_syn_hf, mem_hf, mem_hf3>>

(* Mutant: the memory is taken as if it were at 16 kHz. *)
UpMemoryFrom16k(signal) == Part(signal, L_UP + L_SYN - L_UP - 1, L_UP)

UpMemory(signal) == Part(signal, L_SYN, L_UP)

(* oversamp_12k8_to_16k: from here on the start of ScratchMem is reused. *)
Oversample ==
    /\ block = "oversample" /\ block' = "noise"
    /\ LET signal == Put(mem_oversamp, L_UP, At(synth, L_SYN))
       IN  /\ scratch' = Put(scratch, 0, signal)
           /\ synth16k' = AmrWbUp_samp(signal)
           /\ mem_oversamp' = UpMemory(signal)
    /\ UNCHANGED <<rate, speech, fresh, mem_syn_hi, mem_syn_lo, mem_deemph, mem_sig_out, mem_hp400, mem_syn_hf,
                   mem_hf, mem_hf3>>

(* White noise with the energy of the excitation. *)
MakeNoise ==
    /\ block = "noise" /\ block' = "highpass400"
    /\ scratch' = Put(scratch, HF, [n \in 0..(L_SUBFR16k - 1) |-> Cell("white", n, 0)])
    /\ UNCHANGED <<rate, speech, fresh, synth16k, memories>>

(* The tilt of the speech sets the gain of the noise. *)
HighPass400 ==
    /\ block = "highpass400" /\ block' = "coefficients"
    /\ LET x == At(synth, L_SYN)
           y == highpass("hp50", "hp400", x, mem_hp400)
           white == At(HF, L_SUBFR16k)
           noise == [n \in DOMAIN white |->
               IF (\A k \in DOMAIN y : y[k] = Cell("hp400", k, 0)) /\ white[n] = Cell("white", n, 0)
               THEN Cell("noise", n, 0) ELSE Wrong]
       IN  /\ scratch' = Put(Put(scratch, synth, y), HF, noise)
           /\ mem_hp400' = highpassMemory(x, y)
    /\ UNCHANGED <<rate, speech, fresh, synth16k, mem_syn_hi, mem_syn_lo, mem_deemph, mem_sig_out, mem_oversamp,
                   mem_syn_hf, mem_hf, mem_hf3>>

FilterOrder == IF rate = "lowest" /\ speech THEN M16k ELSE M

Coefficients(name, m) == [i \in 0..m |-> Cell(name, i, 0)]

(* isf_extrapolation, Isp_Az and weight_amrwb_lpc *)
HighBandCoefficients ==
    /\ block = "coefficients" /\ block' = "highband"
    /\ LET given == IF FilterOrder = M16k THEN Put(scratch, HfA, Coefficients("a", M16k)) ELSE scratch
       IN  scratch' = Put(given, Ap, Coefficients("weighted", FilterOrder))
    /\ UNCHANGED <<rate, speech, fresh, synth16k, memories>>

HighBandFilter ==
    /\ block = "highband" /\ block' = "bandpass"
    /\ LET past == Part(mem_syn_hf, M16k - FilterOrder, FilterOrder)
           y    == wb_syn_filt(At(HF, L_SUBFR16k), past, FilterOrder)
           mine == IF At(Ap, FilterOrder + 1) = Coefficients("weighted", FilterOrder) THEN y ELSE [n \in DOMAIN y |-> Wrong]
       IN  /\ scratch' = Put(Put(scratch, 0, Put(past, FilterOrder, mine)), HF, mine)
           /\ mem_syn_hf' = Put(mem_syn_hf, M16k - FilterOrder, Part(mine, L_SUBFR16k - FilterOrder, FilterOrder))
    /\ UNCHANGED <<rate, speech, fresh, synth16k, mem_syn_hi, mem_syn_lo, mem_deemph, mem_sig_out, mem_oversamp,
                   mem_hp400, mem_hf, mem_hf3>>

BandPass ==
    /\ block = "bandpass" /\ block' = IF rate = "highest" THEN "lowpass" ELSE "add"
    /\ LET x == Put(mem_hf, L_FIR, At(HF, L_SUBFR16k))
       IN  /\ scratch' = Put(Put(scratch, 0, x), HF, band_pass_6k_7k(x))
           /\ mem_hf' = Part(x, L_SUBFR16k, L_FIR)
    /\ UNCHANGED <<rate, speech, fresh, synth16k, mem_syn_hi, mem_syn_lo, mem_deemph, mem_sig_out, mem_oversamp,
                   mem_hp400, mem_syn_hf, mem_hf3>>

LowPass ==
    /\ block = "lowpass" /\ block' = "add"
    /\ LET x == Put(mem_hf3, L_FIR, At(HF, L_SUBFR16k))
       IN  /\ scratch' = Put(Put(scratch, 0, x), HF, low_pass_filt_7k(x))
           /\ mem_hf3' = Part(x, L_SUBFR16k, L_FIR)
    /\ UNCHANGED <<rate, speech, fresh, synth16k, mem_syn_hi, mem_syn_lo, mem_deemph, mem_sig_out, mem_oversamp,
                   mem_hp400, mem_syn_hf, mem_hf>>

AddHighBand ==
    /\ block = "add" /\ block' = "end"
    /\ synth16k' = [n \in 0..(L_SUBFR16k - 1) |->
          IF synth16k[n] = Cell("up", n, 0) /\ scratch[HF + n] = Cell(IF rate = "highest" THEN "low" ELSE "band", n, 0)
          THEN Cell("output", n, 0) ELSE Wrong]
    /\ UNCHANGED <<rate, speech, fresh, scratch, memories>>

(* The subframe becomes the past. *)
EndSubframe ==
    /\ block = "end" /\ block' = "start"
    /\ fresh' = FALSE
    /\ scratch' = Zeros(ScratchMem2) /\ synth16k' = Zeros(L_SUBFR16k)
    /\ mem_syn_hi' = Aged(mem_syn_hi) /\ mem_syn_lo' = Aged(mem_syn_lo) /\ mem_deemph' = Aged(mem_deemph)
    /\ mem_sig_out' = Aged(mem_sig_out) /\ mem_oversamp' = Aged(mem_oversamp) /\ mem_hp400' = Aged(mem_hp400)
    /\ mem_syn_hf' = Aged(mem_syn_hf) /\ mem_hf' = Aged(mem_hf) /\ mem_hf3' = Aged(mem_hf3)
    /\ UNCHANGED <<rate, speech>>

SynthesisNext ==
    \/ ResetMemories \/ StartSubframe \/ Synthesise \/ Deemphasise \/ HighPass50 \/ Oversample \/ MakeNoise
    \/ HighPass400 \/ HighBandCoefficients \/ HighBandFilter \/ BandPass \/ LowPass \/ AddHighBand \/ EndSubframe

SynthesisSpec == SynthesisInit /\ [][SynthesisNext]_synthesisVars

-----------------------------------------------------------------------------
(* Properties. *)

(* The vectors lie within ScratchMem: the last one ends where those of     *)
(* pvDecoder_AmrWb start.                                                  *)
SynthesisTypeOK ==
    /\ DOMAIN scratch = 0..(ScratchMem2 - 1) /\ DOMAIN synth16k = 0..(L_SUBFR16k - 1)
    /\ DOMAIN mem_syn_hf = 0..(M16k - 1) /\ DOMAIN mem_hf3 = 0..(L_FIR - 1) /\ DOMAIN mem_oversamp = 0..(L_UP - 1)
    /\ rate \in {"lowest", "middle", "highest"} /\ speech \in BOOLEAN /\ fresh \in BOOLEAN

(* Every sample is made of the samples before it, across subframes and     *)
(* changes of rate, and no block destroys in ScratchMem what a later one   *)
(* reads.                                                                  *)
SynthesisIsSeamless ==
    block = "end" => \A n \in DOMAIN synth16k : synth16k[n] = Cell("output", n, 0)

(* The two memories that not every subframe uses: after speech above the   *)
(* lowest rate the four samples that only the lowest one has are zero, and *)
(* after speech at the lowest rate they are its last ones; the past of the *)
(* low-pass is the last one after a subframe at the highest rate.          *)
HighBandPast ==
    block = "start" /\ ~fresh =>
        /\ \A i \in (M16k - M)..(M16k - 1) : mem_syn_hf[i] = Sample("hf", i - M16k)
        /\ speech /\ rate # "lowest" => \A i \in 0..(M16k - M - 1) : mem_syn_hf[i] = Zero
        /\ speech /\ rate = "lowest" => \A i \in 0..(M16k - M - 1) : mem_syn_hf[i] = Sample("hf", i - M16k)
        /\ rate = "highest" => \A i \in 0..(L_FIR - 1) : mem_hf3[i] = Sample("band", i - L_FIR)
=============================================================================
