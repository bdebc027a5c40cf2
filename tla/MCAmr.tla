------------------------------- MODULE MCAmr -------------------------------
(***************************************************************************)
(* The parts of the AMR-WB decoder, checked one at a time in one run: the  *)
(* initial state chooses the subject, and the variables of the others stay *)
(* as they are.  The two whose variables are large have small ones when    *)
(* they are not the subject, and what is said of them is said of their     *)
(* subject.                                                                *)
(***************************************************************************)
EXTENDS AmrDecoder, AmrFrame, AmrPitch, AmrGains, AmrCodebook, AmrSynthesis, AmrArithmetic, AmrFilter

CONSTANT
    Subjects    \* which parts are checked

VARIABLE
    subject

amrVars ==
    <<subject, decoderVars, frameVars, pitchVars, gainVars, codebookVars, synthesisVars, arithmeticVars, mathVars,
      spectrumVars, filterVars>>

-----------------------------------------------------------------------------
(* Bounds. *)

Frame(t, good) == [type |-> t, good |-> good]

(* No frame, each type of frame, pairs of which either may be lost, and    *)
(* four frames.                                                            *)
MCBodies ==
    {<< >>} \cup {<<Frame(t, TRUE)>> : t \in 0..15}
      \cup {<<Frame(a, g), Frame(b, h)>> : a \in {0, 1, 8, 9, 12}, b \in {0, 2, 8, 9, 14, 15}, g \in BOOLEAN, h \in BOOLEAN}
      \cup {<<Frame(8, TRUE), Frame(a, TRUE), Frame(8, TRUE), Frame(8, TRUE)>> : a \in {8, 15}}

MCNoises == {-32768, 32767}

MCEntries == {[pit |-> 3000, code |-> 4000, energy |-> 4096], [pit |-> 16000, code |-> 900, energy |-> 0]}

MCFractions == {0, 1, 2, 3, 5, 99, 4096, 12345, 16383, 16384, 30000, 32766, 32767}

(* Powers of two, the numbers before them and those between them. *)
MCNumbers == UNION {{2^k - 1, 2^k, 2^k + 2^k \div 3} : k \in 0..30} \cup {123456789, 2147483647}

(* Four ISFs, their residuals small, large and out of order. *)
MCMean == <<738, 1326, 2336, 4037>>
MCInit == <<1024, 2048, 3072, 3840>>
MCResiduals == {<<0, 0, 0, 0>>, <<-900, 2000, -1500, 700>>, <<1500, -3000, -500, -2000>>}
MCNoiseIsfs == {<<500, 1000, 9000, 3000>>, <<800, 1000, 1128, 3000>>}

(* All vectors of four cosines -1/2, 0 and 1/2, and falling ones. *)
Falling(m, p, q) == [i \in 1..m |-> IF i <= p THEN 1 ELSE IF i <= q THEN 0 ELSE -1]
MCIsps == [1..4 -> {-1, 0, 1}] \cup {Falling(m, p, q) : m \in {16, 20}, p \in 4..8, q \in 10..12}

(* Means, equal distances, four and three formants, and one close to the top. *)
MCSpectra ==
    {<<738, 1326, 2336, 3578, 4596, 5662, 6711, 7730, 8750, 9753, 10705, 11728, 12833, 13971, 15043, 4037>>,
     <<1024, 2048, 3072, 4096, 5120, 6144, 7168, 8192, 9216, 10240, 11264, 12288, 13312, 14336, 15360, 3840>>,
     <<128, 256, 384, 1500, 1700, 4000, 4128, 4256, 8000, 8128, 9000, 12000, 12128, 12300, 13000, 100>>,
     <<300, 2600, 2728, 2856, 5500, 5628, 5756, 8400, 8528, 8656, 11300, 11428, 11556, 14200, 14328, 7000>>,
     <<1000, 2000, 3000, 9000, 10500, 10900, 11100, 11800, 12000, 12700, 13900, 14000, 15000, 15200, 16000, 4037>>}

MCSeeds == {-32768, 21845}

-----------------------------------------------------------------------------
AmrInit ==
    /\ subject \in Subjects
    /\ DecoderInit /\ (subject # "decoder" => bits = Nothing)
    /\ IF subject = "codebook" THEN CodebookInit
       ELSE codeMode = 0 /\ track = 0 /\ index = 0 /\ pulses = << >> /\ code = << >>
    /\ IF subject = "synthesis" THEN SynthesisInit
       ELSE /\ block = "start" /\ rate = "lowest" /\ speech = TRUE /\ fresh = TRUE /\ scratch = << >> /\ synth16k = << >>
            /\ mem_syn_hi = << >> /\ mem_syn_lo = << >> /\ mem_deemph = << >> /\ mem_sig_out = << >> /\ mem_oversamp = << >>
            /\ mem_hp400 = << >> /\ mem_syn_hf = << >> /\ mem_hf = << >> /\ mem_hf3 = << >>
    /\ FrameInit /\ PitchInit /\ GainsInit
    /\ ArithmeticInit /\ MathInit /\ SpectrumInit /\ FilterInit

Keep(s, vars) == IF subject = s THEN TRUE ELSE UNCHANGED vars

AmrNext ==
    /\ \/ subject = "decoder" /\ Decode
       \/ subject = "frame" /\ FrameNext
       \/ subject = "pitch" /\ PitchNext
       \/ subject = "gains" /\ GainsNext
       \/ subject = "codebook" /\ CodebookNext
       \/ subject = "synthesis" /\ SynthesisNext
       \/ subject = "arithmetic" /\ ArithmeticNext
       \/ subject = "math" /\ MathNext
       \/ subject = "spectrum" /\ SpectrumNext
       \/ subject = "filter" /\ FilterNext
    /\ UNCHANGED subject
    /\ Keep("decoder", decoderVars) /\ Keep("frame", frameVars) /\ Keep("pitch", pitchVars)
    /\ Keep("gains", gainVars) /\ Keep("codebook", codebookVars) /\ Keep("synthesis", synthesisVars)
    /\ Keep("arithmetic", arithmeticVars) /\ Keep("math", mathVars)
    /\ Keep("spectrum", spectrumVars) /\ Keep("filter", filterVars)

AmrSpec == AmrInit /\ [][AmrNext]_amrVars

-----------------------------------------------------------------------------
(* Properties: those of the parts, which are explained there. *)

(* Every part keeps to its types. *)
AmrTypeOK ==
    /\ subject = "decoder" => DecoderTypeOK
    /\ subject = "frame" => FrameTypeOK
    /\ subject = "pitch" => PitchTypeOK
    /\ subject = "gains" => GainsTypeOK
    /\ subject = "codebook" => CodebookTypeOK
    /\ subject = "synthesis" => SynthesisTypeOK
    /\ subject = "arithmetic" => ArithmeticTypeOK
    /\ subject = "spectrum" => SpectrumTypeOK

(* What the coder sent is read whole, from the frame to the indices of the *)
(* pulses: mime_unsorting, Serial_parm, the codebooks.                     *)
ParametersAreWhole ==
    /\ subject = "frame" => ParametersFillTheFrame /\ BitsInPlace
    /\ subject = "codebook" => IndicesAreWhole /\ EveryVectorHasAnIndex
    /\ subject = "spectrum" /\ spectrumAge = 0 => IndicesFillTables

(* What replaces lost gains, lags and spectra rests on what was received   *)
(* after each step, and the predictions and the loudness recover:          *)
(* dec_gain2_amr_wb, phase_dispersion, lagconceal, qpisf_2s.               *)
ConcealmentIsFounded ==
    [][/\ subject = "gains" => PredictionRecovers' /\ DispersionRemembers' /\ RecoveryIsLimited
       /\ subject = "pitch" /\ lag_hist' # lag_hist => HistorySorted'
       /\ subject = "spectrum" => SpectrumRecovers' /\ (ReceiveIsfs \/ LoseIsfs => Apart(receiver'.isf_q))]_amrVars

(* synthesis_amr_wb across subframes. *)
SynthesisIsContinuous == subject = "synthesis" => SynthesisIsSeamless /\ HighBandPast

(* The operations on words of 16 and of 32 bits. *)
NumbersHold == subject = "arithmetic" => OperationsSaturate /\ ShiftsSaturate /\ HalvesMultiply

(* The functions made of them: logarithms, powers and roots, and those     *)
(* from the ISFs that are received to the filters of both bands.           *)
FunctionsHold ==
    /\ subject = "math" => NumbersAreClose
    /\ subject = "spectrum" => SpectrumStaysOrdered
    /\ subject = "filter" => PolynomialsAreProducts /\ HighBandStaysOrdered /\ NoiseStaysBetween
=============================================================================
