----------------------------- MODULE AmrDecoder -----------------------------
(***************************************************************************)
(* What the AMR-WB decoder keeps from one frame to the next, and what each *)
(* kind of frame does to it: homing, speech, concealment of lost frames,   *)
(* discontinuous transmission (DTX) with comfort noise, and muting.        *)
(*                                                                         *)
(* One action is one call of D_IF_decode.  Signals and parameters are left *)
(* out; a memory of a filter or a generator is "dirty" when a frame may    *)
(* have changed it since it was last reset.                                *)
(***************************************************************************)
EXTENDS Naturals

CONSTANTS
    Modes,        \* speech modes
    FirstMode,    \* mode 0, 6.6 kbit/s
    LastMode,     \* mode 8, 23.85 kbit/s
    MaxEmpty,     \* DTX_MAX_EMPTY_THRESH
    Elapsed,      \* DTX_ELAPSED_FRAMES_THRESH
    Hang,         \* DTX_HANG_CONST
    MaxCount      \* the largest int16

ASSUME DecoderAssumption ==
    /\ FirstMode \in Modes /\ LastMode \in Modes
    /\ {"sid", "lost", "none"} \cap Modes = {}
    /\ MaxEmpty \in Nat /\ Elapsed \in Nat /\ Hang \in Nat /\ MaxCount \in Nat
    /\ MaxEmpty < MaxCount /\ Elapsed < MaxCount

VARIABLES
    homed,     \* reset_flag_old
    mode,      \* mode_old and rx_state.prev_mode
    bits,      \* which parts of iInputSampleBuf are those of a homing frame
    st,        \* Decoder_State
    quiet,     \* history: noise frames since the last data for them
    goodRun,   \* history: good speech frames since the last of another kind
    lossRun    \* history: lost speech frames since the last of another kind

decoderVars == <<homed, mode, bits, st, quiet, goodRun, lossRun>>

(* The first SID_BITS, the rest of the first subframe, and what follows.   *)
Bits   == [head : BOOLEAN, first : BOOLEAN, rest : BOOLEAN]
Nothing == [head |-> FALSE, first |-> FALSE, rest |-> FALSE]
Losses  == {"lost", "no_data"}
Kinds   == {"speech", "sid_first", "sid_update"} \cup Losses

(* The frames of a stream: type in the header, or "none" where the quality *)
(* bit is not set; STI bit of a SID frame; bits; VAD bit of speech.        *)
Frames ==
    [type : Modes, sti : {FALSE}, bits : Bits, vad : BOOLEAN]
      \cup [type : {"sid"}, sti : BOOLEAN, bits : [head : BOOLEAN, first : {FALSE}, rest : {FALSE}], vad : {FALSE}]
      \cup [type : {"lost", "none"}, sti : {FALSE}, bits : {Nothing}, vad : {FALSE}]

(* What pvDecoder_AmrWb_Reset clears in any case ... *)
SpeechMems ==
    {"old_exc", "past_isfq", "old_T0", "first_frame", "L_gc_thres", "tilt_code", "disp_mem", "Q_old", "Qsubfr"}

(* ... and what synthesis_amr_wb writes for every subframe. *)
SynthesisMems ==
    {"mem_syn_hi", "mem_syn_lo", "mem_deemph", "mem_sig_out", "mem_oversamp", "seed2", "mem_hp400", "mem_syn_hf", "mem_hf"}

Memories ==
    SpeechMems \cup SynthesisMems
      \cup {"mem_hf3", "dec_gain", "lag_hist", "ispold", "isfold", "isf_buf", "seed", "seed3", "dtx_hist", "dtx_noise"}

Lesser(a, b) == IF a < b THEN a ELSE b

(* add_int16(count, 1) *)
Count(n) == Lesser(n + 1, MaxCount)

InitialDtx ==
    [state |-> "speech", since |-> 0, elapsed |-> MaxCount, hang |-> Hang, added |-> FALSE, sid |-> FALSE, valid |-> FALSE, updated |-> FALSE]

InitialState ==
    [dtx |-> InitialDtx, bad |-> 0, prevBfi |-> FALSE, vadHist |-> 0, dirty |-> {}]

DtxStates ==
    [state : {"speech", "dtx", "mute"}, since : 0..MaxEmpty, elapsed : 0..MaxCount, hang : 0..Hang, added : BOOLEAN, sid : BOOLEAN, valid : BOOLEAN, updated : BOOLEAN]

States == [dtx : DtxStates, bad : 0..6, prevBfi : BOOLEAN, vadHist : 0..MaxCount, dirty : SUBSET Memories]

DecoderTypeOK ==
    /\ homed \in BOOLEAN
    /\ mode \in Modes
    /\ bits \in Bits
    /\ st \in States
    /\ quiet \in 0..(MaxEmpty + 1)
    /\ goodRun \in 0..4
    /\ lossRun \in 0..6

(* D_IF_init; iInputSampleBuf is not initialised. *)
DecoderInit ==
    /\ homed = TRUE /\ mode = FirstMode /\ bits \in Bits
    /\ st = InitialState
    /\ quiet = 0 /\ goodRun = 0 /\ lossRun = 0

-----------------------------------------------------------------------------
(* The frame that was received. *)

(* mime_unsorting: what kind of frame it is, ... *)
KindOf(f) ==
    CASE f.type \in Modes -> "speech"
      [] f.type = "sid"   -> IF f.sti THEN "sid_update" ELSE "sid_first"
      [] f.type = "lost"  -> "lost"
      [] OTHER            -> "no_data"

(* ... its mode, which a SID or lost frame takes from the one before, ...  *)
ModeOf(f) == IF f.type \in Modes THEN f.type ELSE mode

(* ... and its bits in iInputSampleBuf: a lost frame leaves the old ones.  *)
Unpacked(f) ==
    CASE f.type \in Modes -> f.bits
      [] f.type = "sid"   -> [bits EXCEPT !.head = f.bits.head]
      [] OTHER            -> bits

(* dhf_test compares the whole frame; of a homed decoder, only the first   *)
(* subframe, but in the highest mode all the same.                         *)
Homing(b) == b.head /\ b.first /\ b.rest

HomingFirst(b, m) == b.head /\ b.first /\ (m = LastMode => b.rest)

(* reset_flag. *)
ResetFlag(f) ==
    IF homed THEN KindOf(f) \notin Losses /\ HomingFirst(Unpacked(f), ModeOf(f)) ELSE Homing(Unpacked(f))

-----------------------------------------------------------------------------
(* Discontinuous transmission. *)

(* rx_amr_wb_dtx_handler: the new state of the synthesis ... *)
IsNoise(d, kind) ==
    \/ kind \in {"sid_first", "sid_update"}
    \/ d.state # "speech" /\ kind \in Losses

NewState(d, kind) ==
    IF ~IsNoise(d, kind) THEN "speech"
    ELSE IF (d.state = "mute" /\ kind # "sid_update") \/ d.since + 1 > MaxEmpty THEN "mute"
    ELSE "dtx"

AnalysisAge(d, kind) == Count(IF ~d.updated /\ kind = "sid_update" THEN 0 ELSE d.elapsed)

(* ... and what it leaves for the synthesis: has the encoder added a       *)
(* hangover, is there a SID frame, and does it bring data?                 *)
Handler(d, kind) ==
    LET noise == IsNoise(d, kind)
        age   == AnalysisAge(d, kind)
        pause == kind \in {"sid_first", "sid_update", "no_data"}
        added == pause /\ age > Elapsed
    IN  [d EXCEPT
           !.since   = IF noise THEN d.since + 1 ELSE 0,
           !.elapsed = IF pause /\ (added \/ d.hang = 0) THEN 0 ELSE age,
           !.hang    = IF ~pause THEN Hang ELSE IF added \/ d.hang = 0 THEN 0 ELSE d.hang - 1,
           !.added   = added,
           !.sid     = IF noise THEN kind \in {"sid_first", "sid_update"} ELSE d.sid,
           !.valid   = IF noise THEN kind = "sid_update" ELSE d.valid]

(* New data for the comfort noise: an update, or what was decoded during a *)
(* hangover.                                                               *)
HasData(d) == d.sid /\ (d.valid \/ d.added)

(* Mutant: the age of the data is reset by updates while muted only. *)
NoiseKeepsAge(d, state) ==
    [d EXCEPT !.since   = IF state = "mute" THEN 0 ELSE d.since,
              !.updated = d.updated \/ HasData(d),
              !.state   = state]

(* dtx_dec_amr_wb, and the end of a frame of comfort noise. *)
Noise(d, state) ==
    [d EXCEPT !.since   = IF state = "mute" \/ HasData(d) THEN 0 ELSE d.since,
              !.updated = d.updated \/ HasData(d),
              !.state   = state]

-----------------------------------------------------------------------------
(* pvDecoder_AmrWb. *)

(* Mutant: halving is rounded up. *)
BadFrameStateUp(s, bfi) ==
    IF s.dtx.state # "speech" THEN 5
    ELSE IF bfi THEN Lesser(s.bad + 1, 6) ELSE (s.bad + 1) \div 2

(* The state of concealment; the first speech after comfort noise starts   *)
(* from 5.                                                                 *)
BadFrameState(s, bfi) ==
    IF s.dtx.state # "speech" THEN 5
    ELSE IF bfi THEN Lesser(s.bad + 1, 6) ELSE s.bad \div 2

(* The 23.85 kbit/s mode has one more filter. *)
WrittenBySynthesis(m) == SynthesisMems \cup IF m = LastMode THEN {"mem_hf3"} ELSE {}

WrittenBySpeech(m, bfi) ==
    SpeechMems \cup WrittenBySynthesis(m) \cup {"dec_gain", "ispold", "isfold", "dtx_hist"}
      \cup IF bfi THEN {"seed", "seed3"} ELSE {"lag_hist", "isf_buf"}

WrittenByNoise(m) == WrittenBySynthesis(m) \cup {"isfold", "dtx_noise", "dtx_hist"}

SpeechState(f) ==
    LET bfi == KindOf(f) \in Losses IN
    [dtx     |-> [Handler(st.dtx, KindOf(f)) EXCEPT !.state = "speech"],
     bad     |-> BadFrameState(st, bfi),
     prevBfi |-> bfi,
     vadHist |-> IF bfi THEN st.vadHist ELSE IF f.vad THEN 0 ELSE Count(st.vadHist),
     dirty   |-> st.dirty \cup WrittenBySpeech(ModeOf(f), bfi)]

(* Comfort noise ends with pvDecoder_AmrWb_Reset(st, 0). *)
NoiseState(f) ==
    LET kind == KindOf(f)
        bfi  == kind \in Losses
    IN  [st EXCEPT !.dtx     = Noise(Handler(@, kind), NewState(@, kind)),
                   !.bad     = BadFrameState(st, bfi),
                   !.prevBfi = bfi,
                   !.dirty   = (@ \cup WrittenByNoise(ModeOf(f))) \ SpeechMems]

-----------------------------------------------------------------------------
(* D_IF_decode. *)

(* Mutant: a homing frame does not end the discontinuous transmission. *)
FinishHalfReset(flag, s) ==
    /\ homed' = flag
    /\ st' = IF flag THEN [InitialState EXCEPT !.dtx = s.dtx] ELSE s

(* pvDecoder_AmrWb_Reset(st, 1) after a homing frame. *)
Finish(flag, s) ==
    /\ homed' = flag
    /\ st' = IF flag THEN InitialState ELSE s

Forget == quiet' = 0 /\ goodRun' = 0 /\ lossRun' = 0

(* Another homing frame: it is answered by one and not decoded. *)
RepeatHoming(f) ==
    /\ homed /\ ResetFlag(f)
    /\ bits' = Unpacked(f) /\ mode' = ModeOf(f)
    /\ Finish(TRUE, st)
    /\ Forget

DecodeSpeech(f) ==
    /\ ~(homed /\ ResetFlag(f))
    /\ ~IsNoise(st.dtx, KindOf(f))
    /\ bits' = Unpacked(f) /\ mode' = ModeOf(f)
    /\ Finish(ResetFlag(f), SpeechState(f))
    /\ IF ResetFlag(f) THEN Forget
       ELSE /\ quiet' = 0
            /\ goodRun' = IF KindOf(f) \in Losses THEN 0 ELSE Lesser(goodRun + 1, 4)
            /\ lossRun' = IF KindOf(f) \in Losses THEN Lesser(lossRun + 1, 6) ELSE 0

DecodeNoise(f) ==
    /\ ~(homed /\ ResetFlag(f))
    /\ IsNoise(st.dtx, KindOf(f))
    /\ bits' = Unpacked(f) /\ mode' = ModeOf(f)
    /\ Finish(ResetFlag(f), NoiseState(f))
    /\ IF ResetFlag(f) THEN Forget
       ELSE /\ quiet' = IF HasData(Handler(st.dtx, KindOf(f))) THEN 0 ELSE Lesser(quiet + 1, MaxEmpty + 1)
            /\ goodRun' = 0 /\ lossRun' = 0

Decode == \E f \in Frames : RepeatHoming(f) \/ DecodeSpeech(f) \/ DecodeNoise(f)

DecoderSpec == DecoderInit /\ [][Decode]_decoderVars

-----------------------------------------------------------------------------
(* Properties. *)

(* "Reset decoder if current frame is a homing frame": after one, whatever *)
(* was decoded before, nothing distinguishes the decoder from a new one;   *)
(* the answer to the next homing frame relies on it.                       *)
HomedIsInitial == homed => st = InitialState

(* Speech that follows comfort noise does not predict from speech decoded  *)
(* before it: "reset speech coder memories".                               *)
CleanSpeechStart == st.dtx.state # "speech" => st.dirty \cap SpeechMems = {}

ResetsAreComplete == HomedIsInitial /\ CleanSpeechStart

(* "Mute comfort noise as it has been quite a long time since last SID     *)
(* update was performed": never before MaxEmpty frames without data.       *)
MutedAfterSilence ==
    [][st.dtx.state # "mute" /\ st'.dtx.state = "mute" => quiet >= MaxEmpty]_decoderVars

(* Concealment follows the losses: after four good speech frames nothing   *)
(* is concealed any more, and after six lost ones everything is.           *)
ConcealmentFollowsLosses ==
    /\ goodRun = 4 => st.bad = 0
    /\ lossRun = 6 => st.bad = 6
=============================================================================
