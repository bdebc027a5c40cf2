-------------------------- MODULE AmrDecoderProofs --------------------------
(***************************************************************************)
(* Proofs about AmrDecoder: its types, that resets are complete, that      *)
(* comfort noise is muted only after silence, and that concealment follows *)
(* the losses; about AmrFrame: that the two passes over a body agree and   *)
(* that all of it is transcribed, for bodies of any length; and about      *)
(* AmrSynthesis: that the filters join across subframes and changes of     *)
(* rate, and that no block destroys what a later one reads.                *)
(***************************************************************************)
EXTENDS AmrDecoder, AmrFrame, AmrSynthesis, TLAPS, WellFoundedInduction

(* The kind of a frame is one of five. *)
LEMMA KindOfType ==
    ASSUME NEW f \in Frames
    PROVE  KindOf(f) \in Kinds
BY DecoderAssumption DEF Frames, KindOf, Kinds, Losses, DecoderAssumption

(* The mode and the bits after a frame. *)
LEMMA FrameTypes ==
    ASSUME NEW f \in Frames, mode \in Modes, bits \in Bits
    PROVE  ModeOf(f) \in Modes /\ Unpacked(f) \in Bits
<1>1. ModeOf(f) \in Modes
  BY DEF ModeOf
<1>2. Unpacked(f) \in Bits
  <2>1. CASE f.type \in Modes
    <3>1. f.bits \in Bits
      BY <2>1, DecoderAssumption DEF Frames, DecoderAssumption
    <3> QED
      <4>1. f.type # "sid"
        BY <2>1, DecoderAssumption DEF DecoderAssumption
      <4>2. Unpacked(f) = f.bits
        BY <2>1, <4>1 DEF Unpacked
      <4> QED
        BY <3>1, <4>2
  <2>2. CASE f.type = "sid"
    <3>1. f.bits.head \in BOOLEAN
      BY <2>2, DecoderAssumption DEF Frames, DecoderAssumption
    <3>2. Unpacked(f) = [bits EXCEPT !.head = f.bits.head]
      BY <2>2, DecoderAssumption DEF Unpacked, DecoderAssumption
    <3> QED
      BY <3>1, <3>2 DEF Bits
  <2>3. CASE f.type \notin Modes /\ f.type # "sid"
    BY <2>3 DEF Unpacked
  <2> QED
    BY <2>1, <2>2, <2>3
<1> QED
  BY <1>1, <1>2

(* The handler keeps the types of what the discontinuous transmission      *)
(* remembers, but that one more frame of noise may exceed the threshold.   *)
LEMMA HandlerTypes ==
    ASSUME NEW d \in DtxStates, NEW kind \in Kinds
    PROVE  LET h == Handler(d, kind) IN
           /\ h.state \in {"speech", "dtx", "mute"}
           /\ h.since = (IF IsNoise(d, kind) THEN d.since + 1 ELSE 0)
           /\ h.elapsed \in 0..MaxCount /\ h.hang \in 0..Hang
           /\ h.added \in BOOLEAN /\ h.sid \in BOOLEAN /\ h.valid \in BOOLEAN /\ h.updated = d.updated
           /\ h = [state |-> h.state, since |-> h.since, elapsed |-> h.elapsed, hang |-> h.hang,
                   added |-> h.added, sid |-> h.sid, valid |-> h.valid, updated |-> h.updated]
<1> DEFINE h == Handler(d, kind)
           pause == kind \in {"sid_first", "sid_update", "no_data"}
           age == AnalysisAge(d, kind)
           more == pause /\ age > Elapsed
<1>1. /\ MaxEmpty \in Nat /\ Elapsed \in Nat /\ Hang \in Nat /\ MaxCount \in Nat
  BY DecoderAssumption DEF DecoderAssumption
<1>2. /\ d.state \in {"speech", "dtx", "mute"} /\ d.since \in 0..MaxEmpty /\ d.elapsed \in 0..MaxCount
      /\ d.hang \in 0..Hang /\ d.added \in BOOLEAN /\ d.sid \in BOOLEAN /\ d.valid \in BOOLEAN /\ d.updated \in BOOLEAN
  BY DEF DtxStates
<1>3. age \in 0..MaxCount
  BY <1>1, <1>2 DEF AnalysisAge, Count, Lesser
<1>4. h = [d EXCEPT
             !.since   = IF IsNoise(d, kind) THEN d.since + 1 ELSE 0,
             !.elapsed = IF pause /\ (more \/ d.hang = 0) THEN 0 ELSE age,
             !.hang    = IF ~pause THEN Hang ELSE IF more \/ d.hang = 0 THEN 0 ELSE d.hang - 1,
             !.added   = more,
             !.sid     = IF IsNoise(d, kind) THEN kind \in {"sid_first", "sid_update"} ELSE d.sid,
             !.valid   = IF IsNoise(d, kind) THEN kind = "sid_update" ELSE d.valid]
  BY DEF Handler
<1>5. h = [state |-> d.state,
           since |-> IF IsNoise(d, kind) THEN d.since + 1 ELSE 0,
           elapsed |-> IF pause /\ (more \/ d.hang = 0) THEN 0 ELSE age,
           hang |-> IF ~pause THEN Hang ELSE IF more \/ d.hang = 0 THEN 0 ELSE d.hang - 1,
           added |-> more,
           sid |-> IF IsNoise(d, kind) THEN kind \in {"sid_first", "sid_update"} ELSE d.sid,
           valid |-> IF IsNoise(d, kind) THEN kind = "sid_update" ELSE d.valid,
           updated |-> d.updated]
  BY <1>4 DEF DtxStates
<1>6. more \in BOOLEAN /\ IsNoise(d, kind) \in BOOLEAN /\ pause \in BOOLEAN
  BY DEF IsNoise
<1>7. h.elapsed \in 0..MaxCount /\ h.hang \in 0..Hang
  BY <1>1, <1>2, <1>3, <1>5
<1>8. h.added \in BOOLEAN
  BY <1>5
<1>9. h.sid \in BOOLEAN /\ h.valid \in BOOLEAN
  <2>1. CASE IsNoise(d, kind)
    <3>1. h.sid = (kind \in {"sid_first", "sid_update"}) /\ h.valid = (kind = "sid_update")
      BY <2>1, <1>5
    <3> QED
      BY <3>1
  <2>2. CASE ~IsNoise(d, kind)
    <3>1. h.sid = d.sid /\ h.valid = d.valid
      BY <2>2, <1>5
    <3> QED
      BY <3>1, <1>2
  <2> QED
    BY <2>1, <2>2
<1>10. h.state = d.state /\ h.since = (IF IsNoise(d, kind) THEN d.since + 1 ELSE 0) /\ h.updated = d.updated
  BY <1>5
<1>11. h = [state |-> h.state, since |-> h.since, elapsed |-> h.elapsed, hang |-> h.hang,
            added |-> h.added, sid |-> h.sid, valid |-> h.valid, updated |-> h.updated]
  BY <1>5
<1> QED
  BY <1>2, <1>7, <1>8, <1>9, <1>10, <1>11, Zenon
LEMMA InitialTypes == InitialState \in States
<1>1. InitialDtx \in DtxStates
  BY DecoderAssumption DEF InitialDtx, DtxStates, DecoderAssumption
<1>2. /\ 0 \in 0..6 /\ FALSE \in BOOLEAN /\ {} \in SUBSET Memories /\ 0 \in 0..MaxCount
  BY DecoderAssumption DEF DecoderAssumption
<1> QED
  BY <1>1, <1>2 DEF InitialState, States

(* The parts of a state. *)
LEMMA StateParts ==
    ASSUME DecoderTypeOK
    PROVE  /\ st.dtx \in DtxStates /\ st.bad \in 0..6 /\ st.prevBfi \in BOOLEAN
           /\ st.vadHist \in 0..MaxCount /\ st.dirty \in SUBSET Memories
           /\ st = [dtx |-> st.dtx, bad |-> st.bad, prevBfi |-> st.prevBfi, vadHist |-> st.vadHist, dirty |-> st.dirty]
BY DEF DecoderTypeOK, States

(* The state of concealment stays within its bounds. *)
LEMMA BadTypes ==
    ASSUME DecoderTypeOK, NEW bfi
    PROVE  BadFrameState(st, bfi) \in 0..6
BY StateParts DEF BadFrameState, Lesser

LEMMA SpeechTypes ==
    ASSUME DecoderTypeOK, NEW f \in Frames, ~IsNoise(st.dtx, KindOf(f))
    PROVE  SpeechState(f) \in States
<1> DEFINE kind == KindOf(f)
           bfi == kind \in Losses
           h == Handler(st.dtx, kind)
<1>1. kind \in Kinds
  BY KindOfType
<1>2. st.dtx \in DtxStates /\ st.vadHist \in 0..MaxCount /\ st.dirty \in SUBSET Memories
  BY StateParts
<1>3. [h EXCEPT !.state = "speech"] \in DtxStates
  <2>1. /\ h.since = 0 /\ h.elapsed \in 0..MaxCount /\ h.hang \in 0..Hang
        /\ h.added \in BOOLEAN /\ h.sid \in BOOLEAN /\ h.valid \in BOOLEAN /\ h.updated = st.dtx.updated
        /\ h = [state |-> h.state, since |-> h.since, elapsed |-> h.elapsed, hang |-> h.hang,
                added |-> h.added, sid |-> h.sid, valid |-> h.valid, updated |-> h.updated]
    BY <1>1, <1>2, HandlerTypes
  <2>2. st.dtx.updated \in BOOLEAN
    BY <1>2 DEF DtxStates
  <2>3. 0 \in 0..MaxEmpty
    BY DecoderAssumption DEF DecoderAssumption
  <2> HIDE DEF h
  <2> QED
    BY <2>1, <2>2, <2>3 DEF DtxStates
<1>4. BadFrameState(st, bfi) \in 0..6
  BY BadTypes
<1>5. (IF bfi THEN st.vadHist ELSE IF f.vad THEN 0 ELSE Count(st.vadHist)) \in 0..MaxCount
  BY <1>2, DecoderAssumption DEF Count, Lesser, DecoderAssumption
<1>6. st.dirty \cup WrittenBySpeech(ModeOf(f), bfi) \in SUBSET Memories
  BY <1>2 DEF WrittenBySpeech, WrittenBySynthesis, SynthesisMems, SpeechMems, Memories
<1>7. bfi \in BOOLEAN
  OBVIOUS
<1>8. SpeechState(f) =
        [dtx |-> [h EXCEPT !.state = "speech"], bad |-> BadFrameState(st, bfi), prevBfi |-> bfi,
         vadHist |-> IF bfi THEN st.vadHist ELSE IF f.vad THEN 0 ELSE Count(st.vadHist),
         dirty |-> st.dirty \cup WrittenBySpeech(ModeOf(f), bfi)]
  BY DEF SpeechState
<1> HIDE DEF kind, bfi, h
<1> QED
  BY <1>3, <1>4, <1>5, <1>6, <1>7, <1>8 DEF States

(* What a frame of noise leaves of the discontinuous transmission. *)
LEMMA NoiseDtx ==
    ASSUME DecoderTypeOK, NEW kind \in Kinds, IsNoise(st.dtx, kind)
    PROVE  LET d == Noise(Handler(st.dtx, kind), NewState(st.dtx, kind)) IN
           /\ d \in DtxStates
           /\ d.state = NewState(st.dtx, kind) /\ d.state \in {"dtx", "mute"}
           /\ d.since \in {0, st.dtx.since + 1}
           /\ HasData(Handler(st.dtx, kind)) => d.since = 0
<1> DEFINE h == Handler(st.dtx, kind)
           state == NewState(st.dtx, kind)
           d == Noise(h, state)
<1>1. st.dtx \in DtxStates
  BY StateParts
<1>2. /\ h.since = st.dtx.since + 1 /\ h.elapsed \in 0..MaxCount /\ h.hang \in 0..Hang
      /\ h.added \in BOOLEAN /\ h.sid \in BOOLEAN /\ h.valid \in BOOLEAN /\ h.updated = st.dtx.updated
      /\ h = [state |-> h.state, since |-> h.since, elapsed |-> h.elapsed, hang |-> h.hang,
              added |-> h.added, sid |-> h.sid, valid |-> h.valid, updated |-> h.updated]
  BY <1>1, HandlerTypes
<1>3. st.dtx.updated \in BOOLEAN /\ st.dtx.since \in Nat
  BY <1>1, DecoderAssumption DEF DtxStates, DecoderAssumption
<1>4. state \in {"dtx", "mute"} /\ (state = "dtx" => st.dtx.since + 1 <= MaxEmpty)
  BY <1>3, DecoderAssumption DEF NewState, DecoderAssumption
<1>5. HasData(h) \in BOOLEAN
  BY <1>2 DEF HasData
<1> DEFINE updated == h.updated \/ HasData(h)
           since == IF state = "mute" \/ HasData(h) THEN 0 ELSE h.since
<1>6. updated \in BOOLEAN
  OBVIOUS
<1>7. d = [h EXCEPT !.since = since, !.updated = updated, !.state = state]
  BY DEF Noise
<1>8. since \in 0..MaxEmpty /\ since \in {0, st.dtx.since + 1} /\ (HasData(h) => since = 0)
  BY <1>2, <1>3, <1>4, <1>5, DecoderAssumption DEF DecoderAssumption
<1> HIDE DEF h, state, updated, since
<1>9. d = [state |-> state, since |-> since, elapsed |-> h.elapsed, hang |-> h.hang, added |-> h.added,
           sid |-> h.sid, valid |-> h.valid, updated |-> updated]
  BY <1>2, <1>7
<1> HIDE DEF d
<1>10. d \in DtxStates /\ d.state = state /\ d.since = since
  BY <1>2, <1>4, <1>6, <1>8, <1>9 DEF DtxStates
<1> QED
  BY <1>4, <1>8, <1>10 DEF d, h, state, updated, since

LEMMA NoiseTypes ==
    ASSUME DecoderTypeOK, NEW f \in Frames, IsNoise(st.dtx, KindOf(f))
    PROVE  /\ NoiseState(f) \in States
           /\ NoiseState(f).dtx = Noise(Handler(st.dtx, KindOf(f)), NewState(st.dtx, KindOf(f)))
           /\ NoiseState(f).bad = BadFrameState(st, KindOf(f) \in Losses)
           /\ NoiseState(f).dirty \cap SpeechMems = {}
<1> DEFINE kind == KindOf(f)
           bfi == kind \in Losses
           d == Noise(Handler(st.dtx, kind), NewState(st.dtx, kind))
           dirty == (st.dirty \cup WrittenByNoise(ModeOf(f))) \ SpeechMems
<1>1. kind \in Kinds
  BY KindOfType
<1>2. d \in DtxStates
  BY <1>1, NoiseDtx
<1>3. BadFrameState(st, bfi) \in 0..6
  BY BadTypes
<1>4. dirty \in SUBSET Memories
  BY StateParts DEF WrittenByNoise, WrittenBySynthesis, SynthesisMems, Memories
<1>5. bfi \in BOOLEAN
  OBVIOUS
<1>6. NoiseState(f) = [st EXCEPT !.dtx = d, !.bad = BadFrameState(st, bfi), !.prevBfi = bfi, !.dirty = dirty]
  BY StateParts DEF NoiseState
<1>7. st.vadHist \in 0..MaxCount
  BY StateParts
<1> HIDE DEF kind, bfi, d, dirty
<1>8. NoiseState(f) = [dtx |-> d, bad |-> BadFrameState(st, bfi), prevBfi |-> bfi, vadHist |-> st.vadHist, dirty |-> dirty]
  BY <1>6, StateParts
<1>9. NoiseState(f) \in States
  BY <1>2, <1>3, <1>4, <1>5, <1>7, <1>8 DEF States
<1>10. NoiseState(f).dtx = d /\ NoiseState(f).bad = BadFrameState(st, bfi) /\ NoiseState(f).dirty = dirty
  BY <1>8
<1>11. dirty \cap SpeechMems = {}
  BY DEF dirty
<1> QED
  BY <1>9, <1>10, <1>11 DEF kind, bfi, d

-----------------------------------------------------------------------------
(* The inductive invariant: besides the properties, no more frames of      *)
(* noise are counted than there were since the last data, the histories of *)
(* speech are empty during noise, and the state of concealment follows     *)
(* their length.                                                           *)
DecoderInv ==
    /\ DecoderTypeOK
    /\ HomedIsInitial
    /\ CleanSpeechStart
    /\ st.dtx.since <= quiet
    /\ st.dtx.state # "speech" => goodRun = 0 /\ lossRun = 0
    /\ lossRun <= st.bad
    /\ goodRun >= 1 => st.bad <= 5
    /\ goodRun >= 2 => st.bad <= 2
    /\ goodRun >= 3 => st.bad <= 1
    /\ goodRun >= 4 => st.bad = 0

(* What a reset leaves. *)
LEMMA InitialParts ==
    /\ InitialState.dtx.state = "speech" /\ InitialState.dtx.since = 0
    /\ InitialState.bad = 0 /\ InitialState.dirty = {}
BY DEF InitialState, InitialDtx

LEMMA InvInit == DecoderInit => DecoderInv
<1> SUFFICES ASSUME DecoderInit PROVE DecoderInv
  OBVIOUS
<1>1. DecoderTypeOK
  BY InitialTypes, DecoderAssumption DEF DecoderInit, DecoderTypeOK, DecoderAssumption
<1> QED
  BY <1>1, InitialParts DEF DecoderInit, DecoderInv, HomedIsInitial, CleanSpeechStart

(* After a homing frame. *)
LEMMA HomedInv ==
    ASSUME DecoderTypeOK, NEW f \in Frames, bits' = Unpacked(f), mode' = ModeOf(f),
           homed' = TRUE, st' = InitialState, Forget
    PROVE  DecoderInv'
<1>1. mode' \in Modes /\ bits' \in Bits
  BY FrameTypes DEF DecoderTypeOK
<1>2. quiet' = 0 /\ goodRun' = 0 /\ lossRun' = 0
  BY DEF Forget
<1>3. MaxEmpty \in Nat
  BY DecoderAssumption DEF DecoderAssumption
<1>4. DecoderTypeOK'
  BY <1>1, <1>2, <1>3, InitialTypes DEF DecoderTypeOK
<1> QED
  BY <1>2, <1>4, InitialParts DEF DecoderInv, HomedIsInitial, CleanSpeechStart

LEMMA RepeatHomingInv ==
    ASSUME DecoderInv, NEW f \in Frames, RepeatHoming(f)
    PROVE  DecoderInv'
BY HomedInv DEF DecoderInv, RepeatHoming, Finish

LEMMA DecodeSpeechInv ==
    ASSUME DecoderInv, NEW f \in Frames, DecodeSpeech(f)
    PROVE  DecoderInv'
<1> DEFINE bfi == KindOf(f) \in Losses
<1>1. bits' = Unpacked(f) /\ mode' = ModeOf(f)
  BY DEF DecodeSpeech
<1>2. DecoderTypeOK
  BY DEF DecoderInv
<1>3. CASE ResetFlag(f)
  <2>1. homed' = TRUE /\ st' = InitialState /\ Forget
    BY <1>3 DEF DecodeSpeech, Finish
  <2> QED
    BY <1>1, <1>2, <2>1, HomedInv
<1>4. CASE ~ResetFlag(f)
  <2>1. /\ homed' = FALSE /\ st' = SpeechState(f) /\ quiet' = 0
        /\ goodRun' = (IF bfi THEN 0 ELSE Lesser(goodRun + 1, 4))
        /\ lossRun' = (IF bfi THEN Lesser(lossRun + 1, 6) ELSE 0)
    <3>1. homed' = ResetFlag(f) /\ st' = SpeechState(f)
      BY <1>4 DEF DecodeSpeech, Finish
    <3>2. ResetFlag(f) \in BOOLEAN
      BY DEF ResetFlag, Homing, HomingFirst, DecoderTypeOK
    <3>3. homed' = FALSE
      BY <1>4, <3>1, <3>2
    <3> QED
      BY <1>4, <3>1, <3>3 DEF DecodeSpeech
  <2>2. ~IsNoise(st.dtx, KindOf(f))
    BY DEF DecodeSpeech
  <2>3. SpeechState(f) \in States
    BY <1>2, <2>2, SpeechTypes
  <2>4. mode' \in Modes /\ bits' \in Bits
    BY <1>1, <1>2, FrameTypes DEF DecoderTypeOK
  <2>5. /\ st'.dtx.state = "speech" /\ st'.dtx.since = 0 /\ st'.bad = BadFrameState(st, bfi)
    <3>1. /\ st'.dtx = [Handler(st.dtx, KindOf(f)) EXCEPT !.state = "speech"]
          /\ st'.bad = BadFrameState(st, bfi)
      BY <2>1 DEF SpeechState
    <3>2. st.dtx \in DtxStates /\ KindOf(f) \in Kinds
      BY <1>2, StateParts, KindOfType
    <3> DEFINE h == Handler(st.dtx, KindOf(f))
    <3>3. /\ h.since = 0
          /\ h = [state |-> h.state, since |-> h.since, elapsed |-> h.elapsed, hang |-> h.hang,
                  added |-> h.added, sid |-> h.sid, valid |-> h.valid, updated |-> h.updated]
      BY <2>2, <3>2, HandlerTypes
    <3>4. st'.dtx = [h EXCEPT !.state = "speech"]
      BY <3>1
    <3> HIDE DEF h
    <3> QED
      BY <3>1, <3>3, <3>4
  <2>6. /\ quiet \in Nat /\ goodRun \in 0..4 /\ lossRun \in 0..6 /\ MaxEmpty \in Nat /\ st.bad \in 0..6
    BY <1>2, StateParts, DecoderAssumption DEF DecoderTypeOK, DecoderAssumption
  <2>7. DecoderTypeOK'
    <3>1. goodRun' \in 0..4 /\ lossRun' \in 0..6 /\ quiet' \in 0..(MaxEmpty + 1)
      BY <2>1, <2>6 DEF Lesser
    <3> QED
      BY <2>1, <2>3, <2>4, <3>1 DEF DecoderTypeOK
  <2>8. /\ lossRun' <= st'.bad
        /\ goodRun' >= 1 => st'.bad <= 5
        /\ goodRun' >= 2 => st'.bad <= 2
        /\ goodRun' >= 3 => st'.bad <= 1
        /\ goodRun' >= 4 => st'.bad = 0
    <3> DEFINE bad == st.bad  new == st'.bad
    <3>1. /\ st.dtx.state # "speech" => goodRun = 0 /\ lossRun = 0
          /\ lossRun <= bad
          /\ goodRun >= 1 => bad <= 5
          /\ goodRun >= 2 => bad <= 2
          /\ goodRun >= 3 => bad <= 1
          /\ goodRun >= 4 => bad = 0
      BY DEF DecoderInv
    <3>2. CASE bfi
      <4>1. goodRun' = 0 /\ lossRun' = (IF lossRun + 1 < 6 THEN lossRun + 1 ELSE 6)
        BY <2>1, <3>2 DEF Lesser
      <4>2. new = (IF st.dtx.state # "speech" THEN 5 ELSE IF bad + 1 < 6 THEN bad + 1 ELSE 6)
        BY <2>5, <3>2 DEF BadFrameState, Lesser
      <4> HIDE DEF bad, new
      <4>3. lossRun' <= new
        BY <3>1, <4>1, <4>2, <2>6 DEF bad
      <4> QED
        BY <4>1, <4>3 DEF new
    <3>3. CASE ~bfi
      <4>1. goodRun' = (IF goodRun + 1 < 4 THEN goodRun + 1 ELSE 4) /\ lossRun' = 0
        BY <2>1, <3>3 DEF Lesser
      <4>2. new = (IF st.dtx.state # "speech" THEN 5 ELSE bad \div 2)
        BY <2>5, <3>3 DEF BadFrameState
      <4>3. new \in 0..6 /\ bad \in 0..6
        BY <2>5, <2>6, <1>2, BadTypes
      <4> HIDE DEF bad, new
      <4>4. /\ lossRun' <= new
            /\ goodRun' >= 1 => new <= 5
            /\ goodRun' >= 2 => new <= 2
            /\ goodRun' >= 3 => new <= 1
            /\ goodRun' >= 4 => new = 0
        BY <3>1, <4>1, <4>2, <4>3, <2>6 DEF bad
      <4> QED
        BY <4>4 DEF new
    <3> QED
      BY <3>2, <3>3
  <2>9. HomedIsInitial' /\ CleanSpeechStart'
    BY <2>1, <2>5 DEF HomedIsInitial, CleanSpeechStart
  <2> QED
    BY <2>1, <2>5, <2>7, <2>8, <2>9 DEF DecoderInv
<1> QED
  BY <1>3, <1>4

LEMMA DecodeNoiseInv ==
    ASSUME DecoderInv, NEW f \in Frames, DecodeNoise(f)
    PROVE  DecoderInv'
<1> DEFINE kind == KindOf(f)
           data == HasData(Handler(st.dtx, kind))
<1>1. bits' = Unpacked(f) /\ mode' = ModeOf(f)
  BY DEF DecodeNoise
<1>2. DecoderTypeOK
  BY DEF DecoderInv
<1>3. CASE ResetFlag(f)
  <2>1. homed' = TRUE /\ st' = InitialState /\ Forget
    BY <1>3 DEF DecodeNoise, Finish
  <2> QED
    BY <1>1, <1>2, <2>1, HomedInv
<1>4. CASE ~ResetFlag(f)
  <2>1. /\ homed' = FALSE /\ st' = NoiseState(f) /\ goodRun' = 0 /\ lossRun' = 0
        /\ quiet' = (IF data THEN 0 ELSE Lesser(quiet + 1, MaxEmpty + 1))
    <3>1. homed' = ResetFlag(f) /\ st' = NoiseState(f)
      BY <1>4 DEF DecodeNoise, Finish
    <3>2. ResetFlag(f) \in BOOLEAN
      BY DEF ResetFlag, Homing, HomingFirst
    <3>3. homed' = FALSE
      BY <1>4, <3>1, <3>2
    <3> QED
      BY <1>4, <3>1, <3>3 DEF DecodeNoise
  <2>2. IsNoise(st.dtx, kind) /\ kind \in Kinds
    BY KindOfType DEF DecodeNoise
  <2>3. /\ NoiseState(f) \in States
        /\ st'.dtx = Noise(Handler(st.dtx, kind), NewState(st.dtx, kind))
        /\ st'.bad = BadFrameState(st, kind \in Losses)
        /\ st'.dirty \cap SpeechMems = {}
    BY <1>2, <2>1, <2>2, NoiseTypes
  <2>4. /\ st'.dtx \in DtxStates /\ st'.dtx.state \in {"dtx", "mute"}
        /\ st'.dtx.since \in {0, st.dtx.since + 1}
        /\ data => st'.dtx.since = 0
    BY <1>2, <2>2, <2>3, NoiseDtx
  <2>5. mode' \in Modes /\ bits' \in Bits
    BY <1>1, <1>2, FrameTypes DEF DecoderTypeOK
  <2>6. quiet \in 0..(MaxEmpty + 1) /\ MaxEmpty \in Nat /\ st.dtx.since \in 0..MaxEmpty /\ st.dtx.since <= quiet
    BY <1>2, StateParts, DecoderAssumption DEF DecoderInv, DecoderTypeOK, DtxStates, DecoderAssumption
  <2>7. st'.dtx.since \in 0..MaxEmpty
    BY <2>4 DEF DtxStates
  <2>8. quiet' \in 0..(MaxEmpty + 1) /\ st'.dtx.since <= quiet'
    BY <2>1, <2>4, <2>6, <2>7 DEF Lesser
  <2>9. DecoderTypeOK'
    <3>1. homed' \in BOOLEAN /\ st' \in States /\ goodRun' \in 0..4 /\ lossRun' \in 0..6
      <4>1. homed' = FALSE /\ goodRun' = 0 /\ lossRun' = 0
        BY <2>1
      <4>2. st' \in States
        BY <2>1, <2>3, Zenon
      <4>3. homed' \in BOOLEAN
        BY <4>1
      <4>4. goodRun' \in 0..4 /\ lossRun' \in 0..6
        BY <4>1
      <4> QED
        BY <4>2, <4>3, <4>4
    <3> QED
      BY <2>5, <2>8, <3>1 DEF DecoderTypeOK
  <2>10. st'.bad \in 0..6
    BY <1>2, <2>3, BadTypes
  <2>11. HomedIsInitial' /\ CleanSpeechStart'
    BY <2>1, <2>3 DEF HomedIsInitial, CleanSpeechStart
  <2> QED
    BY <2>1, <2>4, <2>8, <2>9, <2>10, <2>11 DEF DecoderInv
<1> QED
  BY <1>3, <1>4

LEMMA InvNext == DecoderInv /\ [Decode]_decoderVars => DecoderInv'
<1> SUFFICES ASSUME DecoderInv, [Decode]_decoderVars PROVE DecoderInv'
  OBVIOUS
<1>1. ASSUME NEW f \in Frames, RepeatHoming(f) PROVE DecoderInv'
  BY <1>1, RepeatHomingInv
<1>2. ASSUME NEW f \in Frames, DecodeSpeech(f) PROVE DecoderInv'
  BY <1>2, DecodeSpeechInv
<1>3. ASSUME NEW f \in Frames, DecodeNoise(f) PROVE DecoderInv'
  BY <1>3, DecodeNoiseInv
<1>4. CASE UNCHANGED decoderVars
  BY <1>4 DEF decoderVars, DecoderInv, DecoderTypeOK, HomedIsInitial, CleanSpeechStart
<1> QED
  BY <1>1, <1>2, <1>3, <1>4 DEF Decode

THEOREM InvAlways == DecoderSpec => []DecoderInv
BY InvInit, InvNext, PTL DEF DecoderSpec

-----------------------------------------------------------------------------
(* What the decoder keeps has its type, whatever frames it was given: the  *)
(* counters of comfort noise and of concealment never leave their range.   *)
THEOREM DecoderTypes == DecoderSpec => []DecoderTypeOK
<1>1. DecoderInv => DecoderTypeOK
  BY DEF DecoderInv
<1> QED
  BY <1>1, InvAlways, PTL

(* After a homing frame the decoder is as new, and speech after comfort    *)
(* noise starts from memories that were reset: pvDecoder_AmrWb_Reset.      *)
THEOREM ResetsComplete == DecoderSpec => []ResetsAreComplete
<1>1. DecoderInv => ResetsAreComplete
  BY DEF DecoderInv, ResetsAreComplete
<1> QED
  BY <1>1, InvAlways, PTL

(* Concealment follows the losses: the state of pvDecoder_AmrWb's bfi.     *)
THEOREM ConcealmentFollows == DecoderSpec => []ConcealmentFollowsLosses
<1>1. DecoderInv => ConcealmentFollowsLosses
  <2> SUFFICES ASSUME DecoderInv PROVE ConcealmentFollowsLosses
    OBVIOUS
  <2>1. st.bad \in 0..6 /\ lossRun <= st.bad /\ (goodRun >= 4 => st.bad = 0)
    BY StateParts DEF DecoderInv
  <2> QED
    BY <2>1 DEF ConcealmentFollowsLosses
<1> QED
  BY <1>1, InvAlways, PTL

(* Comfort noise is muted only after as many frames without data as        *)
(* rx_amr_wb_dtx_handler allows.                                           *)
THEOREM MutedOnlyAfterSilence == DecoderSpec => MutedAfterSilence
<1>1. DecoderInv /\ [Decode]_decoderVars
        => [st.dtx.state # "mute" /\ st'.dtx.state = "mute" => quiet >= MaxEmpty]_decoderVars
  <2> SUFFICES ASSUME DecoderInv, Decode, st.dtx.state # "mute", st'.dtx.state = "mute" PROVE quiet >= MaxEmpty
    BY DEF decoderVars
  <2>1. PICK f \in Frames : RepeatHoming(f) \/ DecodeSpeech(f) \/ DecodeNoise(f)
    BY DEF Decode
  <2>2. DecoderTypeOK /\ st.dtx \in DtxStates
    BY StateParts DEF DecoderInv
  <2>3. st' # InitialState
    BY InitialParts
  <2>4. ~RepeatHoming(f)
    BY <2>3 DEF RepeatHoming, Finish
  <2>5. ~DecodeSpeech(f)
    <3>1. SUFFICES ASSUME DecodeSpeech(f) PROVE FALSE
      OBVIOUS
    <3>2. st' = SpeechState(f)
      BY <2>3, <3>1 DEF DecodeSpeech, Finish
    <3> DEFINE h == Handler(st.dtx, KindOf(f))
    <3>3. st'.dtx = [h EXCEPT !.state = "speech"]
      BY <3>2 DEF SpeechState
    <3>4. h = [state |-> h.state, since |-> h.since, elapsed |-> h.elapsed, hang |-> h.hang,
               added |-> h.added, sid |-> h.sid, valid |-> h.valid, updated |-> h.updated]
      BY <2>2, KindOfType, HandlerTypes
    <3> HIDE DEF h
    <3>5. st'.dtx.state = "speech"
      BY <3>3, <3>4
    <3> QED
      BY <3>5
  <2>6. DecodeNoise(f)
    BY <2>1, <2>4, <2>5
  <2>7. IsNoise(st.dtx, KindOf(f)) /\ st' = NoiseState(f)
    BY <2>3, <2>6 DEF DecodeNoise, Finish
  <2>8. NewState(st.dtx, KindOf(f)) = "mute"
    BY <2>2, <2>7, NoiseTypes, NoiseDtx, KindOfType
  <2>9. st.dtx.since + 1 > MaxEmpty
    BY <2>7, <2>8 DEF NewState
  <2>10. st.dtx.since <= quiet /\ quiet \in Nat /\ st.dtx.since \in Nat /\ MaxEmpty \in Nat
    BY <2>2, DecoderAssumption DEF DecoderInv, DecoderTypeOK, DtxStates, DecoderAssumption
  <2> QED
    BY <2>9, <2>10
<1> QED
  BY <1>1, InvAlways, PTL DEF DecoderSpec, MutedAfterSilence

-----------------------------------------------------------------------------
(* The frames of a body. *)

(* A set of natural numbers has a least one. *)
LEMMA Least ==
    ASSUME NEW T, T \subseteq Nat, T # {}
    PROVE  \E n \in T : \A m \in T : n <= m
<1>1. IsWellFoundedOn(OpToRel(<, Nat), Nat)
  BY NatLessThanWellFounded
<1>2. \E x \in T : \A y \in T : ~ (<<y, x>> \in OpToRel(<, Nat))
  BY <1>1, WFMin
<1>3. PICK x \in T : \A y \in T : ~ (<<y, x>> \in OpToRel(<, Nat))
  BY <1>2
<1>4. ASSUME NEW y \in T PROVE x <= y
  <2>1. ~(<<y, x>> \in OpToRel(<, Nat))
    BY <1>3
  <2>2. x \in Nat /\ y \in Nat
    OBVIOUS
  <2> QED
    BY <2>1, <2>2 DEF OpToRel
<1> QED
  BY <1>4

(* Induction, for what a set can say. *)
LEMMA Induction ==
    ASSUME NEW S, 0 \in S, \A n \in Nat : n \in S => n + 1 \in S
    PROVE  Nat \subseteq S
<1>1. SUFFICES ASSUME Nat \ S # {} PROVE FALSE
  OBVIOUS
<1>2. PICK n \in Nat \ S : \A m \in Nat \ S : n <= m
  BY <1>1, Least
<1>3. n # 0 /\ n - 1 \in Nat
  BY <1>2
<1>4. n - 1 \in S
  BY <1>2, <1>3
<1> QED
  BY <1>2, <1>3, <1>4

(* What the header of a frame says. *)
Header == [type : 0..15, good : BOOLEAN]

(* A frame takes 1 to 61 bytes. *)
LEMMA BytesOfFrame ==
    ASSUME NEW frame \in Header
    PROVE  /\ FrameSize(frame.type) \in 0..61
           /\ Bytes(frame) \in 1..61
           /\ FrameSize(frame.type) > 0 => Bytes(frame) = FrameSize(frame.type)
<1>1. frame.type \in 0..15
  BY DEF Header
<1>2. FrameSize(frame.type) \in 0..61
  BY <1>1 DEF FrameSize
<1> DEFINE S == {FrameSize(frame.type), 1}
<1>3. Bytes(frame) = CHOOSE x \in S : \A y \in S : x >= y
  BY DEF Bytes, Max
<1>4. \E x \in S : \A y \in S : x >= y
  BY <1>2
<1>5. Bytes(frame) \in S /\ \A y \in S : Bytes(frame) >= y
  BY <1>3, <1>4
<1> QED
  BY <1>2, <1>5

(* Sums are defined. *)
LEMMA SumsExist ==
    ASSUME NEW n \in Nat, NEW v \in [1..n -> Nat]
    PROVE  \E g : g = [i \in 0..n |-> IF i = 0 THEN 0 ELSE g[i - 1] + v[i]]
<1> DEFINE IsSum(g, m) == g \in [0..m -> Nat] /\ g[0] = 0 /\ \A i \in 1..m : g[i] = g[i - 1] + v[i]
           S == {m \in Nat : m <= n => \E g : IsSum(g, m)}
<1>1. 0 \in S
  <2>1. IsSum([i \in 0..0 |-> 0], 0)
    OBVIOUS
  <2> HIDE DEF IsSum
  <2> QED BY <2>1
<1>2. ASSUME NEW m \in Nat, m \in S PROVE m + 1 \in S
  <2>1. ASSUME m + 1 <= n, NEW g, IsSum(g, m)
        PROVE  \E h : IsSum(h, m + 1)
    <3> DEFINE h == [i \in 0..(m + 1) |-> IF i <= m THEN g[i] ELSE g[m] + v[m + 1]]
    <3>1. \A i \in 0..m : h[i] = g[i] /\ g[i] \in Nat
      BY <2>1
    <3>2. h[m + 1] = g[m] + v[m + 1] /\ v[m + 1] \in Nat
      BY <2>1
    <3>3. h \in [0..(m + 1) -> Nat]
      BY <2>1, <3>2
    <3> HIDE DEF h
    <3>4. h[0] = 0
      BY <2>1, <3>1
    <3>5. ASSUME NEW i \in 1..(m + 1) PROVE h[i] = h[i - 1] + v[i]
      <4>1. CASE i = m + 1
        BY <3>1, <3>2, <4>1
      <4>2. CASE i \in 1..m
        BY <2>1, <3>1, <4>2
      <4> QED BY <4>1, <4>2
    <3>6. IsSum(h, m + 1)
      BY <3>3, <3>4, <3>5
    <3> HIDE DEF IsSum
    <3> QED BY <3>6
  <2>2. m <= n => \E g : IsSum(g, m)
    <3> HIDE DEF IsSum
    <3> QED BY <1>2
  <2>3. m + 1 <= n => m <= n
    OBVIOUS
  <2> HIDE DEF IsSum
  <2>4. m + 1 <= n => \E h : IsSum(h, m + 1)
    BY <2>1, <2>2, <2>3
  <2> QED BY <2>4
<1>3. Nat \subseteq S
  <2> HIDE DEF S
  <2> QED BY <1>1, <1>2, Induction
<1>4. \E g : IsSum(g, n)
  <2> HIDE DEF IsSum
  <2> QED BY <1>3
<1>5. PICK g : IsSum(g, n)
  <2> HIDE DEF IsSum
  <2> QED BY <1>4
<1>6. g = [i \in 0..n |-> IF i = 0 THEN 0 ELSE g[i - 1] + v[i]]
  BY <1>5
<1> QED BY <1>6

(* Sums of natural numbers are natural numbers. *)
LEMMA SumsAreNatural ==
    ASSUME NEW n \in Nat, NEW v \in [1..n -> Nat], NEW f, f \in [0..n -> {f[i] : i \in 0..n}],
           f[0] = 0, \A i \in 1..n : f[i] = f[i - 1] + v[i]
    PROVE  f \in [0..n -> Nat]
<1> DEFINE R == {m \in Nat : m <= n => f[m] \in Nat}
<1>1. 0 \in R
  OBVIOUS
<1>2. ASSUME NEW m \in Nat, m \in R PROVE m + 1 \in R
  <2> SUFFICES ASSUME m + 1 <= n PROVE f[m + 1] \in Nat
    OBVIOUS
  <2>1. f[m] \in Nat
    BY <1>2
  <2>2. m + 1 \in 1..n /\ (m + 1) - 1 = m
    OBVIOUS
  <2>3. f[m + 1] = f[m] + v[m + 1]
    BY <2>2, Zenon
  <2>4. v[m + 1] \in Nat
    BY <2>2
  <2>5. \A a, b \in Nat : a + b \in Nat
    OBVIOUS
  <2> QED BY <2>1, <2>3, <2>4, <2>5, Zenon
<1>3. Nat \subseteq R
  <2> HIDE DEF R
  <2> QED BY <1>1, <1>2, Induction
<1>4. \A m \in 0..n : f[m] \in Nat
  BY <1>3
<1> QED BY <1>4

(* Sums of positive numbers grow, and by no more than the numbers can. *)
LEMMA SumsGrow ==
    ASSUME NEW n \in Nat, NEW v \in [1..n -> 1..61], NEW end \in [0..n -> Nat],
           end[0] = 0, \A i \in 1..n : end[i] = end[i - 1] + v[i]
    PROVE  \A i, k \in 0..n : i <= k => end[k] - end[i] \in (k - i)..(61 * (k - i))
<1> DEFINE S == {d \in Nat : \A i \in 0..n : i + d <= n => end[i + d] - end[i] \in d..(61 * d)}
<1>1. 0 \in S
  OBVIOUS
<1>2. ASSUME NEW d \in Nat, d \in S PROVE d + 1 \in S
  <2> SUFFICES ASSUME NEW i \in 0..n, i + (d + 1) <= n
               PROVE  end[i + (d + 1)] - end[i] \in (d + 1)..(61 * (d + 1))
    OBVIOUS
  <2>1. end[i + (d + 1)] = end[i + d] + v[i + (d + 1)] /\ v[i + (d + 1)] \in 1..61 /\ i + d \in 0..n
    OBVIOUS
  <2>2. end[i + d] - end[i] \in d..(61 * d) /\ end[i] \in Nat /\ end[i + d] \in Nat
    <3>1. i + d <= n
      OBVIOUS
    <3>2. \A j \in 0..n : j + d <= n => end[j + d] - end[j] \in d..(61 * d)
      BY <1>2
    <3> QED BY <2>1, <3>1, <3>2
  <2> DEFINE a == end[i]
             b == end[i + d]
             c == v[i + (d + 1)]
  <2>3. b - a \in d..(61 * d) /\ a \in Nat /\ b \in Nat /\ c \in 1..61
    BY <2>1, <2>2
  <2>4. end[i + (d + 1)] - end[i] = (b + c) - a
    BY <2>1
  <2> HIDE DEF a, b, c
  <2>5. (b + c) - a \in (d + 1)..(61 * (d + 1))
    BY <2>3
  <2> QED BY <2>4, <2>5
<1>3. Nat \subseteq S
  <2> HIDE DEF S
  <2> QED BY <1>1, <1>2, Induction
<1> SUFFICES ASSUME NEW i \in 0..n, NEW k \in 0..n, i <= k
             PROVE  end[k] - end[i] \in (k - i)..(61 * (k - i))
  OBVIOUS
<1>4. k - i \in Nat /\ i + (k - i) = k
  OBVIOUS
<1>5. k - i \in S
  BY <1>3, <1>4
<1> QED BY <1>4, <1>5

(* The ends of the frames are those that the definition says; they grow by *)
(* 1 to 61 bytes a frame.                                                  *)
LEMMA EndsOfFrames ==
    ASSUME NEW s \in Seq(Header)
    PROVE  /\ Len(s) \in Nat
           /\ Ends(s) \in [0..Len(s) -> Nat]
           /\ Ends(s)[0] = 0
           /\ \A i \in 1..Len(s) : Ends(s)[i] = Ends(s)[i - 1] + Bytes(s[i])
           /\ \A i, k \in 0..Len(s) : i <= k => Ends(s)[k] - Ends(s)[i] \in (k - i)..(61 * (k - i))
<1> DEFINE n == Len(s)
           v == [i \in 1..n |-> Bytes(s[i])]
           end == Ends(s)
<1>1. n \in Nat
  OBVIOUS
<1>2. v \in [1..n -> 1..61]
  <2>1. ASSUME NEW i \in 1..n PROVE Bytes(s[i]) \in 1..61
    <3>1. s[i] \in Header
      OBVIOUS
    <3> QED BY <3>1, BytesOfFrame
  <2> QED BY <2>1
<1>3. \A i \in 1..n : v[i] = Bytes(s[i])
  OBVIOUS
<1>4. v \in [1..n -> Nat]
  <2>1. 1..61 \subseteq Nat
    OBVIOUS
  <2>2. v = [i \in 1..n |-> v[i]] /\ \A i \in 1..n : v[i] \in 1..61
    BY <1>2
  <2> HIDE DEF v, n
  <2> QED BY <2>1, <2>2, Zenon
<1> DEFINE E(f) == [i \in 0..n |-> IF i = 0 THEN 0 ELSE f[i - 1] + v[i]]
<1>5. end = E(end)
  <2>1. \A f : [i \in 0..n |-> IF i = 0 THEN 0 ELSE f[i - 1] + Bytes(s[i])] = E(f)
    BY <1>1
  <2>2. end = CHOOSE f : f = [i \in 0..n |-> IF i = 0 THEN 0 ELSE f[i - 1] + Bytes(s[i])]
    BY DEF Ends
  <2>3. end = CHOOSE f : f = E(f)
    <3> HIDE DEF E, v, end
    <3> QED BY <2>1, <2>2
  <2>4. \E f : f = E(f)
    <3> HIDE DEF v, end, n
    <3> QED BY <1>1, <1>4, SumsExist, Zenon
  <2> HIDE DEF E, end
  <2> QED BY <2>3, <2>4, Zenon
<1> HIDE DEF end, n, v
<1>6. end \in [0..n -> Nat] /\ end[0] = 0 /\ \A i \in 1..n : end[i] = end[i - 1] + v[i]
  <2>1. \A f, h : f = E(h) =>
           /\ f \in [0..n -> {f[i] : i \in 0..n}]
           /\ f[0] = 0
           /\ \A i \in 1..n : f[i] = h[i - 1] + v[i]
    <3> SUFFICES ASSUME NEW f, NEW h, f = E(h)
                 PROVE  /\ f \in [0..n -> {f[i] : i \in 0..n}]
                        /\ f[0] = 0
                        /\ \A i \in 1..n : f[i] = h[i - 1] + v[i]
      BY Zenon
    <3>1. f = [i \in 0..n |-> f[i]]
      OBVIOUS
    <3>2. f \in [0..n -> {f[i] : i \in 0..n}]
      BY <3>1, Zenon
    <3>3. f[0] = 0 /\ \A i \in 1..n : f[i] = h[i - 1] + v[i]
      BY <1>1
    <3> QED BY <3>2, <3>3, Zenon
  <2>2. end \in [0..n -> {end[i] : i \in 0..n}] /\ end[0] = 0 /\ \A i \in 1..n : end[i] = end[i - 1] + v[i]
    <3> HIDE DEF E
    <3> QED BY <1>5, <2>1, Zenon
  <2>3. end \in [0..n -> Nat]
    BY <1>1, <1>4, <2>2, SumsAreNatural, Zenon
  <2> QED BY <2>2, <2>3
<1>7. \A i, k \in 0..n : i <= k => end[k] - end[i] \in (k - i)..(61 * (k - i))
  BY <1>1, <1>2, <1>6, SumsGrow
<1>8. \A i \in 1..n : end[i] = end[i - 1] + Bytes(s[i])
  BY <1>3, <1>6
<1> QED BY <1>1, <1>6, <1>7, <1>8 DEF end, n

-----------------------------------------------------------------------------
(* The inductive invariant of the parsing: a cut body ends within its last *)
(* frame; the first pass has counted the frames before its offset, all of  *)
(* them whole; the second pass has decoded those before its own; and each  *)
(* outcome has its reason.                                                 *)
BodyArrived ==
    /\ body \in Seq(Header)
    /\ maxFrames \in Nat /\ length \in 0..BodyBytes(body)
    /\ body # << >> => Start(Len(body)) < length

Counted ==
    /\ count \in 0..Len(body)
    /\ phase = "validate" =>
          /\ offset = Ends(body)[count] /\ offset <= length
          /\ count <= maxFrames /\ pcm = 0
          /\ \A i \in 1..count : FrameSize(body[i].type) > 0

Done(frames) == offset = Ends(body)[frames] /\ pcm = frames * pcmBytesPerFrame

InSecondPass ==
    phase \in {"decode", "parameters"} =>
        /\ Whole /\ Len(body) <= maxFrames /\ Len(body) <= MaxInt \div pcmBytesPerFrame
        /\ \E frames \in 0..Len(body) : Done(frames)
        /\ phase = "parameters" => offset < length

FrameInv ==
    /\ FrameTypeOK /\ BodyArrived /\ Counted /\ InSecondPass
    /\ phase \in {"idle", "length"} => offset = 0 /\ count = 0 /\ pcm = 0
    /\ phase = "idle" => body = << >>
    /\ AcceptedIsWhole /\ RefusedForAReason

(* The ends of the frames of the body. *)
LEMMA EndsOfBody ==
    ASSUME BodyArrived
    PROVE  /\ Len(body) \in Nat /\ \A i \in 1..Len(body) : body[i] \in Header
           /\ Ends(body) \in [0..Len(body) -> Nat] /\ Ends(body)[0] = 0
           /\ \A i \in 1..Len(body) : Ends(body)[i] = Ends(body)[i - 1] + Bytes(body[i])
           /\ \A i, k \in 0..Len(body) : i < k => Ends(body)[i] < Ends(body)[k]
           /\ \A i, k \in 0..Len(body) : i <= k => Ends(body)[i] <= Ends(body)[k]
           /\ BodyBytes(body) <= 61 * Len(body) /\ BodyBytes(body) \in Nat /\ length \in Nat
<1>1. body \in Seq(Header)
  BY DEF BodyArrived
<1> DEFINE n == Len(body)
           end == Ends(body)
<1>2. /\ n \in Nat /\ end \in [0..n -> Nat] /\ end[0] = 0
      /\ \A i \in 1..n : end[i] = end[i - 1] + Bytes(body[i])
      /\ \A i, k \in 0..n : i <= k => end[k] - end[i] \in (k - i)..(61 * (k - i))
  BY <1>1, EndsOfFrames
<1>3. \A i \in 1..n : body[i] \in Header
  BY <1>1
<1> HIDE DEF n, end
<1>4. ASSUME NEW i \in 0..n, NEW k \in 0..n, i <= k
      PROVE  end[i] + (k - i) <= end[k] /\ end[k] <= end[i] + 61 * (k - i)
  <2>1. end[k] - end[i] \in (k - i)..(61 * (k - i))
    BY <1>2, <1>4
  <2>2. end[k] \in Nat /\ end[i] \in Nat
    BY <1>2
  <2> DEFINE a == end[i]
             b == end[k]
  <2>3. b - a \in (k - i)..(61 * (k - i)) /\ a \in Nat /\ b \in Nat
    BY <2>1, <2>2
  <2> HIDE DEF a, b
  <2>4. a + (k - i) <= b /\ b <= a + 61 * (k - i)
    BY <2>3
  <2> QED BY <2>4 DEF a, b
<1>5. \A i \in 0..n : end[i] \in Nat
  BY <1>2
<1>6. \A i, k \in 0..n : i < k => end[i] < end[k]
  BY <1>4, <1>5
<1>7. \A i, k \in 0..n : i <= k => end[i] <= end[k]
  BY <1>4, <1>5
<1>8. end[n] <= 61 * n /\ end[n] \in Nat
  <2>1. 0 \in 0..n /\ n \in 0..n /\ n - 0 = n
    BY <1>2
  <2>2. end[n] <= end[0] + 61 * n
    BY <1>2, <1>4, <2>1
  <2>3. end[n] \in Nat
    BY <1>5, <2>1
  <2> QED BY <1>2, <2>2, <2>3
<1>9. BodyBytes(body) = end[n] /\ length \in Nat
  <2>1. BodyBytes(body) = end[n]
    BY DEF BodyBytes, end, n
  <2> QED BY <1>8, <2>1 DEF BodyArrived
<1>10. BodyBytes(body) <= 61 * n /\ BodyBytes(body) \in Nat
  BY <1>8, <1>9
<1> QED BY <1>2, <1>3, <1>6, <1>7, <1>9, <1>10 DEF n, end

(* The frame at the end of some frames is the next one. *)
LEMMA NextFrameAt ==
    ASSUME BodyArrived, NEW k \in 0..Len(body), Ends(body)[k] < length
    PROVE  /\ k + 1 \in 1..Len(body) /\ FrameAt(Ends(body)[k]) = body[k + 1]
           /\ Ends(body)[k + 1] = Ends(body)[k] + Bytes(body[k + 1])
<1>1. length <= Ends(body)[Len(body)]
  BY EndsOfBody DEF BodyArrived, BodyBytes
<1>2. k # Len(body)
  BY <1>1, EndsOfBody
<1>3. k + 1 \in 1..Len(body) /\ (k + 1) - 1 = k
  BY <1>2, EndsOfBody
<1>4. \A i \in DOMAIN body : Start(i) = Ends(body)[k] <=> i = k + 1
  <2> SUFFICES ASSUME NEW i \in 1..Len(body) PROVE Ends(body)[i - 1] = Ends(body)[k] <=> i = k + 1
    BY DEF Start, BodyArrived
  <2>1. i - 1 \in 0..Len(body) /\ (i - 1 < k \/ i - 1 = k \/ k < i - 1)
    BY EndsOfBody
  <2>2. CASE i - 1 = k
    BY <1>3, <2>2
  <2>3. CASE i - 1 < k \/ k < i - 1
    <3>1. Ends(body)[i - 1] \in Nat /\ Ends(body)[k] \in Nat
      BY <2>1, EndsOfBody
    <3>2. Ends(body)[i - 1] < Ends(body)[k] \/ Ends(body)[k] < Ends(body)[i - 1]
      BY <2>1, <2>3, EndsOfBody
    <3> QED BY <2>3, <3>1, <3>2
  <2> QED BY <2>1, <2>2, <2>3
<1>5. (CHOOSE i \in DOMAIN body : Start(i) = Ends(body)[k]) = k + 1
  BY <1>3, <1>4 DEF BodyArrived
<1> QED BY <1>3, <1>5, EndsOfBody DEF FrameAt

(* Once the offset has reached the length, every frame was seen. *)
LEMMA AllSeen ==
    ASSUME BodyArrived, NEW k \in 0..Len(body), Ends(body)[k] >= length
    PROVE  k = Len(body)
<1>1. CASE body = << >>
  BY <1>1
<1>2. CASE body # << >>
  <2>1. Ends(body)[Len(body) - 1] < length /\ Len(body) - 1 \in 0..Len(body)
    BY <1>2, EndsOfBody DEF BodyArrived, Start
  <2>2. ~(k <= Len(body) - 1)
    <3>1. Ends(body)[k] \in Nat /\ Ends(body)[Len(body) - 1] \in Nat
      BY <2>1, EndsOfBody
    <3> QED BY <2>1, <3>1, EndsOfBody
  <2> QED BY <2>2, EndsOfBody
<1> QED BY <1>1, <1>2

(* Which frame the header at the offset of either pass belongs to. *)
LEMMA FrameSeen ==
    ASSUME BodyArrived, NEW k \in 0..Len(body), offset = Ends(body)[k], offset < length
    PROVE  /\ k + 1 \in 1..Len(body) /\ FrameAt(offset) = body[k + 1] /\ FrameAt(offset) \in Header
           /\ FrameSize(FrameAt(offset).type) \in 0..61
           /\ FrameSize(FrameAt(offset).type) > 0 =>
                 Ends(body)[k + 1] = offset + FrameSize(FrameAt(offset).type)
           /\ FrameSize(FrameAt(offset).type) = 0 => ~Whole
           /\ Ends(body)[k + 1] > length => ~Whole
<1>1. k + 1 \in 1..Len(body) /\ FrameAt(offset) = body[k + 1] /\ Ends(body)[k + 1] = offset + Bytes(body[k + 1])
  BY NextFrameAt
<1>2. body[k + 1] \in Header
  BY <1>1, EndsOfBody
<1>3. /\ FrameSize(body[k + 1].type) \in 0..61
      /\ FrameSize(body[k + 1].type) > 0 => Bytes(body[k + 1]) = FrameSize(body[k + 1].type)
  BY <1>2, BytesOfFrame
<1>4. FrameSize(body[k + 1].type) = 0 => ~Whole
  <2>1. k + 1 \in DOMAIN body
    BY <1>1 DEF BodyArrived
  <2> QED BY <2>1 DEF Whole
<1>5. Ends(body)[k + 1] > length => ~Whole
  <2>1. k + 1 <= Len(body) /\ k + 1 \in 0..Len(body) /\ Len(body) \in 0..Len(body)
    BY <1>1, EndsOfBody
  <2>2. Ends(body)[k + 1] <= BodyBytes(body)
    BY <2>1, EndsOfBody DEF BodyBytes
  <2>3. Ends(body)[k + 1] \in Nat /\ BodyBytes(body) \in Nat
    BY <2>1, EndsOfBody
  <2> QED BY <2>2, <2>3, EndsOfBody DEF Whole
<1> QED BY <1>1, <1>2, <1>3, <1>4, <1>5

LEMMA FrameInitInv == FrameInit => FrameInv
<1> SUFFICES ASSUME FrameInit PROVE FrameInv
  OBVIOUS
<1>1. body \in Seq(Header) /\ body = << >>
  BY DEF FrameInit
<1>2. Len(body) = 0 /\ Ends(body)[0] = 0
  BY <1>1, EndsOfFrames
<1>3. BodyBytes(body) = 0
  BY <1>2 DEF BodyBytes
<1> QED BY <1>1, <1>2, <1>3 DEF FrameInit, FrameInv, FrameTypeOK, Outcomes, BodyArrived, Counted, InSecondPass,
      AcceptedIsWhole, RefusedForAReason

LEMMA ReceiveInv == ASSUME FrameInv, Receive PROVE FrameInv'
<1>1. body' \in Seq(Header)
  BY FrameAssumption DEF Receive, FrameAssumption, Header
<1>2. /\ Len(body') \in Nat /\ Ends(body') \in [0..Len(body') -> Nat] /\ Ends(body')[0] = 0
      /\ \A i \in 1..Len(body') : Ends(body')[i] = Ends(body')[i - 1] + Bytes(body'[i])
  BY <1>1, EndsOfFrames
<1>3. PICK cut \in Cuts :
         /\ IF body' = << >> THEN cut = 0 ELSE cut < Bytes(Last(body'))
         /\ length' = BodyBytes(body') - cut
  BY DEF Receive
<1>4. cut \in Nat
  BY FrameAssumption DEF FrameAssumption
<1>5. length' \in 0..BodyBytes(body') /\ (body' # << >> => Ends(body')[Len(body') - 1] < length')
  <2>1. CASE body' = << >>
    BY <1>2, <1>3, <2>1 DEF BodyBytes
  <2>2. CASE body' # << >>
    <3>1. Len(body') \in 1..Len(body') /\ Len(body') - 1 \in 0..Len(body')
      BY <1>1, <2>2
    <3>2. Ends(body')[Len(body')] = Ends(body')[Len(body') - 1] + Bytes(body'[Len(body')])
      BY <1>2, <3>1
    <3>3. Bytes(body'[Len(body')]) \in 1..61
      <4>1. body'[Len(body')] \in Header
        BY <1>1, <3>1
      <4> QED BY <4>1, BytesOfFrame
    <3>4. Ends(body')[Len(body') - 1] \in Nat
      BY <1>2, <3>1
    <3>5. cut < Bytes(body'[Len(body')]) /\ length' = Ends(body')[Len(body')] - cut
      BY <1>3, <2>2 DEF Last, BodyBytes
    <3> DEFINE a == Ends(body')[Len(body') - 1]
               b == Bytes(body'[Len(body')])
               c == Ends(body')[Len(body')]
    <3>6. a \in Nat /\ b \in 1..61 /\ c = a + b /\ cut < b /\ length' = c - cut
      BY <3>2, <3>3, <3>4, <3>5
    <3>7. BodyBytes(body') = c
      BY DEF BodyBytes
    <3> HIDE DEF a, b, c
    <3>8. length' \in 0..c /\ a < length'
      BY <1>4, <3>6
    <3> QED BY <3>7, <3>8 DEF a
  <2> QED BY <2>1, <2>2
<1>6. maxFrames' \in Nat
  <2>1. PICK d \in Durations : maxFrames' = httpAudioLimits(d)
    BY DEF Receive
  <2>2. d \in Nat /\ MaxInt \in Nat
    BY FrameAssumption DEF FrameAssumption
  <2> DEFINE S == {d \div 20, MaxInt}
  <2>3. d \div 20 \in Nat
    BY <2>2
  <2>4. \E x \in S : \A y \in S : x <= y
    BY <2>2, <2>3
  <2>5. httpAudioLimits(d) \in S
    BY <2>4 DEF httpAudioLimits, Min
  <2> QED BY <2>1, <2>2, <2>3, <2>5
<1>7. BodyArrived'
  BY <1>1, <1>5, <1>6 DEF BodyArrived, Start
<1>8. phase' = "length" /\ UNCHANGED <<offset, count, pcm, prevMode, toRead, position>> /\ phase = "idle"
  BY DEF Receive
<1>9. length' \in Nat
  BY <1>2, <1>5 DEF BodyBytes
<1>10. FrameTypeOK'
  BY <1>2, <1>8, <1>9 DEF FrameInv, FrameTypeOK, Outcomes
<1> QED BY <1>2, <1>7, <1>8, <1>10 DEF FrameInv, Counted, InSecondPass, AcceptedIsWhole, RefusedForAReason

(* Most steps leave the body, and what is known of it. *)
LEMMA SameBody ==
    ASSUME BodyArrived, UNCHANGED <<body, length, maxFrames>>
    PROVE  BodyArrived' /\ Whole' = Whole /\ \A i : Start(i)' = Start(i)
BY DEF BodyArrived, Whole, Start

LEMMA CheckLengthInv == ASSUME FrameInv, CheckLength PROVE FrameInv'
<1>1. /\ UNCHANGED <<body, length, maxFrames, offset, count, pcm, prevMode, toRead, position>> /\ phase = "length"
      /\ phase' = IF length > maxFrames * 61 THEN "bodyTooLarge" ELSE "validate"
  BY DEF CheckLength, amrwbMaxEncodedFrameSize
<1>2. BodyArrived /\ FrameTypeOK /\ offset = 0 /\ count = 0 /\ pcm = 0
  BY <1>1 DEF FrameInv
<1>3. BodyArrived'
  BY <1>1, <1>2, SameBody
<1>4. phase' = "bodyTooLarge" => Len(body) > maxFrames
  <2> SUFFICES ASSUME length > maxFrames * 61 PROVE Len(body) > maxFrames
    BY <1>1
  <2>1. length <= 61 * Len(body) /\ maxFrames \in Nat /\ Len(body) \in Nat /\ length \in Nat
    BY <1>2, EndsOfBody DEF BodyArrived
  <2> QED BY <2>1
<1>5. Ends(body)[0] = 0 /\ Len(body) \in Nat /\ maxFrames \in Nat /\ length \in Nat
  BY <1>2, EndsOfBody DEF BodyArrived
<1>6. FrameTypeOK' /\ Counted'
  BY <1>1, <1>2, <1>5 DEF FrameTypeOK, Counted, Outcomes
<1> QED BY <1>1, <1>3, <1>4, <1>6 DEF FrameInv, InSecondPass, AcceptedIsWhole, RefusedForAReason

LEMMA ValidateFrameInv == ASSUME FrameInv, ValidateFrame PROVE FrameInv'
<1> DEFINE size == FrameSize(FrameAt(offset).type)
<1>1. /\ UNCHANGED <<body, length, maxFrames, pcm, prevMode, toRead, position>> /\ phase = "validate"
      /\ offset < length
      /\ \/ (size = 0 \/ size > length - offset) /\ phase' = "invalid" /\ UNCHANGED <<offset, count>>
         \/ ~(size = 0 \/ size > length - offset) /\ count' = count + 1 /\ count' > maxFrames
              /\ phase' = "tooLong" /\ offset' = offset
         \/ ~(size = 0 \/ size > length - offset) /\ count' = count + 1 /\ ~(count' > maxFrames)
              /\ phase' = "validate" /\ offset' = offset + size
  BY DEF ValidateFrame
<1>2. /\ BodyArrived /\ FrameTypeOK /\ count \in 0..Len(body) /\ offset = Ends(body)[count] /\ count <= maxFrames
      /\ pcm = 0 /\ \A i \in 1..count : FrameSize(body[i].type) > 0
  BY <1>1 DEF FrameInv, Counted
<1>3. BodyArrived' /\ Whole' = Whole
  BY <1>1, <1>2, SameBody
<1>4. /\ count + 1 \in 1..Len(body) /\ FrameAt(offset) = body[count + 1] /\ size \in 0..61
      /\ size > 0 => Ends(body)[count + 1] = offset + size
      /\ size = 0 => ~Whole
      /\ Ends(body)[count + 1] > length => ~Whole
  BY <1>1, <1>2, FrameSeen
<1>5. length \in Nat /\ offset \in Nat /\ maxFrames \in Nat /\ Len(body) \in Nat /\ count \in Nat
  BY <1>2, EndsOfBody DEF BodyArrived, FrameTypeOK
<1>6. size = FrameSize(body[count + 1].type)
  BY <1>4
<1> HIDE DEF size
<1>7. CASE (size = 0 \/ size > length - offset) /\ phase' = "invalid" /\ UNCHANGED <<offset, count>>
  <2>1. ~Whole
    BY <1>4, <1>5, <1>7
  <2> QED BY <1>1, <1>2, <1>3, <1>7, <2>1
        DEF FrameInv, FrameTypeOK, Outcomes, Counted, InSecondPass, AcceptedIsWhole, RefusedForAReason
<1>8. CASE count' = count + 1 /\ count' > maxFrames /\ phase' = "tooLong" /\ offset' = offset
  <2>1. Len(body) > maxFrames /\ count' \in 0..Len(body)
    BY <1>4, <1>5, <1>8
  <2> QED BY <1>1, <1>2, <1>3, <1>8, <2>1
        DEF FrameInv, FrameTypeOK, Outcomes, Counted, InSecondPass, AcceptedIsWhole, RefusedForAReason
<1>9. CASE ~(size = 0 \/ size > length - offset) /\ count' = count + 1 /\ ~(count' > maxFrames)
              /\ phase' = "validate" /\ offset' = offset + size
  <2>1. size > 0 /\ offset' = Ends(body)[count + 1] /\ offset' \in 0..length /\ count' \in 0..Len(body)
    BY <1>4, <1>5, <1>9
  <2>2. \A i \in 1..count' : FrameSize(body[i].type) > 0
    <3>1. \A i \in 1..(count + 1) : i \in 1..count \/ i = count + 1
      BY <1>5
    <3> QED BY <1>2, <1>6, <1>9, <2>1, <3>1
  <2>3. count' <= maxFrames
    BY <1>5, <1>9
  <2>4. Counted' /\ FrameTypeOK'
    BY <1>1, <1>2, <1>5, <1>9, <2>1, <2>2, <2>3 DEF FrameTypeOK, Counted, Outcomes
  <2> QED BY <1>1, <1>3, <1>9, <2>4 DEF FrameInv, InSecondPass, AcceptedIsWhole, RefusedForAReason
<1> QED BY <1>1, <1>7, <1>8, <1>9

LEMMA StartDecodingInv == ASSUME FrameInv, StartDecoding PROVE FrameInv'
<1>1. /\ UNCHANGED <<body, length, maxFrames, count, pcm, prevMode, toRead, position>> /\ phase = "validate"
      /\ offset >= length /\ offset' = 0
      /\ phase' = IF count = 0 THEN "accepted" ELSE IF count > MaxInt \div 640 THEN "tooLong" ELSE "decode"
  BY DEF StartDecoding, pcmBytesPerFrame
<1>2. /\ BodyArrived /\ FrameTypeOK /\ count \in 0..Len(body) /\ offset = Ends(body)[count] /\ count <= maxFrames
      /\ pcm = 0 /\ offset <= length /\ \A i \in 1..count : FrameSize(body[i].type) > 0
  BY <1>1 DEF FrameInv, Counted
<1>3. BodyArrived' /\ Whole' = Whole
  BY <1>1, <1>2, SameBody
<1>4. length \in Nat /\ offset \in Nat /\ maxFrames \in Nat /\ Len(body) \in Nat
      /\ count \in Nat /\ MaxInt \in Nat
  BY <1>2, EndsOfBody, FrameAssumption DEF BodyArrived, FrameTypeOK, FrameAssumption
<1>5. count = Len(body)
  BY <1>1, <1>2, AllSeen
<1>6. Whole
  <2>1. length = BodyBytes(body)
    BY <1>1, <1>2, <1>4, <1>5 DEF BodyBytes
  <2> QED BY <1>2, <1>5, <2>1 DEF Whole, BodyArrived
<1>7. Ends(body)[0] = 0
  BY <1>2, EndsOfBody
<1>8. FrameTypeOK' /\ Counted'
  BY <1>1, <1>2, <1>4 DEF FrameTypeOK, Counted, Outcomes
<1>9. InSecondPass'
  <2> SUFFICES ASSUME phase' = "decode" PROVE InSecondPass'
    BY <1>1 DEF InSecondPass
  <2>1. Len(body) <= MaxInt \div 640 /\ Len(body) <= maxFrames
    BY <1>1, <1>2, <1>4, <1>5
  <2>2. Done(0)'
    BY <1>1, <1>2, <1>7 DEF Done, pcmBytesPerFrame
  <2>3. 0 \in 0..Len(body)
    BY <1>4
  <2> QED BY <1>1, <1>3, <1>6, <2>1, <2>2, <2>3 DEF InSecondPass, pcmBytesPerFrame
<1>10. AcceptedIsWhole'
  BY <1>1, <1>2, <1>3, <1>4, <1>5, <1>6 DEF AcceptedIsWhole, pcmBytesPerFrame
<1>11. RefusedForAReason'
  <2>1. count > MaxInt \div 640 => Len(body) * 640 > MaxInt
    BY <1>4, <1>5
  <2> QED BY <1>1, <2>1 DEF RefusedForAReason, pcmBytesPerFrame
<1> QED BY <1>1, <1>3, <1>8, <1>9, <1>10, <1>11 DEF FrameInv

(* What is known in the second pass: the frames that it has decoded. *)
LEMMA SecondPass ==
    ASSUME FrameInv, phase \in {"decode", "parameters"}
    PROVE  /\ BodyArrived /\ FrameTypeOK /\ Counted /\ Whole
           /\ length \in Nat /\ offset \in Nat /\ Len(body) \in Nat /\ MaxInt \in Nat
           /\ Len(body) <= maxFrames /\ Len(body) <= MaxInt \div pcmBytesPerFrame
           /\ phase = "parameters" => offset < length
           /\ \E frames \in 0..Len(body) : Done(frames)
<1>1. BodyArrived /\ FrameTypeOK /\ Counted
  BY DEF FrameInv
<1> QED BY <1>1, EndsOfBody, FrameAssumption DEF FrameInv, InSecondPass, FrameTypeOK, FrameAssumption

LEMMA UnpackFrameInv == ASSUME FrameInv, UnpackFrame PROVE FrameInv'
<1>1. /\ UNCHANGED <<body, length, maxFrames, offset, count, pcm>> /\ phase = "decode" /\ phase' = "parameters"
      /\ offset < length
      /\ prevMode' = IF FrameAt(offset).good /\ FrameAt(offset).type <= 8 THEN FrameAt(offset).type ELSE prevMode
  BY DEF UnpackFrame
<1>2. /\ BodyArrived /\ FrameTypeOK /\ Counted /\ Whole
      /\ Len(body) <= maxFrames /\ Len(body) <= MaxInt \div pcmBytesPerFrame
      /\ \E frames \in 0..Len(body) : Done(frames)
  BY <1>1, SecondPass
<1>3. BodyArrived' /\ Whole' = Whole
  BY <1>1, <1>2, SameBody
<1>4. PICK frames \in 0..Len(body) : Done(frames)
  BY <1>2
<1>5. FrameAt(offset) \in Header
  BY <1>1, <1>2, <1>4, FrameSeen DEF Done
<1>6. prevMode' \in 0..8
  BY <1>1, <1>2, <1>5 DEF FrameTypeOK, Header
<1>7. Done(frames)'
  BY <1>1, <1>4 DEF Done
<1>8. InSecondPass'
  BY <1>1, <1>2, <1>3, <1>7 DEF InSecondPass
<1>9. FrameTypeOK' /\ Counted'
  BY <1>1, <1>2, <1>6 DEF FrameTypeOK, Counted
<1> QED BY <1>1, <1>3, <1>8, <1>9 DEF FrameInv, AcceptedIsWhole, RefusedForAReason

LEMMA ReadParameterInv == ASSUME FrameInv, ReadParameter PROVE FrameInv'
<1>1. /\ UNCHANGED <<body, length, maxFrames, phase, offset, count, pcm, prevMode>> /\ phase = "parameters"
  BY DEF ReadParameter
<1>2. /\ BodyArrived /\ FrameTypeOK /\ Counted /\ Whole /\ offset < length
      /\ Len(body) <= maxFrames /\ Len(body) <= MaxInt \div pcmBytesPerFrame
      /\ \E frames \in 0..Len(body) : Done(frames)
  BY <1>1, SecondPass
<1>3. BodyArrived' /\ Whole' = Whole
  BY <1>1, <1>2, SameBody
<1>4. PICK frames \in 0..Len(body) : Done(frames)
  BY <1>2
<1>5. Done(frames)'
  BY <1>1, <1>4 DEF Done
<1>6. InSecondPass'
  BY <1>1, <1>2, <1>3, <1>5 DEF InSecondPass
<1>7. FrameTypeOK' /\ Counted'
  BY <1>1, <1>2 DEF FrameTypeOK, Counted
<1> QED BY <1>1, <1>3, <1>6, <1>7 DEF FrameInv, AcceptedIsWhole, RefusedForAReason

LEMMA FrameDoneInv == ASSUME FrameInv, FrameDone PROVE FrameInv'
<1> DEFINE size == FrameSize(FrameAt(offset).type)
<1>1. /\ UNCHANGED <<body, length, maxFrames, count, prevMode, toRead, position>>
      /\ phase = "parameters" /\ phase' = "decode" /\ toRead = << >>
      /\ pcm' = pcm + pcmBytesPerFrame /\ offset' = offset + size
  BY DEF FrameDone
<1>2. /\ BodyArrived /\ FrameTypeOK /\ Counted /\ Whole /\ offset < length
      /\ length \in Nat /\ offset \in Nat /\ Len(body) \in Nat
      /\ Len(body) <= maxFrames /\ Len(body) <= MaxInt \div pcmBytesPerFrame
      /\ \E frames \in 0..Len(body) : Done(frames)
  BY <1>1, SecondPass
<1>3. BodyArrived' /\ Whole' = Whole
  BY <1>1, <1>2, SameBody
<1>4. PICK frames \in 0..Len(body) : Done(frames)
  BY <1>2
<1>5. /\ frames + 1 \in 1..Len(body) /\ size \in 0..61
      /\ size > 0 => Ends(body)[frames + 1] = offset + size
      /\ size = 0 => ~Whole
      /\ Ends(body)[frames + 1] > length => ~Whole
  BY <1>2, <1>4, FrameSeen DEF Done
<1> HIDE DEF size
<1>6. offset' = Ends(body)[frames + 1] /\ offset' \in 0..length /\ frames + 1 \in 0..Len(body)
  BY <1>1, <1>2, <1>5
<1>7. Done(frames + 1)'
  BY <1>1, <1>4, <1>6 DEF Done, pcmBytesPerFrame
<1>8. InSecondPass'
  BY <1>1, <1>2, <1>3, <1>6, <1>7 DEF InSecondPass
<1>9. FrameTypeOK' /\ Counted'
  BY <1>1, <1>2, <1>6 DEF FrameTypeOK, Counted
<1> QED BY <1>1, <1>3, <1>8, <1>9 DEF FrameInv, AcceptedIsWhole, RefusedForAReason

LEMMA DecodedInv == ASSUME FrameInv, Decoded PROVE FrameInv'
<1>1. /\ UNCHANGED <<body, length, maxFrames, offset, count, pcm, prevMode, toRead, position>>
      /\ phase = "decode" /\ phase' = "accepted" /\ offset >= length
  BY DEF Decoded
<1>2. /\ BodyArrived /\ FrameTypeOK /\ Counted /\ Whole
      /\ Len(body) \in Nat /\ MaxInt \in Nat
      /\ Len(body) <= maxFrames /\ Len(body) <= MaxInt \div pcmBytesPerFrame
      /\ \E frames \in 0..Len(body) : Done(frames)
  BY <1>1, SecondPass
<1>3. BodyArrived' /\ Whole' = Whole
  BY <1>1, <1>2, SameBody
<1>4. PICK frames \in 0..Len(body) : Done(frames)
  BY <1>2
<1>5. frames = Len(body)
  BY <1>1, <1>2, <1>4, AllSeen DEF Done
<1>6. pcm = Len(body) * 640 /\ pcm <= MaxInt
  BY <1>2, <1>4, <1>5 DEF Done, pcmBytesPerFrame
<1>7. AcceptedIsWhole'
  BY <1>1, <1>2, <1>3, <1>6 DEF AcceptedIsWhole, pcmBytesPerFrame
<1>8. FrameTypeOK' /\ Counted'
  BY <1>1, <1>2 DEF FrameTypeOK, Counted, Outcomes
<1> QED BY <1>1, <1>3, <1>7, <1>8 DEF FrameInv, InSecondPass, RefusedForAReason

LEMMA FrameNextInv == ASSUME FrameInv, [FrameNext]_frameVars PROVE FrameInv'
<1>1. CASE UNCHANGED frameVars
  BY <1>1 DEF frameVars, FrameInv, FrameTypeOK, BodyArrived, Counted, InSecondPass, Done, Whole, Start,
      AcceptedIsWhole, RefusedForAReason
<1> QED BY <1>1, ReceiveInv, CheckLengthInv, ValidateFrameInv, StartDecodingInv, UnpackFrameInv, ReadParameterInv,
      FrameDoneInv, DecodedInv DEF FrameNext

LEMMA HeadersAreFound == ASSUME FrameInv PROVE FramesInStep
<1> SUFFICES ASSUME phase \in {"validate", "decode", "parameters"}
             PROVE  offset = length \/ \E i \in DOMAIN body : offset = Start(i)
  BY DEF FramesInStep
<1>1. BodyArrived /\ length \in Nat /\ offset \in 0..length
  BY EndsOfBody DEF FrameInv, FrameTypeOK
<1>2. \E k \in 0..Len(body) : offset = Ends(body)[k]
  <2>1. CASE phase = "validate"
    BY <2>1 DEF FrameInv, Counted
  <2>2. CASE phase \in {"decode", "parameters"}
    BY <2>2, SecondPass DEF Done
  <2> QED BY <2>1, <2>2
<1>3. PICK k \in 0..Len(body) : offset = Ends(body)[k]
  BY <1>2
<1>4. CASE offset < length
  <2>1. k + 1 \in 1..Len(body)
    BY <1>1, <1>3, <1>4, NextFrameAt
  <2>2. k + 1 \in DOMAIN body /\ (k + 1) - 1 = k
    BY <1>1, <2>1 DEF BodyArrived
  <2> QED BY <1>3, <2>2 DEF Start
<1> QED BY <1>1, <1>4

(* The parsing of a body keeps to its types, for every set of bodies, cuts *)
(* and limits.                                                             *)
THEOREM BodyTypes == FrameSpec => []FrameTypeOK
<1>1. FrameInv => FrameTypeOK
  BY DEF FrameInv
<1> QED BY <1>1, FrameInitInv, FrameNextInv, PTL DEF FrameSpec

(* validateFrames and Decode agree on the frames of every body, what is    *)
(* transcribed is all of it, and what is refused is refused for a reason.  *)
THEOREM EveryBodyIsParsed == FrameSpec => []BodyIsParsed
<1>1. FrameInv => BodyIsParsed
  BY HeadersAreFound DEF FrameInv, BodyIsParsed
<1> QED BY <1>1, FrameInitInv, FrameNextInv, PTL DEF FrameSpec

-----------------------------------------------------------------------------
(* The synthesis: a memory holds the last samples before the subframe until  *)
(* its block is done, and the last samples of it from then on; a vector in   *)
(* ScratchMem holds what its block wrote until the last block that reads it. *)

(* The blocks from the start to those in which a memory is replaced. *)
UpTo1 == {"start", "synthesis"}
UpTo2 == UpTo1 \cup {"deemphasis"}
UpTo3 == UpTo2 \cup {"highpass50"}
UpTo4 == UpTo3 \cup {"oversample"}
UpTo6 == UpTo4 \cup {"noise", "highpass400"}
UpTo8 == UpTo6 \cup {"coefficients", "highband"}
UpTo9 == UpTo8 \cup {"bandpass"}
UpTo10 == UpTo9 \cup {"lowpass"}

(* The last m samples before the subframe, and the last m of it. *)
Latest(signal, m) == [i \in 0..(m - 1) |-> Sample(signal, i - m)]
Newest(signal, m) == [i \in 0..(m - 1) |-> Cell(signal, Length(signal) + i - m, 0)]

(* A memory is replaced in the last of the blocks given. *)
Memory(signal, m, blocks) == IF block \in blocks THEN Latest(signal, m) ELSE Newest(signal, m)

LatestOfTwo(input, output) ==
    [i \in 0..3 |-> IF i = 0 THEN Sample(output, -2) ELSE IF i = 1 THEN Sample(output, -1)
                    ELSE IF i = 2 THEN Sample(input, -1) ELSE Sample(input, -2)]
NewestOfTwo(input, output) ==
    [i \in 0..3 |-> IF i = 0 THEN Cell(output, 62, 0) ELSE IF i = 1 THEN Cell(output, 63, 0)
                    ELSE IF i = 2 THEN Cell(input, 63, 0) ELSE Cell(input, 62, 0)]
MemoryOfTwo(input, output, blocks) == IF block \in blocks THEN LatestOfTwo(input, output) ELSE NewestOfTwo(input, output)

(* A filter's memory holds the samples before the subframe until its block  *)
(* has run and the newest ones from then on.                                *)
MemoriesInv ==
    /\ mem_syn_hi = Memory("hi", M, UpTo1) /\ mem_syn_lo = Memory("lo", M, UpTo1)
    /\ mem_deemph = Memory("deemphasis", 1, UpTo2)
    /\ mem_sig_out = MemoryOfTwo("deemphasis", "hp50", UpTo3)
    /\ mem_oversamp = Memory("hp50", L_UP, UpTo4)
    /\ mem_hp400 = MemoryOfTwo("hp50", "hp400", UpTo6)
    /\ mem_hf = Memory("hf", L_FIR, UpTo9)

(* The past that only the lowest rate has. *)
Extra == 0..(M16k - M - 1)
Was(cell, signal, n) == cell = Zero \/ (cell.signal = signal /\ cell.n = n /\ cell.age \in 1..3 /\ cell = Cell(cell.signal, cell.n, cell.age))

(* The past of the high band: M cells as the other memories, and the extra  *)
(* cells that only the lowest rate writes, which may be of earlier subframes. *)
HighPastInv ==
    /\ DOMAIN mem_syn_hf = 0..(M16k - 1)
    /\ \A i \in (M16k - M)..(M16k - 1) : mem_syn_hf[i] = IF block \in UpTo8 THEN Sample("hf", i - M16k) ELSE Cell("hf", 60 + i, 0)
    /\ IF block \in UpTo8 \/ FilterOrder = M THEN \A i \in Extra : Was(mem_syn_hf[i], "hf", 60 + i)
       ELSE \A i \in Extra : mem_syn_hf[i] = Cell("hf", 60 + i, 0)
    /\ speech /\ rate # "lowest" => \A i \in Extra : mem_syn_hf[i] = Zero
    /\ speech /\ rate = "lowest" /\ block = "start" => \A i \in Extra : mem_syn_hf[i] = Sample("hf", i - M16k)

(* The memory of the low-pass filter, which only the highest rate runs.     *)
BandPastInv ==
    /\ DOMAIN mem_hf3 = 0..(L_FIR - 1)
    /\ IF block \in UpTo10 \/ rate # "highest" THEN \A i \in 0..(L_FIR - 1) : Was(mem_hf3[i], "band", 50 + i)
       ELSE \A i \in 0..(L_FIR - 1) : mem_hf3[i] = Cell("band", 50 + i, 0)
    /\ block = "start" /\ rate = "highest" => \A i \in 0..(L_FIR - 1) : mem_hf3[i] = Sample("band", i - L_FIR)

(* The vectors that one block leaves for the next, in the scratch area and  *)
(* in the output.                                                           *)
Holds(from, signal, len) == \A n \in 0..(len - 1) : scratch[from + n] = Cell(signal, n, 0)
Out(signal) == \A n \in 0..(L_SUBFR16k - 1) : synth16k[n] = Cell(signal, n, 0)

ScratchInv ==
    /\ block = "deemphasis" => Holds(M, "hi", L_SYN) /\ Holds(synth_lo + M, "lo", L_SYN)
    /\ block = "highpass50" => Holds(synth, "deemphasis", L_SYN)
    /\ block \in {"oversample", "noise", "highpass400"} => Holds(synth, "hp50", L_SYN)
    /\ block \in {"noise", "highpass400", "coefficients", "highband", "bandpass", "lowpass", "add"} => Out("up")
    /\ block = "highpass400" => Holds(HF, "white", L_SUBFR16k)
    /\ block \in {"coefficients", "highband"} => Holds(HF, "noise", L_SUBFR16k)
    /\ block = "highband" => \A n \in 0..FilterOrder : scratch[Ap + n] = Cell("weighted", n, 0)
    /\ block = "bandpass" => Holds(HF, "hf", L_SUBFR16k)
    /\ block = "lowpass" => Holds(HF, "band", L_SUBFR16k) /\ rate = "highest"
    /\ block = "add" => Holds(HF, IF rate = "highest" THEN "low" ELSE "band", L_SUBFR16k)
    /\ block = "end" => Out("output")

(* The domains of the arrays.                                               *)
Arrays ==
    /\ block \in UpTo10 \cup {"add", "end"}
    /\ DOMAIN scratch = 0..345 /\ DOMAIN synth16k = 0..79
    /\ rate \in {"lowest", "middle", "highest"} /\ speech \in BOOLEAN /\ fresh \in BOOLEAN

(* What every block of a subframe preserves.                                *)
SynthesisInv == Arrays /\ MemoriesInv /\ HighPastInv /\ BandPastInv /\ ScratchInv

(* Where the vectors are. *)
LEMMA Layout ==
    /\ M = 16 /\ M16k = 20 /\ L_SYN = 64 /\ L_SUBFR16k = 80 /\ L_FIR = 30 /\ L_UP = 24
    /\ synth_hi = 0 /\ synth_lo = 80 /\ synth = 160 /\ HF = 224 /\ Ap = 304 /\ HfA = 325 /\ ScratchMem2 = 346
BY DEF M, M16k, L_SYN, L_SUBFR16k, L_FIR, L_UP, synth_hi, synth_lo, synth, HF, Ap, HfA, ScratchMem2

LEMMA Lengths ==
    /\ Length("hi") = 64 /\ Length("lo") = 64 /\ Length("deemphasis") = 64 /\ Length("hp50") = 64
    /\ Length("hp400") = 64 /\ Length("hf") = 80 /\ Length("band") = 80
BY Layout DEF Length, Low

LEMMA Shift ==
    ASSUME NEW from \in Nat, NEW k \in 0..(345 - from)
    PROVE  from + k \in 0..345 /\ (from + k) - from = k
OBVIOUS

(* Put writes a vector into ScratchMem, *)
LEMMA PutIs ==
    ASSUME NEW array, DOMAIN array = 0..345, NEW from \in Nat, NEW v, \A k \in DOMAIN v : k \in 0..(345 - from)
    PROVE  /\ DOMAIN Put(array, from, v) = 0..345
           /\ \A k \in DOMAIN v : Put(array, from, v)[from + k] = v[k]
<1>1. ASSUME NEW k \in DOMAIN v PROVE from + k \in 0..345 /\ (from + k) - from = k
  <2>1. k \in 0..(345 - from)
    OBVIOUS
  <2> QED BY <2>1, Shift
<1>2. DOMAIN array \cup {from + k : k \in DOMAIN v} = 0..345
  BY <1>1
<1>3. Put(array, from, v) = [i \in 0..345 |-> IF i - from \in DOMAIN v THEN v[i - from] ELSE array[i]]
  BY <1>2, Zenon DEF Put
<1> QED BY <1>1, <1>3

(* The same, so that the provers see no numbers. *)
IsScratch(array) == DOMAIN array = 0..345
HoldsFrom(array, from, v) == \A k \in DOMAIN v : array[from + k] = v[k]
FitsScratch(v, from) == \A k \in DOMAIN v : k \in 0..(345 - from)

LEMMA PutFits ==
    ASSUME NEW array, IsScratch(array), NEW from \in Nat, NEW v, FitsScratch(v, from)
    PROVE  IsScratch(Put(array, from, v)) /\ HoldsFrom(Put(array, from, v), from, v)
BY PutIs DEF FitsScratch, IsScratch, HoldsFrom

(* It leaves the rest of ScratchMem alone. *)
LEMMA PutKeeps ==
    ASSUME NEW array, DOMAIN array = 0..345, NEW from \in Nat, NEW v, \A k \in DOMAIN v : k \in 0..(345 - from),
           NEW i \in DOMAIN array, i - from \notin DOMAIN v
    PROVE  Put(array, from, v)[i] = array[i]
BY Zenon DEF Put

(* Put appends a vector to one in front of it. *)
LEMMA AppendNew ==
    ASSUME NEW m \in Nat, NEW past, NEW v, \A k \in DOMAIN v : k \in Nat, NEW k \in DOMAIN v
    PROVE  Put(past, m, v)[m + k] = v[k]
<1>1. (m + k) - m = k
  OBVIOUS
<1>2. m + k \in DOMAIN past \cup {m + j : j \in DOMAIN v}
  OBVIOUS
<1>3. Put(past, m, v) = [i \in DOMAIN past \cup {m + j : j \in DOMAIN v} |-> IF i - m \in DOMAIN v THEN v[i - m] ELSE past[i]]
  BY Zenon DEF Put
<1> HIDE DEF Put
<1> QED BY <1>1, <1>2, <1>3

LEMMA AppendOld ==
    ASSUME NEW m \in Nat, NEW past, NEW v, \A k \in DOMAIN v : k \in Nat, NEW k \in DOMAIN past, k \in 0..(m - 1)
    PROVE  Put(past, m, v)[k] = past[k]
<1>1. k - m \notin DOMAIN v
  OBVIOUS
<1> QED BY <1>1, Zenon DEF Put

(* A synthesis filter whose past is its latest output goes on with it. *)
LEMMA SynthesisGoesOn ==
    ASSUME NEW signal, NEW past, past = Latest(signal, M)
    PROVE  LET x == Put(past, M, Syn_filt_32(signal, past))
           IN  DOMAIN x = 0..79 /\ \A n \in 0..63 : x[16 + n] = Cell(signal, n, 0)
<1>1. DOMAIN past = 0..15 /\ \A k \in 0..15 : past[k] = Sample(signal, k - 16)
  BY Layout DEF Latest
<1> DEFINE v == Syn_filt_32(signal, past)
<1>2. v = [n \in 0..63 |-> IF \A k \in 0..15 : n + k >= 16 \/ past[n + k] = Sample(signal, n + k - 16)
                         THEN Cell(signal, n, 0) ELSE Wrong]
  BY DEF Syn_filt_32, Recursive, M, L_SYN
<1>3. ASSUME NEW n \in 0..63, NEW k \in 0..15 PROVE n + k >= 16 \/ past[n + k] = Sample(signal, n + k - 16)
  BY <1>1
<1>4. DOMAIN v = 0..63 /\ \A n \in 0..63 : v[n] = Cell(signal, n, 0)
  BY <1>2, <1>3
<1> HIDE DEF v
<1>5. DOMAIN Put(past, 16, v) = DOMAIN past \cup {16 + k : k \in DOMAIN v}
  BY Zenon DEF Put
<1>7. \A k \in DOMAIN v : Put(past, 16, v)[16 + k] = v[k]
  BY <1>4, AppendNew
<1>6. 0..15 \cup {16 + k : k \in 0..63} = 0..79
  OBVIOUS
<1>8. DOMAIN Put(past, 16, v) = 0..79
  BY <1>1, <1>4, <1>5, <1>6
<1> QED BY <1>4, <1>7, <1>8, Layout DEF v

LEMMA HighpassIs ==
    ASSUME NEW input, NEW output, NEW signal, signal = [n \in 0..63 |-> Cell(input, n, 0)]
    PROVE  /\ highpass(input, output, signal, LatestOfTwo(input, output)) = [n \in 0..63 |-> Cell(output, n, 0)]
           /\ highpassMemory(signal, [n \in 0..63 |-> Cell(output, n, 0)]) = NewestOfTwo(input, output)
<1>1. \A n \in 0..63 : signal[n] = Sample(input, n)
  BY DEF Sample
<1>2. highpass(input, output, signal, LatestOfTwo(input, output)) = [n \in 0..63 |-> Cell(output, n, 0)]
  BY <1>1, Layout DEF highpass, LatestOfTwo
<1>3. highpassMemory(signal, [n \in 0..63 |-> Cell(output, n, 0)]) = NewestOfTwo(input, output)
  BY Layout DEF highpassMemory, NewestOfTwo
<1> QED BY <1>2, <1>3

(* Four fifths of every position, exactly. *)
LEMMA Fifths ==
    ASSUME NEW j \in 0..79
    PROVE  /\ UpPosition(j) \in 0..63
           /\ 5 * UpPosition(j) + (IF j % 5 = 0 THEN 0 ELSE 4 - UpPhase(j)) = 4 * j
<1>1. PICK q \in 0..15, r \in 0..4 : j = 5 * q + r
  <2>1. j = 5 * (j \div 5) + (j % 5) /\ j \div 5 \in 0..15 /\ j % 5 \in 0..4
    OBVIOUS
  <2> QED BY <2>1
<1>2. j % 5 = r
  BY <1>1
<1>3. UpPosition(j) = 4 * q + (IF r = 0 THEN 0 ELSE r - 1)
  BY <1>1 DEF UpPosition
<1> QED BY <1>1, <1>2, <1>3 DEF UpPhase

LEMMA UpIs ==
    ASSUME NEW signal,
           \A i \in 0..87 : signal[i] = Sample("hp50", i - 24)
    PROVE  AmrWbUp_samp(signal) = [j \in 0..79 |-> Cell("up", j, 0)]
<1>1. ASSUME NEW j \in 0..79, NEW k \in 1..24
      PROVE  signal[UpPosition(j) + k] = Sample("hp50", UpPosition(j) + k - 24)
  <2> DEFINE i == UpPosition(j) + k
  <2>1. UpPosition(j) \in 0..63
    BY Fifths
  <2>2. i \in 0..87
    BY <2>1
  <2> HIDE DEF i
  <2>3. signal[i] = Sample("hp50", i - 24)
    BY <2>2, SMTT(30)
  <2>4. i - 24 = UpPosition(j) + k - 24
    BY <2>1 DEF i
  <2> QED BY <2>3, <2>4, Zenon DEF i
<1> DEFINE Right(j) == /\ 5 * UpPosition(j) + (IF j % 5 = 0 THEN 0 ELSE 4 - UpPhase(j)) = 4 * j
                       /\ \A k \in 1..L_UP : signal[UpPosition(j) + k] = Sample("hp50", UpPosition(j) + k - L_UP)
<1>2. \A j \in 0..79 : Right(j)
  BY <1>1, Fifths, Layout
<1>3. AmrWbUp_samp(signal) = [j \in 0..(L_SUBFR16k - 1) |-> IF Right(j) THEN Cell("up", j, 0) ELSE Wrong]
  BY Zenon DEF AmrWbUp_samp
<1> HIDE DEF Right
<1> QED BY <1>2, <1>3, Layout

-----------------------------------------------------------------------------
(* The initial state and a reset. *)

LEMMA ZeroPast ==
    ASSUME fresh = TRUE
    PROVE  /\ \A m \in Nat : \A signal : Zeros(m) = Latest(signal, m)
           /\ \A input, output : Zeros(4) = LatestOfTwo(input, output)
<1>1. \A signal : \A n \in Int : n < 0 => Sample(signal, n) = Zero
  BY DEF Sample
<1>2. ASSUME NEW m \in Nat, NEW signal PROVE Zeros(m) = Latest(signal, m)
  BY <1>1 DEF Zeros, Latest
<1>3. ASSUME NEW input, NEW output PROVE Zeros(4) = LatestOfTwo(input, output)
  BY <1>1 DEF Zeros, LatestOfTwo
<1> QED BY <1>2, <1>3

(* Every memory is clear, and no subframe was. *)
Cleared ==
    /\ block = "start" /\ fresh = TRUE
    /\ mem_syn_hi = Zeros(M) /\ mem_syn_lo = Zeros(M) /\ mem_deemph = Zeros(1) /\ mem_sig_out = Zeros(4)
    /\ mem_oversamp = Zeros(L_UP) /\ mem_hp400 = Zeros(4)
    /\ mem_syn_hf = Zeros(M16k) /\ mem_hf = Zeros(L_FIR) /\ mem_hf3 = Zeros(L_FIR)

LEMMA ClearedInv ==
    ASSUME Cleared
    PROVE  MemoriesInv /\ HighPastInv /\ BandPastInv /\ ScratchInv
<1> USE Layout DEF Cleared
<1>1. block \in UpTo1 /\ block \in UpTo2 /\ block \in UpTo3 /\ block \in UpTo4 /\ block \in UpTo6 /\ block \in UpTo8
      /\ block \in UpTo9 /\ block \in UpTo10
  BY DEF UpTo1, UpTo2, UpTo3, UpTo4, UpTo6, UpTo8, UpTo9, UpTo10
<1>2. MemoriesInv
  BY <1>1, ZeroPast DEF MemoriesInv, Memory, MemoryOfTwo
<1>3. /\ DOMAIN mem_syn_hf = 0..19 /\ \A i \in 0..19 : mem_syn_hf[i] = Zero
      /\ DOMAIN mem_hf3 = 0..29 /\ \A i \in 0..29 : mem_hf3[i] = Zero
  BY DEF Zeros
<1>4. \A signal : \A n \in Int : n < 0 => Sample(signal, n) = Zero
  BY DEF Sample
<1>5. HighPastInv
  <2>1. \A i \in 4..19 : Sample("hf", i - 20) = Zero
    BY <1>4
  <2>2. \A i \in 0..3 : Sample("hf", i - 20) = Zero
    BY <1>4
  <2> QED BY <1>1, <1>3, <2>1, <2>2 DEF HighPastInv, Extra, Was
<1>6. BandPastInv
  <2>1. \A i \in 0..29 : Sample("band", i - 30) = Zero
    BY <1>4
  <2> QED BY <1>1, <1>3, <2>1 DEF BandPastInv, Was
<1>7. ScratchInv
  BY DEF ScratchInv
<1> QED BY <1>2, <1>5, <1>6, <1>7

LEMMA SynthesisInitInv == SynthesisInit => SynthesisInv
<1> SUFFICES ASSUME SynthesisInit PROVE SynthesisInv
  OBVIOUS
<1>1. Cleared
  BY DEF Cleared, SynthesisInit
<1>2. Arrays
  BY Layout DEF Arrays, SynthesisInit, Zeros, UpTo10, UpTo9, UpTo8, UpTo6, UpTo4, UpTo3, UpTo2, UpTo1
<1> QED BY <1>1, <1>2, ClearedInv DEF SynthesisInv

LEMMA ResetMemoriesInv == SynthesisInv /\ ResetMemories => SynthesisInv'
<1> SUFFICES ASSUME SynthesisInv, ResetMemories PROVE SynthesisInv'
  OBVIOUS
<1>1. Cleared'
  BY DEF Cleared, ResetMemories, Zeros, Zero, Cell, M, M16k, L_UP, L_FIR
<1>2. Arrays'
  BY DEF Arrays, SynthesisInv, ResetMemories
<1>3. (MemoriesInv /\ HighPastInv /\ BandPastInv /\ ScratchInv)'
  BY <1>1, ClearedInv, PTL
<1> QED BY <1>2, <1>3 DEF SynthesisInv

-----------------------------------------------------------------------------
(* The blocks.  Each leaves alone the memories of the others.              *)

LEMMA MemoryKept ==
    ASSUME NEW blocks, fresh' = fresh, block \in blocks <=> block' \in blocks
    PROVE  /\ \A signal, m : Memory(signal, m, blocks)' = Memory(signal, m, blocks)
           /\ \A input, output : MemoryOfTwo(input, output, blocks)' = MemoryOfTwo(input, output, blocks)
<1>1. \A signal, n : Sample(signal, n)' = Sample(signal, n)
  BY DEF Sample
<1>2. \A signal, m : Latest(signal, m)' = Latest(signal, m)
  BY <1>1 DEF Latest, Sample
<1>3. \A input, output : LatestOfTwo(input, output)' = LatestOfTwo(input, output)
  BY <1>1 DEF LatestOfTwo, Sample
<1> QED BY <1>2, <1>3 DEF Memory, MemoryOfTwo, Newest, NewestOfTwo

Inner == /\ block # "start" /\ block' # "start" /\ UNCHANGED <<rate, speech, fresh>>

LEMMA HighPastKept ==
    ASSUME HighPastInv, Inner, mem_syn_hf' = mem_syn_hf, block \in UpTo8 <=> block' \in UpTo8
    PROVE  HighPastInv'
<1>1. \A signal, n : Sample(signal, n)' = Sample(signal, n)
  BY DEF Sample, Inner
<1> QED BY <1>1 DEF HighPastInv, FilterOrder, Inner, Was, Extra, Cell, Zero

LEMMA BandPastKept ==
    ASSUME BandPastInv, Inner, mem_hf3' = mem_hf3, block \in UpTo10 <=> block' \in UpTo10
    PROVE  BandPastInv'
BY DEF BandPastInv, Inner, Was

LEMMA SynthesiseInv == SynthesisInv /\ Synthesise => SynthesisInv'
<1> SUFFICES ASSUME SynthesisInv, Synthesise PROVE SynthesisInv'
  OBVIOUS
<1>1. block = "synthesis" /\ block' = "deemphasis" /\ Inner
  BY DEF Synthesise, Inner
<1>2. \A s \in {UpTo2, UpTo3, UpTo4, UpTo6, UpTo8, UpTo9, UpTo10} : block \in s /\ block' \in s
  BY <1>1 DEF UpTo2, UpTo3, UpTo4, UpTo6, UpTo8, UpTo9, UpTo10, UpTo1
<1>3. block \in UpTo1 /\ block' \notin UpTo1
  BY <1>1 DEF UpTo1
<1>4. HighPastInv' /\ BandPastInv'
  BY <1>1, <1>2, HighPastKept, BandPastKept DEF SynthesisInv, Synthesise
<1> DEFINE hi == Put(mem_syn_hi, M, Syn_filt_32("hi", mem_syn_hi))
           lo == Put(mem_syn_lo, M, Syn_filt_32("lo", mem_syn_lo))
<1>6. mem_syn_hi = Latest("hi", M) /\ mem_syn_lo = Latest("lo", M)
  BY <1>3 DEF SynthesisInv, MemoriesInv, Memory
<1>7. /\ DOMAIN hi = 0..79 /\ \A n \in 0..63 : hi[16 + n] = Cell("hi", n, 0)
      /\ DOMAIN lo = 0..79 /\ \A n \in 0..63 : lo[16 + n] = Cell("lo", n, 0)
  BY <1>6, SynthesisGoesOn
<1>8. /\ scratch' = Put(Put(scratch, 0, hi), 80, lo)
      /\ mem_syn_hi' = Part(hi, 64, 16) /\ mem_syn_lo' = Part(lo, 64, 16)
  BY Layout DEF Synthesise
<1> HIDE DEF hi, lo
<1>9. mem_syn_hi' = Newest("hi", M) /\ mem_syn_lo' = Newest("lo", M)
  <2>1. \A i \in 0..15 : hi[64 + i] = Cell("hi", 48 + i, 0) /\ lo[64 + i] = Cell("lo", 48 + i, 0)
    <3>1. \A i \in 0..15 : 48 + i \in 0..63 /\ 64 + i = 16 + (48 + i)
      OBVIOUS
    <3> QED BY <1>7, <3>1
  <2> QED BY <1>8, <2>1, Layout, Lengths DEF Part, Newest
<1>10. MemoriesInv'
  <2>1. Memory("hi", M, UpTo1)' = Newest("hi", M) /\ Memory("lo", M, UpTo1)' = Newest("lo", M)
    BY <1>3, SMTT(30) DEF Memory, Newest, Cell, Length, Low
  <2> QED BY <1>1, <1>2, <1>9, <2>1, MemoryKept DEF MemoriesInv, SynthesisInv, Synthesise, Inner
<1>11. /\ DOMAIN scratch' = 0..345
       /\ \A n \in 0..63 : scratch'[16 + n] = Cell("hi", n, 0) /\ scratch'[96 + n] = Cell("lo", n, 0)
  <2> DEFINE s == Put(scratch, 0, hi)
  <2>1. DOMAIN s = 0..345 /\ \A k \in 0..79 : s[0 + k] = hi[k]
    BY <1>7, PutIs, SMTT(30) DEF SynthesisInv, Arrays
  <2> HIDE DEF s
  <2>2. DOMAIN Put(s, 80, lo) = 0..345 /\ \A k \in 0..79 : Put(s, 80, lo)[80 + k] = lo[k]
    BY <1>7, <2>1, PutIs, SMTT(30)
  <2>5. \A i \in 0..345 : i < 80 => Put(s, 80, lo)[i] = s[i]
    <3>1. \A i \in 0..345 : i < 80 => i - 80 \notin DOMAIN lo
      BY <1>7
    <3>2. \A k \in DOMAIN lo : k \in 0..(345 - 80)
      BY <1>7
    <3>3. \A i \in DOMAIN s : i - 80 \notin DOMAIN lo => Put(s, 80, lo)[i] = s[i]
      BY <2>1, <3>2, PutKeeps
    <3> QED BY <2>1, <3>1, <3>3
  <2>3. scratch' = Put(s, 80, lo)
    BY <1>8 DEF s
  <2>4. \A n \in 0..63 : scratch'[16 + n] = s[0 + (16 + n)] /\ scratch'[80 + (16 + n)] = lo[16 + n]
    BY <2>2, <2>3, <2>5
  <2> QED BY <1>7, <2>1, <2>2, <2>3, <2>4
<1>12. Arrays'
  BY <1>1, <1>2, <1>11 DEF SynthesisInv, Arrays, Synthesise, Inner
<1>13. ScratchInv'
  BY <1>1, <1>11, Layout DEF ScratchInv, Holds, Cell, L_SYN, M, synth_lo
<1> QED BY <1>4, <1>10, <1>12, <1>13 DEF SynthesisInv

LEMMA StartSubframeInv == SynthesisInv /\ StartSubframe => SynthesisInv'
<1> SUFFICES ASSUME SynthesisInv, StartSubframe PROVE SynthesisInv'
  OBVIOUS
<1>1. block = "start" /\ block' = "synthesis" /\ fresh' = fresh
  BY DEF StartSubframe
<1>2. \A s \in {UpTo1, UpTo2, UpTo3, UpTo4, UpTo6, UpTo8, UpTo9, UpTo10} : block \in s /\ block' \in s
  BY <1>1 DEF UpTo1, UpTo2, UpTo3, UpTo4, UpTo6, UpTo8, UpTo9, UpTo10
<1>3. MemoriesInv'
  BY <1>1, <1>2, MemoryKept DEF MemoriesInv, SynthesisInv, StartSubframe
<1>4. Arrays'
  <2>1. scratch' = [i \in 0..345 |-> Wrong]
    BY Layout DEF StartSubframe
  <2>2. DOMAIN scratch' = 0..345
    BY <2>1
  <2>3. rate' \in {"lowest", "middle", "highest"} /\ speech' \in BOOLEAN /\ synth16k' = synth16k
    BY DEF StartSubframe
  <2> QED BY <1>1, <1>2, <2>2, <2>3 DEF SynthesisInv, Arrays
<1>5. ScratchInv'
  BY <1>1 DEF ScratchInv
<1>6. BandPastInv'
  BY <1>1, <1>2 DEF BandPastInv, SynthesisInv, StartSubframe, Was
<1>7. HighPastInv'
  <2>1. \A n \in Int : Sample("hf", n)' = Sample("hf", n)
    BY <1>1 DEF Sample
  <2>2. /\ DOMAIN mem_syn_hf = 0..19 /\ \A i \in 4..19 : mem_syn_hf[i] = Sample("hf", i - 20)
        /\ \A i \in 0..3 : Was(mem_syn_hf[i], "hf", 60 + i)
    BY <1>2, Layout DEF SynthesisInv, HighPastInv, Extra
  <2>3. CASE speech' /\ rate' # "lowest"
    <3>1. mem_syn_hf' = Put(mem_syn_hf, 0, Zeros(4))
      BY <2>3, Layout DEF StartSubframe, ClearedPast
    <3>2. DOMAIN Zeros(4) = 0..3 /\ \A i \in 0..3 : Zeros(4)[i] = Zero
      BY DEF Zeros
    <3>3. DOMAIN mem_syn_hf \cup {0 + k : k \in DOMAIN Zeros(4)} = 0..19
      BY <2>2, <3>2
    <3>4. mem_syn_hf' = [i \in 0..19 |-> IF i - 0 \in DOMAIN Zeros(4) THEN Zeros(4)[i - 0] ELSE mem_syn_hf[i]]
      BY <3>1, <3>3, Zenon DEF Put
    <3>5. /\ DOMAIN mem_syn_hf' = 0..19 /\ \A i \in 4..19 : mem_syn_hf'[i] = mem_syn_hf[i]
          /\ \A i \in 0..3 : mem_syn_hf'[i] = Zero
      BY <3>2, <3>4
    <3> QED BY <1>1, <1>2, <2>1, <2>2, <2>3, <3>5, Layout DEF HighPastInv, Extra, Was, M, M16k, Zero, Cell
  <2>4. CASE ~(speech' /\ rate' # "lowest")
    <3>1. mem_syn_hf' = mem_syn_hf
      BY <2>4 DEF StartSubframe
    <3> QED BY <1>1, <1>2, <2>1, <2>2, <2>4, <3>1 DEF HighPastInv, Extra, Was, M, M16k, Zero, Cell
  <2> QED BY <2>3, <2>4
<1> QED BY <1>3, <1>4, <1>5, <1>6, <1>7 DEF SynthesisInv

LEMMA DeemphasiseInv == SynthesisInv /\ Deemphasise => SynthesisInv'
<1> SUFFICES ASSUME SynthesisInv, Deemphasise PROVE SynthesisInv'
  OBVIOUS
<1>1. block = "deemphasis" /\ block' = "highpass50" /\ Inner
  BY DEF Deemphasise, Inner
<1>2. \A s \in {UpTo3, UpTo4, UpTo6, UpTo8, UpTo9, UpTo10} : block \in s /\ block' \in s
  BY <1>1 DEF UpTo2, UpTo3, UpTo4, UpTo6, UpTo8, UpTo9, UpTo10, UpTo1
<1>3. block \in UpTo2 /\ block' \notin UpTo2 /\ block \notin UpTo1 /\ block' \notin UpTo1
  BY <1>1 DEF UpTo1, UpTo2
<1>4. HighPastInv' /\ BandPastInv'
  BY <1>1, <1>2, HighPastKept, BandPastKept DEF SynthesisInv, Deemphasise
<1> DEFINE y == deemphasis_32(At(synth_hi + M, L_SYN), At(synth_lo + M, L_SYN), mem_deemph)
<1>5. DOMAIN y = 0..63 /\ \A n \in 0..63 : y[n] = Cell("deemphasis", n, 0)
  <2>1. \A n \in 0..63 : scratch[16 + n] = Sample("hi", n) /\ scratch[96 + n] = Sample("lo", n)
    BY <1>1, Layout DEF SynthesisInv, ScratchInv, Holds, Sample
  <2>2. mem_deemph[0] = Sample("deemphasis", -1)
    <3>1. mem_deemph = [i \in 0..0 |-> Sample("deemphasis", i - 1)]
      BY <1>3 DEF SynthesisInv, MemoriesInv, Memory, Latest
    <3> QED BY <3>1
  <2>3. y = [n \in 0..63 |-> IF At(16, 64)[n] = Sample("hi", n) /\ At(96, 64)[n] = Sample("lo", n)
                                 /\ mem_deemph[0] = Sample("deemphasis", -1)
                             THEN Cell("deemphasis", n, 0) ELSE Wrong]
    BY Layout DEF deemphasis_32
  <2>4. \A n \in 0..63 : At(16, 64)[n] = scratch[16 + n] /\ At(96, 64)[n] = scratch[96 + n]
    BY DEF At
  <2> QED BY <2>1, <2>2, <2>3, <2>4
<1>6. scratch' = Put(scratch, 160, y) /\ mem_deemph' = Part(y, 63, 1)
  BY Layout DEF Deemphasise
<1> HIDE DEF y
<1>7. MemoriesInv'
  <2>1. mem_deemph' = Newest("deemphasis", 1)
    <3>1. \A i \in 0..0 : y[63 + i] = Cell("deemphasis", 64 + i - 1, 0)
      BY <1>5
    <3> QED BY <1>6, <3>1, Lengths DEF Part, Newest
  <2>2. Memory("deemphasis", 1, UpTo2)' = Newest("deemphasis", 1)
    BY <1>3 DEF Memory, Newest, Cell, Length, Low
  <2> QED BY <1>1, <1>2, <1>3, <2>1, <2>2, MemoryKept DEF MemoriesInv, SynthesisInv, Deemphasise, Inner
<1>8. DOMAIN scratch' = 0..345 /\ \A n \in 0..63 : scratch'[160 + n] = Cell("deemphasis", n, 0)
  <2>1. DOMAIN scratch = 0..345 /\ \A k \in DOMAIN y : k \in 0..(345 - 160)
    BY <1>5 DEF SynthesisInv, Arrays
  <2>2. DOMAIN Put(scratch, 160, y) = 0..345 /\ \A k \in DOMAIN y : Put(scratch, 160, y)[160 + k] = y[k]
    BY <2>1, PutIs
  <2> QED BY <1>5, <1>6, <2>2
<1>9. Arrays'
  BY <1>1, <1>2, <1>8 DEF SynthesisInv, Arrays, Deemphasise, Inner
<1>10. ScratchInv'
  BY <1>1, <1>8, Layout DEF ScratchInv, Holds, Cell, L_SYN, synth
<1> QED BY <1>4, <1>7, <1>9, <1>10 DEF SynthesisInv

LEMMA HighPass50Inv == SynthesisInv /\ HighPass50 => SynthesisInv'
<1> SUFFICES ASSUME SynthesisInv, HighPass50 PROVE SynthesisInv'
  OBVIOUS
<1>1. block = "highpass50" /\ block' = "oversample" /\ Inner
  BY DEF HighPass50, Inner
<1>2. \A s \in {UpTo4, UpTo6, UpTo8, UpTo9, UpTo10} : block \in s /\ block' \in s
  BY <1>1 DEF UpTo2, UpTo3, UpTo4, UpTo6, UpTo8, UpTo9, UpTo10, UpTo1
<1>3. /\ block \in UpTo3 /\ block' \notin UpTo3
      /\ \A s \in {UpTo1, UpTo2} : block \notin s /\ block' \notin s
  BY <1>1 DEF UpTo1, UpTo2, UpTo3
<1>4. HighPastInv' /\ BandPastInv'
  BY <1>1, <1>2, HighPastKept, BandPastKept DEF SynthesisInv, HighPass50
<1> DEFINE x == At(synth, L_SYN)
           y == highpass("deemphasis", "hp50", x, mem_sig_out)
<1>5. x = [n \in 0..63 |-> Cell("deemphasis", n, 0)]
  <2>1. \A n \in 0..63 : scratch[160 + n] = Cell("deemphasis", n, 0)
    BY <1>1, Layout DEF SynthesisInv, ScratchInv, Holds
  <2> QED BY <2>1, Layout DEF At
<1>6. mem_sig_out = LatestOfTwo("deemphasis", "hp50")
  BY <1>3 DEF SynthesisInv, MemoriesInv, MemoryOfTwo
<1>7. y = [n \in 0..63 |-> Cell("hp50", n, 0)] /\ mem_sig_out' = NewestOfTwo("deemphasis", "hp50")
  BY <1>5, <1>6, HighpassIs DEF HighPass50
<1>8. scratch' = Put(scratch, 160, y)
  BY Layout DEF HighPass50
<1> HIDE DEF x, y
<1>9. MemoriesInv'
  <2>1. MemoryOfTwo("deemphasis", "hp50", UpTo3)' = NewestOfTwo("deemphasis", "hp50")
    BY <1>3 DEF MemoryOfTwo, NewestOfTwo, Cell
  <2> QED BY <1>1, <1>2, <1>3, <1>7, <2>1, MemoryKept DEF MemoriesInv, SynthesisInv, HighPass50, Inner
<1>10. DOMAIN scratch' = 0..345 /\ \A n \in 0..63 : scratch'[160 + n] = Cell("hp50", n, 0)
  <2>1. DOMAIN y = 0..63 /\ \A n \in 0..63 : y[n] = Cell("hp50", n, 0)
    BY <1>7
  <2> QED BY <1>8, <2>1, PutIs DEF SynthesisInv, Arrays
<1>11. Arrays'
  BY <1>1, <1>2, <1>10 DEF SynthesisInv, Arrays, HighPass50, Inner
<1>12. ScratchInv'
  BY <1>1, <1>10, Layout DEF ScratchInv, Holds, Cell, L_SYN, synth
<1> QED BY <1>4, <1>9, <1>11, <1>12 DEF SynthesisInv

LEMMA OversampleInv == SynthesisInv /\ Oversample => SynthesisInv'
<1> SUFFICES ASSUME SynthesisInv, Oversample PROVE SynthesisInv'
  OBVIOUS
<1>1. block = "oversample" /\ block' = "noise" /\ Inner
  BY DEF Oversample, Inner
<1>2. \A s \in {UpTo6, UpTo8, UpTo9, UpTo10} : block \in s /\ block' \in s
  BY <1>1 DEF UpTo2, UpTo3, UpTo4, UpTo6, UpTo8, UpTo9, UpTo10, UpTo1
<1>3. /\ block \in UpTo4 /\ block' \notin UpTo4
      /\ \A s \in {UpTo1, UpTo2, UpTo3} : block \notin s /\ block' \notin s
  BY <1>1 DEF UpTo1, UpTo2, UpTo3, UpTo4
<1>4. HighPastInv' /\ BandPastInv'
  BY <1>1, <1>2, HighPastKept, BandPastKept DEF SynthesisInv, Oversample
<1> DEFINE v == At(synth, L_SYN)
           signal == Put(mem_oversamp, 24, v)
<1>5. DOMAIN v = 0..63 /\ \A n \in 0..63 : v[n] = Cell("hp50", n, 0)
  <2>1. \A n \in 0..63 : scratch[160 + n] = Cell("hp50", n, 0)
    BY <1>1, Layout DEF SynthesisInv, ScratchInv, Holds
  <2> QED BY <2>1, Layout DEF At
<1>6. DOMAIN mem_oversamp = 0..23 /\ \A k \in 0..23 : mem_oversamp[k] = Sample("hp50", k - 24)
  BY <1>3, Layout DEF SynthesisInv, MemoriesInv, Memory, Latest
<1> HIDE DEF v
<1>7. /\ DOMAIN signal = 0..87 /\ \A k \in 0..23 : signal[k] = Sample("hp50", k - 24)
      /\ \A n \in 0..63 : signal[24 + n] = Cell("hp50", n, 0)
  <2>1. DOMAIN signal = DOMAIN mem_oversamp \cup {24 + k : k \in DOMAIN v}
    BY Zenon DEF Put
  <2>2. 0..23 \cup {24 + k : k \in 0..63} = 0..87
    OBVIOUS
  <2>3. DOMAIN signal = 0..87
    BY <1>5, <1>6, <2>1, <2>2
  <2>4. \A k \in DOMAIN v : signal[24 + k] = v[k]
    BY <1>5, AppendNew
  <2>5. \A k \in DOMAIN mem_oversamp : signal[k] = mem_oversamp[k]
    <3>1. \A k \in DOMAIN mem_oversamp : k \in 0..(24 - 1)
      BY <1>6
    <3>2. \A k \in DOMAIN v : k \in Nat
      BY <1>5
    <3> HIDE DEF v
    <3> QED BY <3>1, <3>2, AppendOld
  <2> HIDE DEF signal
  <2> QED BY <1>5, <1>6, <2>3, <2>4, <2>5
<1>8. scratch' = Put(scratch, 0, signal) /\ synth16k' = AmrWbUp_samp(signal) /\ mem_oversamp' = Part(signal, 64, 24)
  BY Layout DEF Oversample, UpMemory, v
<1> HIDE DEF signal
<1>9. synth16k' = [j \in 0..79 |-> Cell("up", j, 0)]
  <2>1. ASSUME NEW i \in 0..87 PROVE signal[i] = Sample("hp50", i - 24)
    <3>1. CASE i < 24
      BY <1>7, <3>1
    <3>2. CASE i >= 24
      <4>1. i - 24 \in 0..63 /\ 24 + (i - 24) = i
        BY <3>2
      <4>2. signal[24 + (i - 24)] = Cell("hp50", i - 24, 0)
        BY <1>7, <4>1
      <4> QED BY <4>1, <4>2 DEF Sample
    <3> QED BY <3>1, <3>2
  <2> QED BY <1>8, <2>1, UpIs
<1>10. MemoriesInv'
  <2>1. mem_oversamp' = Newest("hp50", L_UP)
    <3>1. ASSUME NEW i \in 0..23 PROVE signal[64 + i] = Cell("hp50", 64 + i - 24, 0)
      <4>1. 40 + i \in 0..63 /\ 24 + (40 + i) = 64 + i /\ 40 + i = 64 + i - 24
        OBVIOUS
      <4> QED BY <1>7, <4>1
    <3> QED BY <1>8, <3>1, Lengths, Layout DEF Part, Newest
  <2>2. Memory("hp50", L_UP, UpTo4)' = Newest("hp50", L_UP)
    BY <1>3 DEF Memory, Newest, Cell, Length, Low
  <2> QED BY <1>1, <1>2, <1>3, <2>1, <2>2, MemoryKept DEF MemoriesInv, SynthesisInv, Oversample, Inner
<1>11. DOMAIN scratch' = 0..345 /\ \A n \in 0..63 : scratch'[160 + n] = Cell("hp50", n, 0)
  <2>1. DOMAIN scratch = 0..345 /\ \A n \in 0..63 : scratch[160 + n] = Cell("hp50", n, 0)
    BY <1>1, Layout DEF SynthesisInv, Arrays, ScratchInv, Holds
  <2>2. \A k \in DOMAIN signal : k \in 0..(345 - 0)
    BY <1>7
  <2>3. DOMAIN Put(scratch, 0, signal) = 0..345
    BY <2>1, <2>2, PutIs
  <2>4. \A i \in DOMAIN scratch : i - 0 \notin DOMAIN signal => Put(scratch, 0, signal)[i] = scratch[i]
    BY <2>1, <2>2, PutKeeps
  <2>5. \A n \in 0..63 : 160 + n \in DOMAIN scratch /\ 160 + n - 0 \notin DOMAIN signal
    BY <1>7, <2>1
  <2> QED BY <1>8, <2>1, <2>3, <2>4, <2>5
<1>12. Arrays'
  BY <1>1, <1>2, <1>9, <1>11 DEF SynthesisInv, Arrays, Oversample, Inner
<1>13. ScratchInv'
  BY <1>1, <1>9, <1>11, Layout DEF ScratchInv, Holds, Out, Cell, L_SYN, synth, L_SUBFR16k
<1> QED BY <1>4, <1>10, <1>12, <1>13 DEF SynthesisInv

LEMMA MakeNoiseInv == SynthesisInv /\ MakeNoise => SynthesisInv'
<1> SUFFICES ASSUME SynthesisInv, MakeNoise PROVE SynthesisInv'
  OBVIOUS
<1>1. block = "noise" /\ block' = "highpass400" /\ Inner /\ UNCHANGED memories /\ UNCHANGED synth16k
  BY DEF MakeNoise, Inner
<1>2. \A s \in {UpTo6, UpTo8, UpTo9, UpTo10} : block \in s /\ block' \in s
  BY <1>1 DEF UpTo2, UpTo3, UpTo4, UpTo6, UpTo8, UpTo9, UpTo10, UpTo1
<1>3. \A s \in {UpTo1, UpTo2, UpTo3, UpTo4} : block \notin s /\ block' \notin s
  BY <1>1 DEF UpTo1, UpTo2, UpTo3, UpTo4
<1>4. HighPastInv' /\ BandPastInv'
  BY <1>1, <1>2, HighPastKept, BandPastKept DEF SynthesisInv, memories
<1>5. MemoriesInv'
  BY <1>1, <1>2, <1>3, MemoryKept DEF MemoriesInv, SynthesisInv, memories, Inner
<1> DEFINE v == [n \in 0..79 |-> Cell("white", n, 0)]
<1>6. scratch' = Put(scratch, 224, v)
  BY Layout DEF MakeNoise
<1>7. DOMAIN v = 0..79 /\ \A n \in 0..79 : v[n] = Cell("white", n, 0)
  OBVIOUS
<1> HIDE DEF v
<1>8. /\ DOMAIN scratch' = 0..345 /\ \A n \in 0..63 : scratch'[160 + n] = Cell("hp50", n, 0)
      /\ \A n \in 0..79 : scratch'[224 + n] = Cell("white", n, 0)
  <2>1. DOMAIN scratch = 0..345 /\ \A n \in 0..63 : scratch[160 + n] = Cell("hp50", n, 0)
    BY <1>1, Layout DEF SynthesisInv, Arrays, ScratchInv, Holds
  <2>2. \A k \in DOMAIN v : k \in 0..(345 - 224)
    BY <1>7
  <2>3. DOMAIN Put(scratch, 224, v) = 0..345 /\ \A k \in DOMAIN v : Put(scratch, 224, v)[224 + k] = v[k]
    BY <2>1, <2>2, PutIs
  <2>4. \A i \in DOMAIN scratch : i - 224 \notin DOMAIN v => Put(scratch, 224, v)[i] = scratch[i]
    BY <2>1, <2>2, PutKeeps
  <2>5. \A n \in 0..63 : 160 + n \in DOMAIN scratch /\ 160 + n - 224 \notin DOMAIN v
    BY <1>7, <2>1
  <2> QED BY <1>6, <1>7, <2>1, <2>3, <2>4, <2>5
<1>9. Arrays'
  BY <1>1, <1>2, <1>8 DEF SynthesisInv, Arrays, Inner
<1>10. ScratchInv'
  <2>1. Out("up")'
    BY <1>1 DEF SynthesisInv, ScratchInv, Out, Cell
  <2> QED BY <1>1, <1>8, <2>1, Layout DEF ScratchInv, Holds, Cell, L_SYN, synth, L_SUBFR16k, HF
<1> QED BY <1>4, <1>5, <1>9, <1>10 DEF SynthesisInv

LEMMA HighPass400Inv == SynthesisInv /\ HighPass400 => SynthesisInv'
<1> SUFFICES ASSUME SynthesisInv, HighPass400 PROVE SynthesisInv'
  OBVIOUS
<1>1. block = "highpass400" /\ block' = "coefficients" /\ Inner /\ UNCHANGED synth16k
  BY DEF HighPass400, Inner
<1>2. \A s \in {UpTo8, UpTo9, UpTo10} : block \in s /\ block' \in s
  BY <1>1 DEF UpTo2, UpTo3, UpTo4, UpTo6, UpTo8, UpTo9, UpTo10, UpTo1
<1>3. /\ block \in UpTo6 /\ block' \notin UpTo6
      /\ \A s \in {UpTo1, UpTo2, UpTo3, UpTo4} : block \notin s /\ block' \notin s
  BY <1>1 DEF UpTo1, UpTo2, UpTo3, UpTo4, UpTo6
<1>4. HighPastInv' /\ BandPastInv'
  BY <1>1, <1>2, HighPastKept, BandPastKept DEF SynthesisInv, HighPass400
<1> DEFINE x == At(synth, L_SYN)
           y == highpass("hp50", "hp400", x, mem_hp400)
           white == At(HF, L_SUBFR16k)
           noise == [n \in DOMAIN white |->
               IF (\A k \in DOMAIN y : y[k] = Cell("hp400", k, 0)) /\ white[n] = Cell("white", n, 0)
               THEN Cell("noise", n, 0) ELSE Wrong]
<1>5. x = [n \in 0..63 |-> Cell("hp50", n, 0)]
  <2>1. \A n \in 0..63 : scratch[160 + n] = Cell("hp50", n, 0)
    BY <1>1, Layout DEF SynthesisInv, ScratchInv, Holds
  <2> QED BY <2>1, Layout DEF At
<1>6. mem_hp400 = LatestOfTwo("hp50", "hp400")
  BY <1>3 DEF SynthesisInv, MemoriesInv, MemoryOfTwo
<1>7. y = [n \in 0..63 |-> Cell("hp400", n, 0)] /\ mem_hp400' = NewestOfTwo("hp50", "hp400")
  BY <1>5, <1>6, HighpassIs DEF HighPass400
<1>8. DOMAIN white = 0..79 /\ \A n \in 0..79 : white[n] = Cell("white", n, 0)
  <2>1. \A n \in 0..79 : scratch[224 + n] = Cell("white", n, 0)
    BY <1>1, Layout DEF SynthesisInv, ScratchInv, Holds
  <2> QED BY <2>1, Layout DEF At
<1>9. DOMAIN y = 0..63 /\ \A k \in DOMAIN y : y[k] = Cell("hp400", k, 0)
  BY <1>7
<1>10. scratch' = Put(Put(scratch, 160, y), 224, noise)
  BY Layout, Zenon DEF HighPass400
<1> HIDE DEF x, y, white
<1>11. DOMAIN noise = 0..79 /\ \A n \in 0..79 : noise[n] = Cell("noise", n, 0)
  BY <1>8, <1>9
<1> HIDE DEF noise
<1>12. MemoriesInv'
  <2>1. MemoryOfTwo("hp50", "hp400", UpTo6)' = NewestOfTwo("hp50", "hp400")
    BY <1>3 DEF MemoryOfTwo, NewestOfTwo, Cell
  <2> QED BY <1>1, <1>2, <1>3, <1>7, <2>1, MemoryKept DEF MemoriesInv, SynthesisInv, HighPass400, Inner
<1>13. DOMAIN scratch' = 0..345 /\ \A n \in 0..79 : scratch'[224 + n] = Cell("noise", n, 0)
  <2> DEFINE s == Put(scratch, 160, y)
  <2>1. DOMAIN scratch = 0..345 /\ \A k \in DOMAIN y : k \in 0..(345 - 160)
    BY <1>9 DEF SynthesisInv, Arrays
  <2>2. DOMAIN s = 0..345
    BY <2>1, PutIs
  <2> HIDE DEF s
  <2>3. FitsScratch(noise, 224)
    BY <1>11 DEF FitsScratch
  <2>5. IsScratch(s)
    BY <2>2 DEF IsScratch
  <2>4. DOMAIN Put(s, 224, noise) = 0..345 /\ \A k \in DOMAIN noise : Put(s, 224, noise)[224 + k] = noise[k]
    BY <2>3, <2>5, PutFits DEF IsScratch, HoldsFrom
  <2> QED BY <1>10, <1>11, <2>4 DEF s
<1>14. Arrays'
  BY <1>1, <1>2, <1>13 DEF SynthesisInv, Arrays, Inner
<1>15. ScratchInv'
  <2>1. Out("up")'
    BY <1>1 DEF SynthesisInv, ScratchInv, Out, Cell
  <2> QED BY <1>1, <1>13, <2>1, Layout DEF ScratchInv, Holds, Cell, L_SUBFR16k, HF
<1> QED BY <1>4, <1>12, <1>14, <1>15 DEF SynthesisInv

LEMMA Orders == FilterOrder \in {16, 20}
BY DEF FilterOrder, M, M16k

LEMMA HighBandCoefficientsInv == SynthesisInv /\ HighBandCoefficients => SynthesisInv'
<1> SUFFICES ASSUME SynthesisInv, HighBandCoefficients PROVE SynthesisInv'
  OBVIOUS
<1>1. block = "coefficients" /\ block' = "highband" /\ Inner /\ UNCHANGED memories /\ UNCHANGED synth16k
  BY DEF HighBandCoefficients, Inner
<1>2. \A s \in {UpTo8, UpTo9, UpTo10} : block \in s /\ block' \in s
  BY <1>1 DEF UpTo2, UpTo3, UpTo4, UpTo6, UpTo8, UpTo9, UpTo10, UpTo1
<1>3. \A s \in {UpTo1, UpTo2, UpTo3, UpTo4, UpTo6} : block \notin s /\ block' \notin s
  BY <1>1 DEF UpTo1, UpTo2, UpTo3, UpTo4, UpTo6
<1>4. HighPastInv' /\ BandPastInv'
  BY <1>1, <1>2, HighPastKept, BandPastKept DEF SynthesisInv, memories
<1>5. MemoriesInv'
  BY <1>1, <1>2, <1>3, MemoryKept DEF MemoriesInv, SynthesisInv, memories, Inner
<1>0. PICK m \in Nat : m = FilterOrder /\ m \in {16, 20}
  BY Orders
<1> DEFINE given == IF m = M16k THEN Put(scratch, HfA, Coefficients("a", M16k)) ELSE scratch
           w == Coefficients("weighted", m)
<1>6. scratch' = Put(given, 304, w)
  BY <1>0, Layout, Zenon DEF HighBandCoefficients
<1>7. DOMAIN w = 0..m /\ \A i \in 0..m : w[i] = Cell("weighted", i, 0)
  BY DEF Coefficients
<1>8. DOMAIN scratch = 0..345 /\ \A n \in 0..79 : scratch[224 + n] = Cell("noise", n, 0)
  BY <1>1, Layout DEF SynthesisInv, Arrays, ScratchInv, Holds
<1>9. DOMAIN given = 0..345 /\ \A n \in 0..79 : given[224 + n] = Cell("noise", n, 0)
  <2> DEFINE a == Coefficients("a", 20)
  <2>1. \A k \in DOMAIN a : k \in 0..(345 - 325)
    BY DEF Coefficients
  <2>2. DOMAIN Put(scratch, 325, a) = 0..345
    <3>1. FitsScratch(a, 325)
      BY <2>1 DEF FitsScratch
    <3> HIDE DEF a
    <3>2. IsScratch(scratch)
      BY <1>8 DEF IsScratch
    <3> QED BY <3>1, <3>2, PutFits DEF IsScratch
  <2>3. \A i \in DOMAIN scratch : i - 325 \notin DOMAIN a => Put(scratch, 325, a)[i] = scratch[i]
    BY <1>8, <2>1, PutKeeps
  <2>4. \A n \in 0..79 : 224 + n \in DOMAIN scratch /\ 224 + n - 325 \notin DOMAIN a
    BY <1>8, <2>1
  <2>5. given = IF m = 20 THEN Put(scratch, 325, a) ELSE scratch
    BY Layout
  <2> HIDE DEF a, given
  <2> QED BY <1>8, <2>2, <2>3, <2>4, <2>5
<1> HIDE DEF given, w
<1>10. /\ DOMAIN scratch' = 0..345 /\ \A n \in 0..79 : scratch'[224 + n] = Cell("noise", n, 0)
       /\ \A n \in 0..m : scratch'[304 + n] = Cell("weighted", n, 0)
  <2>1. \A k \in DOMAIN w : k \in 0..(345 - 304)
    <3>1. \A k \in 0..m : k \in 0..(345 - 304)
      BY <1>0
    <3> QED BY <1>7, <3>1
  <2>2. DOMAIN Put(given, 304, w) = 0..345 /\ \A k \in DOMAIN w : Put(given, 304, w)[304 + k] = w[k]
    BY <1>9, <2>1, PutIs
  <2>3. \A i \in DOMAIN given : i - 304 \notin DOMAIN w => Put(given, 304, w)[i] = given[i]
    BY <1>9, <2>1, PutKeeps
  <2>4. \A n \in 0..79 : 224 + n \in DOMAIN given /\ 224 + n - 304 \notin DOMAIN w
    BY <1>9, <2>1
  <2>5. ASSUME NEW n \in 0..79 PROVE scratch'[224 + n] = given[224 + n]
    <3> DEFINE i == 224 + n
    <3>1. i \in DOMAIN given /\ i - 304 \notin DOMAIN w
      BY <2>4
    <3> HIDE DEF i
    <3>2. scratch'[i] = given[i]
      BY <1>6, <2>3, <3>1, Zenon
    <3> QED BY <3>2 DEF i
  <2>6. \A n \in 0..m : scratch'[304 + n] = w[n]
    BY <1>6, <1>7, <2>2, ZenonT(60)
  <2>7. DOMAIN scratch' = 0..345
    BY <1>6, <2>2
  <2>8. \A n \in 0..79 : scratch'[224 + n] = Cell("noise", n, 0)
    BY <1>9, <2>5
  <2>9. \A n \in 0..m : scratch'[304 + n] = Cell("weighted", n, 0)
    BY <1>7, <2>6
  <2> QED BY <2>7, <2>8, <2>9
<1>11. Arrays'
  BY <1>1, <1>2, <1>10 DEF SynthesisInv, Arrays, Inner
<1>12. ScratchInv'
  <2>1. Out("up")'
    BY <1>1 DEF SynthesisInv, ScratchInv, Out, Cell
  <2>2. Holds(HF, "noise", L_SUBFR16k)'
    BY <1>10 DEF Holds, HF, L_SUBFR16k, Ap, synth, synth_lo, M, L_SYN, Cell
  <2>3. FilterOrder' = FilterOrder
    BY <1>1 DEF Inner, FilterOrder
  <2>4. \A n \in 0..FilterOrder' : scratch'[304 + n] = Cell("weighted", n, 0)
    BY <1>0, <1>10, <2>3
  <2> QED BY <1>1, <2>1, <2>2, <2>4 DEF ScratchInv, Ap, HF, synth, synth_lo, M, L_SYN, L_SUBFR16k, Cell
<1> QED BY <1>4, <1>5, <1>11, <1>12 DEF SynthesisInv

LEMMA HighBandFilterInv == SynthesisInv /\ HighBandFilter => SynthesisInv'
<1> SUFFICES ASSUME SynthesisInv, HighBandFilter PROVE SynthesisInv'
  OBVIOUS
<1>1. block = "highband" /\ block' = "bandpass" /\ Inner /\ UNCHANGED synth16k
  BY DEF HighBandFilter, Inner
<1>2. \A s \in {UpTo9, UpTo10} : block \in s /\ block' \in s
  BY <1>1 DEF UpTo2, UpTo3, UpTo4, UpTo6, UpTo8, UpTo9, UpTo10, UpTo1
<1>3. /\ block \in UpTo8 /\ block' \notin UpTo8
      /\ \A s \in {UpTo1, UpTo2, UpTo3, UpTo4, UpTo6} : block \notin s /\ block' \notin s
  BY <1>1 DEF UpTo1, UpTo2, UpTo3, UpTo4, UpTo6, UpTo8
<1>4. BandPastInv'
  BY <1>1, <1>2, BandPastKept DEF SynthesisInv, HighBandFilter
<1>5. MemoriesInv'
  BY <1>1, <1>2, <1>3, MemoryKept DEF MemoriesInv, SynthesisInv, HighBandFilter, Inner
<1>6. PICK m \in Nat : m = FilterOrder /\ m \in {16, 20}
  BY Orders
<1> DEFINE past == Part(mem_syn_hf, 20 - m, m)
           noise == At(HF, L_SUBFR16k)
           y == wb_syn_filt(noise, past, m)
           mine == IF At(Ap, m + 1) = Coefficients("weighted", m) THEN y ELSE [n \in DOMAIN y |-> Wrong]
<1>7. /\ DOMAIN mem_syn_hf = 0..19 /\ \A i \in 4..19 : mem_syn_hf[i] = Sample("hf", i - 20)
      /\ \A i \in 0..3 : Was(mem_syn_hf[i], "hf", 60 + i)
      /\ speech /\ rate # "lowest" => \A i \in 0..3 : mem_syn_hf[i] = Zero
  BY <1>3, Layout DEF SynthesisInv, HighPastInv, Extra
<1>8. /\ DOMAIN scratch = 0..345
      /\ \A n \in 0..79 : scratch[224 + n] = Cell("noise", n, 0)
      /\ \A n \in 0..m : scratch[304 + n] = Cell("weighted", n, 0)
  <2> QED BY <1>1, <1>6, Layout DEF SynthesisInv, Arrays, ScratchInv, Holds
<1>9. \A n \in 0..79 : noise[n] = Sample("noise", n)
  BY <1>8, Layout DEF At, Sample
<1>10. At(Ap, m + 1) = Coefficients("weighted", m)
  <2>1. At(304, m + 1) = [i \in 0..m |-> scratch[304 + i]]
    <3>1. (m + 1) - 1 = m
      BY <1>6
    <3> QED BY <3>1, ZenonT(40) DEF At
  <2> QED BY <1>8, <2>1, Layout, ZenonT(60) DEF Coefficients
<1>11. mine = y
  BY <1>10, Zenon
<1>12. ASSUME NEW k \in 0..79, k < m
       PROVE  past[k] = Sample("hf", k - m) \/ (m = 20 /\ k < 4 /\ Earlier(past[k], "hf", k - m))
  <2>1. past[k] = mem_syn_hf[(20 - m) + k]
    BY <1>6, <1>12 DEF Part
  <2>2. CASE (20 - m) + k >= 4
    <3>1. (20 - m) + k \in 4..19 /\ (20 - m) + k - 20 = k - m
      BY <1>6, <1>12, <2>2
    <3>2. mem_syn_hf[(20 - m) + k] = Sample("hf", (20 - m) + k - 20)
      BY <1>7, <3>1
    <3> HIDE DEF past
    <3> QED BY <2>1, <3>1, <3>2
  <2>3. CASE ~((20 - m) + k >= 4)
    <3>1. m = 20 /\ k < 4 /\ k \in 0..3 /\ (20 - m) + k = k
      BY <1>6, <1>12, <2>3
    <3>2. Was(past[k], "hf", 60 + k)
      BY <1>7, <2>1, <3>1
    <3>3. (k - 20 + 80) % 80 = 60 + k
      BY <3>1
    <3>4. Earlier(past[k], "hf", k - 20)
      BY <3>2, <3>3, Lengths DEF Earlier, Was
    <3> QED BY <3>1, <3>4
  <2> QED BY <2>2, <2>3
<1> HIDE DEF noise, past
<1>13. y = [n \in 0..79 |-> Cell("hf", n, 0)]
  <2>1. y = [n \in 0..79 |-> IF /\ noise[n] = Sample("noise", n)
                                 /\ \A k \in 0..(m - 1) :
                                      \/ n + k >= m
                                      \/ past[n + k] = Sample("hf", n + k - m)
                                      \/ m = 20 /\ n + k < 4 /\ Earlier(past[n + k], "hf", n + k - m)
                             THEN Cell("hf", n, 0) ELSE Wrong]
    BY Layout DEF wb_syn_filt
  <2>2. ASSUME NEW n \in 0..79, NEW k \in 0..(m - 1)
        PROVE  \/ n + k >= m
               \/ past[n + k] = Sample("hf", n + k - m)
               \/ m = 20 /\ n + k < 4 /\ Earlier(past[n + k], "hf", n + k - m)
    <3>1. CASE n + k < m
      <4>1. n + k \in 0..79
        BY <1>6, <3>1
      <4> QED BY <1>12, <3>1, <4>1
    <3>2. CASE ~(n + k < m)
      BY <1>6, <3>2
    <3> QED BY <3>1, <3>2
  <2> HIDE DEF y
  <2> QED BY <1>9, <2>1, <2>2
<1>14. /\ scratch' = Put(Put(scratch, 0, Put(past, m, mine)), 224, mine)
       /\ mem_syn_hf' = Put(mem_syn_hf, 20 - m, Part(mine, 80 - m, m))
  BY <1>6, Layout DEF HighBandFilter, past, noise
<1>15. DOMAIN mine = 0..79 /\ \A n \in 0..79 : mine[n] = Cell("hf", n, 0)
  BY <1>11, <1>13
<1>16. DOMAIN past = 0..(m - 1)
  BY DEF past, Part
<1> HIDE DEF mine, y
<1>17. DOMAIN scratch' = 0..345 /\ \A n \in 0..79 : scratch'[224 + n] = Cell("hf", n, 0)
  <2> DEFINE z == Put(past, m, mine)
             s == Put(scratch, 0, z)
  <2>1. \A k \in DOMAIN z : k \in 0..(345 - 0)
    <3>1. DOMAIN z = DOMAIN past \cup {m + k : k \in DOMAIN mine}
      BY Zenon DEF Put
    <3> HIDE DEF z
    <3>2. \A k \in 0..(m - 1) : k \in 0..345
      BY <1>6
    <3>3. \A k \in 0..79 : m + k \in 0..345
      BY <1>6
    <3>4. \A k \in DOMAIN past : k \in 0..345
      BY <1>16, <3>2
    <3>5. ASSUME NEW k \in DOMAIN mine PROVE m + k \in 0..345
      <4>1. k \in 0..79
        BY <1>15
      <4> QED BY <4>1, <3>3
    <3> QED BY <3>1, <3>4, <3>5
  <2> HIDE DEF z
  <2>2. DOMAIN s = 0..345
    BY <1>8, <2>1, PutIs
  <2> HIDE DEF s
  <2>3. \A k \in DOMAIN mine : k \in 0..(345 - 224)
    BY <1>15
  <2>4. DOMAIN Put(s, 224, mine) = 0..345 /\ \A k \in DOMAIN mine : Put(s, 224, mine)[224 + k] = mine[k]
    BY <2>2, <2>3, PutIs
  <2> QED BY <1>14, <1>15, <2>4 DEF s, z
<1>18. /\ DOMAIN mem_syn_hf' = 0..19
       /\ \A i \in 0..19 : mem_syn_hf'[i] = IF i < 20 - m THEN mem_syn_hf[i] ELSE Cell("hf", 60 + i, 0)
  <2> DEFINE v == Part(mine, 80 - m, m)
  <2>1. DOMAIN v = 0..(m - 1) /\ \A i \in 0..(m - 1) : v[i] = Cell("hf", (80 - m) + i, 0)
    <3>1. \A i \in 0..(m - 1) : (80 - m) + i \in 0..79
      BY <1>6
    <3>2. v = [i \in 0..(m - 1) |-> mine[(80 - m) + i]]
      BY DEF Part
    <3> QED BY <1>15, <3>1, <3>2
  <2> HIDE DEF v
  <2>2. DOMAIN mem_syn_hf \cup {20 - m + k : k \in DOMAIN v} = 0..19
    <3>1. \A k \in 0..(m - 1) : 20 - m + k \in 0..19
      BY <1>6
    <3> QED BY <1>7, <2>1, <3>1
  <2>3. mem_syn_hf' = [i \in 0..19 |-> IF i - (20 - m) \in DOMAIN v THEN v[i - (20 - m)] ELSE mem_syn_hf[i]]
    BY <1>14, <2>2, Zenon DEF Put, v
  <2>4. ASSUME NEW i \in 0..19
        PROVE  mem_syn_hf'[i] = IF i < 20 - m THEN mem_syn_hf[i] ELSE Cell("hf", 60 + i, 0)
    <3>1. CASE i < 20 - m
      <4>1. i - (20 - m) \notin 0..(m - 1)
        BY <1>6, <3>1
      <4> QED BY <2>1, <2>3, <3>1, <4>1
    <3>2. CASE ~(i < 20 - m)
      <4>1. i - (20 - m) \in 0..(m - 1) /\ (80 - m) + (i - (20 - m)) = 60 + i
        BY <1>6, <3>2
      <4>2. v[i - (20 - m)] = Cell("hf", 60 + i, 0)
        BY <2>1, <4>1
      <4> QED BY <2>1, <2>3, <3>2, <4>1, <4>2
    <3> QED BY <3>1, <3>2
  <2> QED BY <2>3, <2>4
<1>19. HighPastInv'
  <2>1. FilterOrder' = FilterOrder /\ speech' = speech /\ rate' = rate
    BY <1>1 DEF Inner, FilterOrder
  <2>2. \A i \in 4..19 : mem_syn_hf'[i] = Cell("hf", 60 + i, 0)
    BY <1>6, <1>18
  <2>3. CASE m = 16
    <3>1. \A i \in 0..3 : mem_syn_hf'[i] = mem_syn_hf[i]
      BY <1>18, <2>3
    <3> QED BY <1>1, <1>3, <1>6, <1>7, <1>18, <2>1, <2>2, <2>3, <3>1 DEF HighPastInv, Extra, Was, M, M16k, Cell, Zero
  <2>4. CASE m = 20
    <3>1. \A i \in 0..3 : mem_syn_hf'[i] = Cell("hf", 60 + i, 0)
      BY <1>18, <2>4
    <3>2. ~(speech /\ rate # "lowest")
      BY <1>6, <2>4 DEF FilterOrder, M, M16k
    <3> QED BY <1>1, <1>3, <1>6, <1>18, <2>1, <2>2, <2>4, <3>1, <3>2 DEF HighPastInv, Extra, Was, M, M16k, Cell, Zero
  <2> QED BY <1>6, <2>3, <2>4
<1>20. Arrays'
  BY <1>1, <1>2, <1>17 DEF SynthesisInv, Arrays, Inner
<1>21. ScratchInv'
  <2>1. Out("up")'
    BY <1>1 DEF SynthesisInv, ScratchInv, Out, Cell
  <2> QED BY <1>1, <1>17, <2>1 DEF ScratchInv, Holds, HF, L_SUBFR16k, synth, synth_lo, M, L_SYN, Cell
<1> QED BY <1>4, <1>5, <1>19, <1>20, <1>21 DEF SynthesisInv

(* The input of a filter behind its past, and its output, in ScratchMem. *)
LEMMA BehindThePast ==
    ASSUME NEW mem, DOMAIN mem = 0..29, DOMAIN scratch = 0..345, NEW y, DOMAIN y = 0..79
    PROVE  LET x == Put(mem, 30, At(224, 80))
               s == Put(Put(scratch, 0, x), 224, y)
           IN  /\ \A k \in 0..29 : x[k] = mem[k]
               /\ \A n \in 0..79 : x[30 + n] = scratch[224 + n]
               /\ DOMAIN s = 0..345
               /\ \A n \in 0..79 : s[224 + n] = y[n]
<1> DEFINE v == At(224, 80)
           x == Put(mem, 30, v)
           s == Put(scratch, 0, x)
<1>1. DOMAIN v = 0..79 /\ \A n \in 0..79 : v[n] = scratch[224 + n]
  BY DEF At
<1> HIDE DEF v
<1>2. DOMAIN x = 0..109
  <2>1. DOMAIN x = DOMAIN mem \cup {30 + k : k \in DOMAIN v}
    BY Zenon DEF Put
  <2>2. 0..29 \cup {30 + k : k \in 0..79} = 0..109
    OBVIOUS
  <2> HIDE DEF x
  <2> QED BY <1>1, <2>1, <2>2
<1>3. \A k \in DOMAIN v : x[30 + k] = v[k]
  BY <1>1, AppendNew
<1>4. \A k \in DOMAIN mem : x[k] = mem[k]
  BY <1>1, AppendOld
<1> HIDE DEF x
<1>5. FitsScratch(x, 0)
  BY <1>2 DEF FitsScratch
<1>6. IsScratch(s)
  <2>1. IsScratch(scratch)
    BY DEF IsScratch
  <2> QED BY <1>5, <2>1, 0 \in Nat, PutFits, Zenon
<1> HIDE DEF s
<1>0. PICK from \in Nat : from = 224
  OBVIOUS
<1>7. FitsScratch(y, from)
  BY <1>0 DEF FitsScratch
<1>8. IsScratch(Put(s, from, y)) /\ HoldsFrom(Put(s, from, y), from, y)
  BY <1>6, <1>7, PutFits, Zenon
<1>9. \A n \in 0..79 : x[30 + n] = scratch[224 + n]
  BY <1>1, <1>3
<1>10. \A k \in 0..29 : x[k] = mem[k]
  BY <1>4
<1> QED BY <1>0, <1>8, <1>9, <1>10 DEF IsScratch, HoldsFrom, s, x, v

LEMMA BandPassInv == SynthesisInv /\ BandPass => SynthesisInv'
<1> SUFFICES ASSUME SynthesisInv, BandPass PROVE SynthesisInv'
  OBVIOUS
<1>1. /\ block = "bandpass" /\ block' = IF rate = "highest" THEN "lowpass" ELSE "add"
      /\ Inner /\ UNCHANGED synth16k
  BY DEF BandPass, Inner
<1>2. block \in UpTo10 /\ (block' \in UpTo10 \/ rate # "highest") /\ block' \in UpTo10 \cup {"add", "end"}
  BY <1>1 DEF UpTo2, UpTo3, UpTo4, UpTo6, UpTo8, UpTo9, UpTo10, UpTo1
<1>3. /\ block \in UpTo9 /\ block' \notin UpTo9
      /\ \A s \in {UpTo1, UpTo2, UpTo3, UpTo4, UpTo6, UpTo8} : block \notin s /\ block' \notin s
  BY <1>1 DEF UpTo1, UpTo2, UpTo3, UpTo4, UpTo6, UpTo8, UpTo9
<1>4. BandPastInv'
  BY <1>1, <1>2 DEF BandPastInv, SynthesisInv, BandPass, Was, Inner
<1>5. HighPastInv'
  BY <1>1, <1>3, HighPastKept DEF SynthesisInv, BandPass
<1> DEFINE x == Put(mem_hf, 30, At(224, 80))
           y == band_pass_6k_7k(x)
<1>6. DOMAIN mem_hf = 0..29 /\ \A k \in 0..29 : mem_hf[k] = Sample("hf", k - 30)
  BY <1>3, Layout DEF SynthesisInv, MemoriesInv, Memory, Latest
<1>7. DOMAIN scratch = 0..345 /\ \A n \in 0..79 : scratch[224 + n] = Cell("hf", n, 0)
  BY <1>1, Layout DEF SynthesisInv, Arrays, ScratchInv, Holds
<1>8. scratch' = Put(Put(scratch, 0, x), 224, y) /\ mem_hf' = Part(x, 80, 30)
  BY Layout DEF BandPass
<1>9. DOMAIN y = 0..79
  <2>1. DOMAIN y = 0..(L_SUBFR16k - 1)
    BY Zenon DEF band_pass_6k_7k
  <2> QED BY <2>1, Layout
<1> HIDE DEF x
<1>10. /\ \A k \in 0..29 : x[k] = mem_hf[k]
       /\ \A n \in 0..79 : x[30 + n] = scratch[224 + n]
       /\ DOMAIN scratch' = 0..345
       /\ \A n \in 0..79 : scratch'[224 + n] = y[n]
  BY <1>6, <1>7, <1>8, <1>9, BehindThePast DEF x
<1>11. ASSUME NEW i \in 0..109 PROVE x[i] = Sample("hf", i - 30)
  <2>1. CASE i < 30
    BY <1>6, <1>10, <2>1
  <2>2. CASE i >= 30
    <3>1. i - 30 \in 0..79 /\ 30 + (i - 30) = i
      BY <2>2
    <3> DEFINE n == i - 30
    <3>3. n \in 0..79
      BY <3>1
    <3> HIDE DEF n
    <3>4. x[30 + n] = Cell("hf", n, 0)
      BY <1>7, <1>10, <3>3
    <3>2. x[30 + (i - 30)] = Cell("hf", i - 30, 0)
      BY <3>4, ZenonT(60) DEF n
    <3> QED BY <3>1, <3>2 DEF Sample
  <2> QED BY <2>1, <2>2
<1>12. \A n \in 0..79 : y[n] = Cell("band", n, 0)
  <2> DEFINE Right(n) == \A k \in 0..30 : x[n + k] = Sample("hf", n + k - 30)
  <2>1. y = [n \in 0..79 |-> IF Right(n) THEN Cell("band", n, 0) ELSE Wrong]
    BY Layout DEF band_pass_6k_7k
  <2>2. \A n \in 0..79 : Right(n)
    BY <1>11
  <2> HIDE DEF y, Right
  <2> QED BY <2>1, <2>2
<1> HIDE DEF y
<1>13. MemoriesInv'
  <2>1. mem_hf' = Newest("hf", L_FIR)
    <3>1. ASSUME NEW i \in 0..29 PROVE x[80 + i] = Cell("hf", 80 + i - 30, 0)
      <4>1. 50 + i \in 0..79 /\ 30 + (50 + i) = 80 + i /\ 50 + i = 80 + i - 30
        OBVIOUS
      <4> QED BY <1>7, <1>10, <4>1
    <3> QED BY <1>8, <3>1, Lengths, Layout DEF Part, Newest
  <2>2. Memory("hf", L_FIR, UpTo9)' = Newest("hf", L_FIR)
    BY <1>3 DEF Memory, Newest, Cell, Length, Low
  <2> QED BY <1>1, <1>3, <2>1, <2>2, MemoryKept DEF MemoriesInv, SynthesisInv, BandPass, Inner
<1>14. Arrays'
  BY <1>1, <1>2, <1>10 DEF SynthesisInv, Arrays, Inner
<1>15. ScratchInv'
  <2>1. Out("up")'
    BY <1>1 DEF SynthesisInv, ScratchInv, Out, Cell
  <2> QED BY <1>1, <1>10, <1>12, <2>1 DEF ScratchInv, Holds, HF, L_SUBFR16k, synth, synth_lo, M, L_SYN, Cell, Inner
<1> QED BY <1>4, <1>5, <1>13, <1>14, <1>15 DEF SynthesisInv

LEMMA LowPassInv == SynthesisInv /\ LowPass => SynthesisInv'
<1> SUFFICES ASSUME SynthesisInv, LowPass PROVE SynthesisInv'
  OBVIOUS
<1>1. block = "lowpass" /\ block' = "add" /\ rate = "highest" /\ Inner /\ UNCHANGED synth16k
  BY DEF LowPass, Inner, SynthesisInv, ScratchInv
<1>2. block \in UpTo10 /\ block' \notin UpTo10
  BY <1>1 DEF UpTo2, UpTo3, UpTo4, UpTo6, UpTo8, UpTo9, UpTo10, UpTo1
<1>3. \A s \in {UpTo1, UpTo2, UpTo3, UpTo4, UpTo6, UpTo8, UpTo9} : block \notin s /\ block' \notin s
  BY <1>1 DEF UpTo1, UpTo2, UpTo3, UpTo4, UpTo6, UpTo8, UpTo9
<1>4. MemoriesInv'
  BY <1>1, <1>3, MemoryKept DEF MemoriesInv, SynthesisInv, LowPass, Inner
<1>5. HighPastInv'
  BY <1>1, <1>3, HighPastKept DEF SynthesisInv, LowPass
<1> DEFINE x == Put(mem_hf3, 30, At(224, 80))
           y == low_pass_filt_7k(x)
<1>6. DOMAIN mem_hf3 = 0..29 /\ \A k \in 0..29 : Was(mem_hf3[k], "band", 50 + k)
  BY <1>2, Layout DEF SynthesisInv, BandPastInv
<1>7. DOMAIN scratch = 0..345 /\ \A n \in 0..79 : scratch[224 + n] = Cell("band", n, 0)
  BY <1>1, Layout DEF SynthesisInv, Arrays, ScratchInv, Holds
<1>8. scratch' = Put(Put(scratch, 0, x), 224, y) /\ mem_hf3' = Part(x, 80, 30)
  BY Layout DEF LowPass
<1>9. DOMAIN y = 0..79
  <2>1. DOMAIN y = 0..(L_SUBFR16k - 1)
    BY Zenon DEF low_pass_filt_7k
  <2> QED BY <2>1, Layout
<1> HIDE DEF x
<1>10. /\ \A k \in 0..29 : x[k] = mem_hf3[k]
       /\ \A n \in 0..79 : x[30 + n] = scratch[224 + n]
       /\ DOMAIN scratch' = 0..345
       /\ \A n \in 0..79 : scratch'[224 + n] = y[n]
  BY <1>6, <1>7, <1>8, <1>9, BehindThePast DEF x
<1>11. ASSUME NEW i \in 0..109
       PROVE  x[i] = Sample("band", i - 30) \/ (i < 30 /\ Earlier(x[i], "band", i - 30))
  <2>1. CASE i < 30
    <3>1. (i - 30 + 80) % 80 = 50 + i
      BY <2>1
    <3>2. Was(x[i], "band", 50 + i)
      BY <1>6, <1>10, <2>1
    <3> QED BY <2>1, <3>1, <3>2, Lengths DEF Earlier, Was
  <2>2. CASE i >= 30
    <3>1. i - 30 \in 0..79 /\ 30 + (i - 30) = i
      BY <2>2
    <3> DEFINE n == i - 30
    <3>3. n \in 0..79
      BY <3>1
    <3> HIDE DEF n
    <3>4. x[30 + n] = Cell("band", n, 0)
      BY <1>7, <1>10, <3>3
    <3>2. x[30 + (i - 30)] = Cell("band", i - 30, 0)
      BY <3>4, ZenonT(60) DEF n
    <3> QED BY <3>1, <3>2 DEF Sample
  <2> QED BY <2>1, <2>2
<1>12. \A n \in 0..79 : y[n] = Cell("low", n, 0)
  <2> DEFINE Right(n) == \A k \in 0..30 :
                 x[n + k] = Sample("band", n + k - 30) \/ (n + k < 30 /\ Earlier(x[n + k], "band", n + k - 30))
  <2>1. y = [n \in 0..79 |-> IF Right(n) THEN Cell("low", n, 0) ELSE Wrong]
    BY Layout DEF low_pass_filt_7k
  <2>2. \A n \in 0..79 : Right(n)
    BY <1>11
  <2> HIDE DEF y, Right
  <2> QED BY <2>1, <2>2
<1> HIDE DEF y
<1>13. BandPastInv'
  <2>1. ASSUME NEW i \in 0..29 PROVE x[80 + i] = Cell("band", 50 + i, 0)
    <3>1. 50 + i \in 0..79 /\ 30 + (50 + i) = 80 + i
      OBVIOUS
    <3> QED BY <1>7, <1>10, <3>1
  <2>2. DOMAIN mem_hf3' = 0..29 /\ \A i \in 0..29 : mem_hf3'[i] = Cell("band", 50 + i, 0)
    BY <1>8, <2>1 DEF Part
  <2> QED BY <1>1, <1>2, <2>2 DEF BandPastInv, Inner, L_FIR, Cell
<1>14. Arrays'
  BY <1>1, <1>10 DEF SynthesisInv, Arrays, Inner
<1>15. ScratchInv'
  <2>1. Out("up")'
    BY <1>1 DEF SynthesisInv, ScratchInv, Out, Cell
  <2> QED BY <1>1, <1>10, <1>12, <2>1 DEF ScratchInv, Holds, HF, L_SUBFR16k, synth, synth_lo, M, L_SYN, Cell, Inner
<1> QED BY <1>4, <1>5, <1>13, <1>14, <1>15 DEF SynthesisInv

LEMMA AddHighBandInv == SynthesisInv /\ AddHighBand => SynthesisInv'
<1> SUFFICES ASSUME SynthesisInv, AddHighBand PROVE SynthesisInv'
  OBVIOUS
<1>1. block = "add" /\ block' = "end" /\ Inner /\ UNCHANGED scratch /\ UNCHANGED memories
  BY DEF AddHighBand, Inner
<1>2. \A s \in {UpTo1, UpTo2, UpTo3, UpTo4, UpTo6, UpTo8, UpTo9, UpTo10} : block \notin s /\ block' \notin s
  BY <1>1 DEF UpTo1, UpTo2, UpTo3, UpTo4, UpTo6, UpTo8, UpTo9, UpTo10
<1>3. MemoriesInv' /\ HighPastInv' /\ BandPastInv'
  BY <1>1, <1>2, MemoryKept, HighPastKept, BandPastKept DEF MemoriesInv, SynthesisInv, memories, Inner
<1>4. synth16k' = [n \in 0..79 |-> Cell("output", n, 0)]
  <2>1. /\ \A n \in 0..79 : synth16k[n] = Cell("up", n, 0)
        /\ \A n \in 0..79 : scratch[224 + n] = Cell(IF rate = "highest" THEN "low" ELSE "band", n, 0)
    BY <1>1, Layout DEF SynthesisInv, ScratchInv, Out, Holds
  <2> QED BY <2>1, Layout DEF AddHighBand
<1>5. Arrays'
  BY <1>1, <1>4 DEF SynthesisInv, Arrays, Inner
<1>6. ScratchInv'
  BY <1>1, <1>4 DEF ScratchInv, Out, L_SUBFR16k, Cell
<1> QED BY <1>3, <1>5, <1>6 DEF SynthesisInv

(* A subframe later its last samples are those before the next one. *)
LEMMA AgedNewest ==
    ASSUME fresh' = FALSE, NEW m \in Nat, NEW signal \in Low \cup {"hf", "band"}
    PROVE  Aged(Newest(signal, m)) = Latest(signal, m)'
<1> DEFINE v == Newest(signal, m)
<1>1. v = [i \in 0..(m - 1) |-> Cell(signal, Length(signal) + i - m, 0)]
  BY DEF Newest
<1>2. ASSUME NEW i \in 0..(m - 1)
      PROVE  (IF v[i].signal \in {"zero", "wrong"} THEN v[i] ELSE [v[i] EXCEPT !.age = IF @ = 3 THEN 3 ELSE @ + 1])
                 = Sample(signal, i - m)'
  <2>1. v[i] = [signal |-> signal, n |-> Length(signal) + i - m, age |-> 0]
    BY <1>1 DEF Cell
  <2>2. signal \notin {"zero", "wrong"}
    BY DEF Low
  <2>3. [v[i] EXCEPT !.age = IF @ = 3 THEN 3 ELSE @ + 1] = [signal |-> signal, n |-> Length(signal) + i - m, age |-> 1]
    BY <2>1
  <2>4. Sample(signal, i - m)' = Cell(signal, i - m + Length(signal), 1)
    BY DEF Sample, Cell, Length, Low
  <2>5. i - m + Length(signal) = Length(signal) + i - m
    BY Layout DEF Length
  <2> QED BY <2>1, <2>2, <2>3, <2>4, <2>5 DEF Cell
<1>3. DOMAIN v = 0..(m - 1)
  BY <1>1
<1> HIDE DEF v
<1>4. Aged(v) = [i \in 0..(m - 1) |-> Sample(signal, i - m)']
  BY <1>2, <1>3 DEF Aged
<1> QED BY <1>4 DEF v, Latest, Sample

(* A cell a subframe later. *)
Older(cell) ==
    IF cell.signal \in {"zero", "wrong"} THEN cell ELSE [cell EXCEPT !.age = IF @ = 3 THEN 3 ELSE @ + 1]

LEMMA OlderIs ==
    ASSUME NEW signal \in {"hf", "band"}, NEW n \in Nat
    PROVE  /\ Older(Cell(signal, n, 0)) = Cell(signal, n, 1)
           /\ Older(Zero) = Zero
           /\ \A cell : Was(cell, signal, n) => Was(Older(cell), signal, n)
<1>1. Older(Cell(signal, n, 0)) = Cell(signal, n, 1)
  BY DEF Older, Cell
<1>2. Older(Zero) = Zero
  BY DEF Older, Zero, Cell
<1>3. ASSUME NEW cell, Was(cell, signal, n), cell # Zero PROVE Was(Older(cell), signal, n)
  <2>1. PICK a \in 1..3 : cell = [signal |-> signal, n |-> n, age |-> a]
    BY <1>3 DEF Was, Cell
  <2>2. Older(cell) = [signal |-> signal, n |-> n, age |-> IF a = 3 THEN 3 ELSE a + 1]
    BY <2>1 DEF Older
  <2> QED BY <2>2 DEF Was, Cell
<1> QED BY <1>1, <1>2, <1>3 DEF Was

LEMMA AgedOfTwo ==
    ASSUME fresh' = FALSE, NEW input \in Low, NEW output \in Low
    PROVE  Aged(NewestOfTwo(input, output)) = LatestOfTwo(input, output)'
<1> DEFINE v == NewestOfTwo(input, output)
<1>1. DOMAIN v = 0..3
  BY DEF NewestOfTwo
<1>2. /\ v[0] = [signal |-> output, n |-> 62, age |-> 0] /\ v[1] = [signal |-> output, n |-> 63, age |-> 0]
      /\ v[2] = [signal |-> input, n |-> 63, age |-> 0] /\ v[3] = [signal |-> input, n |-> 62, age |-> 0]
  BY DEF NewestOfTwo, Cell
<1>3. input \notin {"zero", "wrong"} /\ output \notin {"zero", "wrong"} /\ Length(input) = 64 /\ Length(output) = 64
  BY Layout DEF Low, Length
<1> HIDE DEF v
<1>4. Aged(v) = [i \in 0..3 |-> Older(v[i])]
  BY <1>1 DEF Aged, Older
<1>5. /\ Older(v[0]) = [signal |-> output, n |-> 62, age |-> 1] /\ Older(v[1]) = [signal |-> output, n |-> 63, age |-> 1]
      /\ Older(v[2]) = [signal |-> input, n |-> 63, age |-> 1] /\ Older(v[3]) = [signal |-> input, n |-> 62, age |-> 1]
  <2>1. ASSUME NEW s, s \notin {"zero", "wrong"}, NEW n
        PROVE  Older([signal |-> s, n |-> n, age |-> 0]) = [signal |-> s, n |-> n, age |-> 1]
    BY <2>1 DEF Older
  <2> QED BY <1>2, <1>3, <2>1
<1>6. \A s \in {input, output} : Sample(s, -1)' = [signal |-> s, n |-> 63, age |-> 1] /\ Sample(s, -2)' = [signal |-> s, n |-> 62, age |-> 1]
  BY <1>3 DEF Sample, Cell
<1>7. LatestOfTwo(input, output)' = [i \in 0..3 |-> Older(v[i])]
  <2>1. LatestOfTwo(input, output)' =
          [i \in 0..3 |-> IF i = 0 THEN Sample(output, -2)' ELSE IF i = 1 THEN Sample(output, -1)'
                          ELSE IF i = 2 THEN Sample(input, -1)' ELSE Sample(input, -2)']
    BY DEF LatestOfTwo, Sample
  <2> QED BY <1>5, <1>6, <2>1
<1> QED BY <1>4, <1>7 DEF v

LEMMA EndSubframeInv == SynthesisInv /\ EndSubframe => SynthesisInv'
<1> SUFFICES ASSUME SynthesisInv, EndSubframe PROVE SynthesisInv'
  OBVIOUS
<1>1. block = "end" /\ block' = "start" /\ fresh' = FALSE /\ UNCHANGED <<rate, speech>>
  BY DEF EndSubframe
<1>2. \A s \in {UpTo1, UpTo2, UpTo3, UpTo4, UpTo6, UpTo8, UpTo9, UpTo10} : block \notin s /\ block' \in s
  BY <1>1 DEF UpTo1, UpTo2, UpTo3, UpTo4, UpTo6, UpTo8, UpTo9, UpTo10
<1>3. MemoriesInv'
  <2>1. /\ mem_syn_hi = Newest("hi", M) /\ mem_syn_lo = Newest("lo", M) /\ mem_deemph = Newest("deemphasis", 1)
        /\ mem_sig_out = NewestOfTwo("deemphasis", "hp50") /\ mem_oversamp = Newest("hp50", L_UP)
        /\ mem_hp400 = NewestOfTwo("hp50", "hp400") /\ mem_hf = Newest("hf", L_FIR)
    BY <1>2 DEF SynthesisInv, MemoriesInv, Memory, MemoryOfTwo
  <2>2. /\ mem_syn_hi' = Latest("hi", M)' /\ mem_syn_lo' = Latest("lo", M)' /\ mem_deemph' = Latest("deemphasis", 1)'
        /\ mem_oversamp' = Latest("hp50", L_UP)' /\ mem_hf' = Latest("hf", L_FIR)'
    BY <1>1, <2>1, AgedNewest, Layout DEF EndSubframe, Low
  <2>3. /\ mem_sig_out' = LatestOfTwo("deemphasis", "hp50")' /\ mem_hp400' = LatestOfTwo("hp50", "hp400")'
    BY <1>1, <2>1, AgedOfTwo DEF EndSubframe, Low
  <2>4. /\ \A s \in {UpTo1, UpTo2, UpTo4, UpTo9} : \A signal, m : Memory(signal, m, s)' = Latest(signal, m)'
        /\ \A s \in {UpTo3, UpTo6} : \A input, output : MemoryOfTwo(input, output, s)' = LatestOfTwo(input, output)'
    BY <1>2 DEF Memory, MemoryOfTwo
  <2> QED BY <2>2, <2>3, <2>4 DEF MemoriesInv
<1>4. HighPastInv'
  <2>1. /\ DOMAIN mem_syn_hf = 0..19 /\ \A i \in 4..19 : mem_syn_hf[i] = Cell("hf", 60 + i, 0)
        /\ IF FilterOrder = M THEN \A i \in 0..3 : Was(mem_syn_hf[i], "hf", 60 + i)
           ELSE \A i \in 0..3 : mem_syn_hf[i] = Cell("hf", 60 + i, 0)
        /\ speech /\ rate # "lowest" => \A i \in 0..3 : mem_syn_hf[i] = Zero
    BY <1>2, Layout DEF SynthesisInv, HighPastInv, Extra
  <2>2. mem_syn_hf' = [i \in 0..19 |-> Older(mem_syn_hf[i])]
    BY <2>1 DEF EndSubframe, Aged, Older
  <2>3. \A i \in 0..19 : Sample("hf", i - 20)' = Cell("hf", 60 + i, 1)
    BY <1>1, Lengths DEF Sample, Cell, Length, Low, L_SUBFR16k
  <2>4. DOMAIN mem_syn_hf' = 0..19 /\ \A i \in 4..19 : mem_syn_hf'[i] = Cell("hf", 60 + i, 1)
    BY <2>1, <2>2, OlderIs
  <2>5. speech /\ rate # "lowest" => \A i \in 0..3 : mem_syn_hf'[i] = Zero
    BY <2>1, <2>2, OlderIs
  <2>6. FilterOrder # M => \A i \in 0..3 : mem_syn_hf'[i] = Cell("hf", 60 + i, 1)
    BY <2>1, <2>2, OlderIs
  <2>7. \A i \in 0..3 : Was(mem_syn_hf'[i], "hf", 60 + i)
    <3>1. CASE FilterOrder = M
      <4>1. \A i \in 0..3 : Was(Older(mem_syn_hf[i]), "hf", 60 + i)
        BY <2>1, <3>1, OlderIs
      <4> QED BY <2>2, <4>1
    <3>2. CASE FilterOrder # M
      BY <2>6, <3>2 DEF Was, Cell
    <3> QED BY <3>1, <3>2
  <2>8. speech /\ rate = "lowest" => FilterOrder # M
    BY DEF FilterOrder, M, M16k
  <2> QED BY <1>1, <1>2, <2>3, <2>4, <2>5, <2>6, <2>7, <2>8 DEF HighPastInv, Extra, Was, M, M16k, Zero, Cell
<1>5. BandPastInv'
  <2>1. /\ DOMAIN mem_hf3 = 0..29
        /\ rate = "highest" => \A i \in 0..29 : mem_hf3[i] = Cell("band", 50 + i, 0)
        /\ rate # "highest" => \A i \in 0..29 : Was(mem_hf3[i], "band", 50 + i)
    BY <1>2, Layout DEF SynthesisInv, BandPastInv
  <2>2. mem_hf3' = [i \in 0..29 |-> Older(mem_hf3[i])]
    BY <2>1 DEF EndSubframe, Aged, Older
  <2>3. \A i \in 0..29 : Sample("band", i - 30)' = Cell("band", 50 + i, 1)
    BY <1>1, Lengths DEF Sample, Cell, Length, Low, L_SUBFR16k
  <2>4. rate = "highest" => \A i \in 0..29 : mem_hf3'[i] = Cell("band", 50 + i, 1)
    BY <2>1, <2>2, OlderIs
  <2>5. \A i \in 0..29 : Was(mem_hf3'[i], "band", 50 + i)
    <3>1. CASE rate # "highest"
      <4>1. \A i \in 0..29 : Was(Older(mem_hf3[i]), "band", 50 + i)
        BY <2>1, <3>1, OlderIs
      <4> QED BY <2>2, <4>1
    <3>2. CASE rate = "highest"
      BY <2>4, <3>2 DEF Was, Cell
    <3> QED BY <3>1, <3>2
  <2>6. DOMAIN mem_hf3' = 0..29
    BY <2>2
  <2>7. rate = "highest" => \A i \in 0..29 : mem_hf3'[i] = Sample("band", i - 30)'
    BY <2>3, <2>4
  <2>8. block' \in UpTo10
    BY <1>2
  <2> QED BY <1>1, <2>5, <2>6, <2>7, <2>8 DEF BandPastInv, Was, L_FIR
<1>6. Arrays'
  <2>1. scratch' = [i \in 0..345 |-> Zero] /\ synth16k' = [i \in 0..79 |-> Zero]
    BY Layout DEF EndSubframe, Zeros
  <2>2. DOMAIN scratch' = 0..345 /\ DOMAIN synth16k' = 0..79
    BY <2>1
  <2> QED BY <1>1, <1>2, <2>2 DEF SynthesisInv, Arrays
<1>7. ScratchInv'
  BY <1>1 DEF ScratchInv
<1> QED BY <1>3, <1>4, <1>5, <1>6, <1>7 DEF SynthesisInv

LEMMA SynthesisNextInv == SynthesisInv /\ [SynthesisNext]_synthesisVars => SynthesisInv'
<1> SUFFICES ASSUME SynthesisInv, [SynthesisNext]_synthesisVars PROVE SynthesisInv'
  OBVIOUS
<1>1. CASE UNCHANGED synthesisVars
  <2>1. \A signal, n : Sample(signal, n)' = Sample(signal, n)
    BY <1>1 DEF Sample, synthesisVars
  <2>2. \A signal, m : Latest(signal, m)' = Latest(signal, m)
    BY <1>1 DEF Latest, Sample, synthesisVars
  <2>3. MemoriesInv'
    BY <1>1, MemoryKept DEF MemoriesInv, SynthesisInv, synthesisVars, memories
  <2>4. HighPastInv' /\ BandPastInv'
    BY <1>1, <2>1 DEF HighPastInv, BandPastInv, SynthesisInv, synthesisVars, memories, FilterOrder, Extra, Was, Cell, Zero
  <2>5. Arrays'
    BY <1>1 DEF Arrays, SynthesisInv, synthesisVars
  <2>6. ScratchInv'
    <3>1. FilterOrder' = FilterOrder
      BY <1>1 DEF FilterOrder, synthesisVars
    <3> QED BY <1>1, <3>1 DEF ScratchInv, SynthesisInv, synthesisVars, Holds, Out
  <2> QED BY <2>3, <2>4, <2>5, <2>6 DEF SynthesisInv
<1>2. CASE SynthesisNext
  BY <1>2, ResetMemoriesInv, StartSubframeInv, SynthesiseInv, DeemphasiseInv, HighPass50Inv, OversampleInv,
     MakeNoiseInv, HighPass400Inv, HighBandCoefficientsInv, HighBandFilterInv, BandPassInv, LowPassInv,
     AddHighBandInv, EndSubframeInv, Zenon DEF SynthesisNext
<1> QED BY <1>1, <1>2

LEMMA SynthesisAlwaysInv == SynthesisSpec => []SynthesisInv
BY SynthesisInitInv, SynthesisNextInv, PTL DEF SynthesisSpec

(* What the invariant says of the types, of the output and of the pasts.   *)
LEMMA SynthesisSound ==
    ASSUME SynthesisInv
    PROVE  SynthesisTypeOK /\ SynthesisIsSeamless /\ HighBandPast
<1>1. /\ DOMAIN mem_syn_hf = 0..(M16k - 1)
      /\ \A i \in (M16k - M)..(M16k - 1) : mem_syn_hf[i] = IF block \in UpTo8 THEN Sample("hf", i - M16k) ELSE Cell("hf", 60 + i, 0)
      /\ speech /\ rate # "lowest" => \A i \in Extra : mem_syn_hf[i] = Zero
      /\ speech /\ rate = "lowest" /\ block = "start" => \A i \in Extra : mem_syn_hf[i] = Sample("hf", i - M16k)
  BY DEF SynthesisInv, HighPastInv
<1>2. DOMAIN mem_hf3 = 0..(L_FIR - 1)
      /\ (block = "start" /\ rate = "highest" => \A i \in 0..(L_FIR - 1) : mem_hf3[i] = Sample("band", i - L_FIR))
  BY DEF SynthesisInv, BandPastInv
<1>3. SynthesisTypeOK
  <2>1. DOMAIN mem_oversamp = 0..(L_UP - 1)
    BY DEF SynthesisInv, MemoriesInv, Memory, Latest, Newest
  <2> QED BY <1>1, <1>2, <2>1, Layout DEF SynthesisTypeOK, SynthesisInv, Arrays
<1>4. SynthesisIsSeamless
  BY Layout DEF SynthesisIsSeamless, SynthesisInv, ScratchInv, Arrays, Out
<1>5. HighBandPast
  <2>1. block = "start" => block \in UpTo8
    BY DEF UpTo1, UpTo2, UpTo3, UpTo4, UpTo6, UpTo8
  <2> QED BY <1>1, <1>2, <2>1 DEF HighBandPast, Extra
<1> QED BY <1>3, <1>4, <1>5

(* The vectors of synthesis_amr_wb have the lengths of their arrays after  *)
(* every block.                                                            *)
THEOREM SynthesisTypes == SynthesisSpec => []SynthesisTypeOK
BY SynthesisAlwaysInv, SynthesisSound, PTL

(* The output of a subframe is made of its samples and of those before it,  *)
(* and so is the past of the high band, whatever the rates and the resets   *)
(* in between: synthesis_amr_wb.                                            *)
THEOREM SubframesJoin == SynthesisSpec => [](SynthesisIsSeamless /\ HighBandPast)
BY SynthesisAlwaysInv, SynthesisSound, PTL
=============================================================================
