------------------------------ MODULE AmrFrame ------------------------------
(***************************************************************************)
(* From the body of an HTTP request to the parameters of its frames: the   *)
(* limits of handleHTTP, the two passes of amrwb.Decode over the frames,   *)
(* the sorting of a frame's bits, and the reading of its parameters, which *)
(* depends on the mode and on whether the frame was lost.                  *)
(*                                                                         *)
(* A body is a sequence of frames the last of which may be cut; contents   *)
(* of bits are left out, positions are kept.                               *)
(***************************************************************************)
EXTENDS AmrTables, FiniteSets

CONSTANTS
    Bodies,       \* bodies: sequences of frames [type, good]
    Cuts,         \* how many bytes of the last frame may be missing
    Durations,    \* values of max_duration, in milliseconds
    MaxInt        \* math.MaxInt

ASSUME FrameAssumption ==
    /\ Bodies \subseteq Seq([type : 0..15, good : BOOLEAN])
    /\ Cuts \subseteq Nat /\ Durations \subseteq Nat /\ MaxInt \in Nat

VARIABLES
    body,         \* the frames of the body
    length,       \* its length in bytes, without the magic
    maxFrames,    \* what handleHTTP allows
    phase,        \* "idle", "length", "validate", "decode", "parameters" or the outcome
    offset,       \* the byte reached
    count,        \* frames seen by validateFrames
    pcm,          \* bytes appended to the output
    prevMode,     \* rx_state.prev_mode
    toRead,       \* widths of the parameters left in the frame
    position      \* bits of the frame's parameters that were read

frameVars == <<body, length, maxFrames, phase, offset, count, pcm, prevMode, toRead, position>>

pcmBytesPerFrame == 640

amrwbMaxEncodedFrameSize == 61

(* What a frame takes in the body: of a reserved one, only its header is known. *)
Bytes(frame) == Max({FrameSize(frame.type), 1})

(* Where each of some frames ends; the 0th is the magic. *)
Ends(frames) ==
    LET end[i \in 0..Len(frames)] == IF i = 0 THEN 0 ELSE end[i - 1] + Bytes(frames[i])
    IN  end

BodyBytes(frames) == Ends(frames)[Len(frames)]

(* Where the frames of the body start, after the magic. *)
Start(i) == Ends(body)[i - 1]

(* The frame whose header is at an offset. *)
FrameAt(o) == body[CHOOSE i \in DOMAIN body : Start(i) = o]

(* The frames allowed by max_duration. *)
httpAudioLimits(duration) == Min({duration \div 20, MaxInt})

Outcomes == {"accepted", "bodyTooLarge", "tooLong", "invalid"}

-----------------------------------------------------------------------------
(* mime_unsorting, pvDecoder_AmrWb: a SID frame without data, and a lost   *)
(* frame while comfort noise is produced, leave their parameters.          *)
ParameterWidths(frame) ==
    IF ~frame.good \/ frame.type > 9 THEN {SpeechWidths(prevMode, TRUE), << >>}
    ELSE IF frame.type = 9 THEN {SidWidths, << >>}
    ELSE {SpeechWidths(frame.type, FALSE)}

(* Where mime_unsorting puts the bits of a frame. *)
Unsorted(mode) == {AmrWbSortingTables(mode)[k] : k \in 1..unpacked_size(mode)}

(* Bits of the packed frame that mime_unsorting uses, with the STI bit.    *)
PackedBits(mode) == IF mode = 9 THEN unpacked_size(mode) + 1 ELSE unpacked_size(mode)

(* prmnofsf: how many bits the homing test of a homed decoder compares. *)
prmnofsf(mode) == <<63, 81, 100, 108, 116, 128, 136, 152, 156>>[mode + 1]

(* dhf_test: bits of a 23.85 kbit/s frame that are masked out.             *)
Masked == (152..155) \cup (257..261) \cup (367..370) \cup (473..476)

(* ... and those of the high band: the last of every subframe. *)
HighBandBits ==
    UNION {LET end == 1 + Total(IsfWidths(8)) + Total(FlattenSeq([s \in 1..sub |-> SubframeWidths(8, s - 1, FALSE)]))
           IN  (end - 4)..(end - 1) : sub \in 1..4}

-----------------------------------------------------------------------------
FrameInit ==
    /\ body = << >> /\ length = 0 /\ maxFrames = 0
    /\ phase = "idle"
    /\ offset = 0 /\ count = 0 /\ pcm = 0
    /\ prevMode = 0 /\ toRead = << >> /\ position = 0

(* A request arrives. *)
Receive ==
    /\ phase = "idle"
    /\ body' \in Bodies
    /\ \E cut \in Cuts :
          /\ IF body' = << >> THEN cut = 0 ELSE cut < Bytes(Last(body'))
          /\ length' = BodyBytes(body') - cut
    /\ \E d \in Durations : maxFrames' = httpAudioLimits(d)
    /\ phase' = "length"
    /\ UNCHANGED <<offset, count, pcm, prevMode, toRead, position>>

(* handleHTTP: the length of the body, before anything is read. *)
CheckLength ==
    /\ phase = "length"
    /\ phase' = IF length > maxFrames * amrwbMaxEncodedFrameSize THEN "bodyTooLarge" ELSE "validate"
    /\ UNCHANGED <<body, length, maxFrames, offset, count, pcm, prevMode, toRead, position>>

(* Mutant: a truncated frame is not recognised. *)
ValidateFrameCut ==
    /\ phase = "validate" /\ offset < length
    /\ LET size == FrameSize(FrameAt(offset).type) IN
          IF size = 0 THEN phase' = "invalid" /\ UNCHANGED <<offset, count>>
          ELSE /\ count' = count + 1
               /\ IF count' > maxFrames
                  THEN phase' = "tooLong" /\ offset' = offset
                  ELSE phase' = phase /\ offset' = offset + size
    /\ UNCHANGED <<body, length, maxFrames, pcm, prevMode, toRead, position>>

(* An iteration of validateFrames. *)
ValidateFrame ==
    /\ phase = "validate" /\ offset < length
    /\ LET size == FrameSize(FrameAt(offset).type) IN
          IF size = 0 \/ size > length - offset
          THEN phase' = "invalid" /\ UNCHANGED <<offset, count>>
          ELSE /\ count' = count + 1
               /\ IF count' > maxFrames
                  THEN phase' = "tooLong" /\ offset' = offset
                  ELSE phase' = phase /\ offset' = offset + size
    /\ UNCHANGED <<body, length, maxFrames, pcm, prevMode, toRead, position>>

(* Decode, between its two passes. *)
StartDecoding ==
    /\ phase = "validate" /\ offset >= length
    /\ phase' = IF count = 0 THEN "accepted"
                ELSE IF count > MaxInt \div pcmBytesPerFrame THEN "tooLong"
                ELSE "decode"
    /\ offset' = 0
    /\ UNCHANGED <<body, length, maxFrames, count, pcm, prevMode, toRead, position>>

(* The header of a frame and its bits. *)
UnpackFrame ==
    /\ phase = "decode" /\ offset < length
    /\ LET frame == FrameAt(offset) IN
          /\ toRead' \in ParameterWidths(frame)
          /\ prevMode' = IF frame.good /\ frame.type <= 8 THEN frame.type ELSE prevMode
    /\ phase' = "parameters" /\ position' = 0
    /\ UNCHANGED <<body, length, maxFrames, offset, count, pcm>>

(* Serial_parm. *)
ReadParameter ==
    /\ phase = "parameters" /\ toRead # << >>
    /\ position' = position + Head(toRead)
    /\ toRead' = Tail(toRead)
    /\ UNCHANGED <<body, length, maxFrames, phase, offset, count, pcm, prevMode>>

(* Mutant: the second pass skips what was decoded, without the header. *)
FrameDoneUnheaded ==
    /\ phase = "parameters" /\ toRead = << >>
    /\ pcm' = pcm + pcmBytesPerFrame
    /\ offset' = offset + Max({FrameSize(FrameAt(offset).type) - 1, 1})
    /\ phase' = "decode"
    /\ UNCHANGED <<body, length, maxFrames, count, prevMode, toRead, position>>

(* The frame is decoded: 320 samples are appended. *)
FrameDone ==
    /\ phase = "parameters" /\ toRead = << >>
    /\ pcm' = pcm + pcmBytesPerFrame
    /\ offset' = offset + FrameSize(FrameAt(offset).type)
    /\ phase' = "decode"
    /\ UNCHANGED <<body, length, maxFrames, count, prevMode, toRead, position>>

Decoded ==
    /\ phase = "decode" /\ offset >= length
    /\ phase' = "accepted"
    /\ UNCHANGED <<body, length, maxFrames, offset, count, pcm, prevMode, toRead, position>>

FrameNext ==
    \/ Receive \/ CheckLength \/ ValidateFrame \/ StartDecoding
    \/ UnpackFrame \/ ReadParameter \/ FrameDone \/ Decoded

FrameSpec == FrameInit /\ [][FrameNext]_frameVars

-----------------------------------------------------------------------------
(* Properties. *)

Whole == length = BodyBytes(body) /\ \A i \in DOMAIN body : FrameSize(body[i].type) > 0

FrameTypeOK ==
    /\ phase \in {"idle", "length", "validate", "decode", "parameters"} \cup Outcomes
    /\ offset \in 0..length
    /\ count \in 0..Len(body)
    /\ prevMode \in 0..8
    /\ phase = "parameters" \/ toRead = << >>

(* Both passes of Decode find every header where the frame before ends,    *)
(* "a frame that ends exactly at the end of the body" included.            *)
FramesInStep ==
    phase \in {"validate", "decode", "parameters"} =>
        \/ offset = length
        \/ \E i \in DOMAIN body : offset = Start(i)

(* What is transcribed is the whole body, every frame once, and its size   *)
(* in bytes is an int.                                                     *)
AcceptedIsWhole ==
    phase = "accepted" =>
        /\ Whole /\ Len(body) <= maxFrames
        /\ pcm = Len(body) * pcmBytesPerFrame /\ pcm <= MaxInt

(* Nothing is refused without its reason: the limit in bytes, which is     *)
(* checked before the frames are known, refuses no audio that the limit in *)
(* frames would have admitted.                                             *)
RefusedForAReason ==
    /\ phase = "invalid" => ~Whole
    /\ phase = "bodyTooLarge" => Len(body) > maxFrames
    /\ phase = "tooLong" => Len(body) > maxFrames \/ Len(body) * pcmBytesPerFrame > MaxInt

(* validateFrames and Decode agree on the frames of a body, and what is    *)
(* transcribed is all of it.                                               *)
BodyIsParsed == FramesInStep /\ AcceptedIsWhole /\ RefusedForAReason

(* The parameters of a frame are all its bits, and those that are read of  *)
(* a lost frame or a SID frame lie within the bits of a frame of its mode. *)
ParametersFillTheFrame ==
    phase = "parameters" =>
        LET frame == FrameAt(offset) IN
        /\ position + Total(toRead) <= unpacked_size(IF frame.good /\ frame.type = 9 THEN 9 ELSE prevMode)
        /\ frame.good /\ frame.type <= 8 => position + Total(toRead) = unpacked_size(frame.type)

(* A transmitted bit has its place among the parameters, no two the same;  *)
(* the bytes that FrameSize reserves for them in Go are those that the     *)
(* tables of the C code need, and the test for a homing frame compares     *)
(* exactly the parameters up to the first subframe and leaves out those of *)
(* the high band.                                                          *)
BitsInPlace ==
    phase = "parameters" /\ position = 0 /\ FrameAt(offset).good /\ FrameAt(offset).type <= 9 =>
        LET mode == FrameAt(offset).type IN
        /\ Unsorted(mode) = 0..(unpacked_size(mode) - 1)
        /\ FrameSize(mode) = 1 + (PackedBits(mode) + 7) \div 8
        /\ mode <= 8 => prmnofsf(mode) = 1 + Total(IsfWidths(mode) \o SubframeWidths(mode, 0, FALSE))
        /\ mode = 8 => HighBandBits \subseteq Masked
=============================================================================
