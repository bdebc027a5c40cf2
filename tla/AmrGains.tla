------------------------------ MODULE AmrGains ------------------------------
(***************************************************************************)
(* The gains of a subframe's excitation: received in a good frame, guessed *)
(* from the median of former ones in a lost frame, and the dispersion of   *)
(* the code that they lead to (dec_gain2_amr_wb, median5,                  *)
(* phase_dispersion).                                                      *)
(*                                                                         *)
(* One action is one subframe of speech, or a frame of comfort noise, of   *)
(* which only what it leaves to the gains is modelled, or the reset after  *)
(* a homing frame.  The code vector and its energy are left out, and with  *)
(* them the gain of the code itself: its onset is a choice.                *)
(***************************************************************************)
EXTENDS Integers, Sequences, SequencesExt

CONSTANT
    Entries       \* what a good subframe may bring: gain of pitch (Q14), gain of code (Q3), quantised energy (Q10)

(* The numbers of 16 bits that a gain and an energy may be. *)
Greatest    == 32767
LeastEnergy == -14336
Gain   == 0..Greatest
Energy == LeastEnergy..Greatest

ASSUME GainsAssumption ==
    Entries \subseteq [pit : Gain, code : Gain, energy : Energy]

VARIABLES
    dtxGlobalState,  \* what the last frame was: speech, or noise ("dtx", or "mute" after a long silence)
    frameLost,       \* bfi and unusable_frame of the frame
    afterLoss,       \* prev_bfi
    bfh,             \* state of the concealment, 0 to 6
    inactive,        \* vad_hist > 2
    subframe,        \* subframes of the frame that are decoded
    past_qua_en,     \* quantised energies
    past_gain_pit, past_gain_code,
    prev_gc,         \* the code gain of the last good subframe
    pbuf, gbuf,      \* past gains of pitch and of code
    gain_pit,        \* the gain of pitch of the subframe
    prev_gain_pit,   \* disp_mem: gains of pitch
    prev_state,      \* disp_mem: dispersion of the last subframe
    received,        \* history: energies of the good subframes in a row, at most four, the last one first
    lastGood,        \* history: the code gain of the last good subframe
    six              \* history: the gains of pitch of the last six subframes since comfort noise, zero where there are fewer

gainVars == <<dtxGlobalState, frameLost, afterLoss, bfh, inactive, subframe, past_qua_en, past_gain_pit, past_gain_code, prev_gc,
              pbuf, gbuf, gain_pit, prev_gain_pit, prev_state, received, lastGood, six>>

pitch_0_6 == 9830
pitch_0_9 == 14746

pdown_unusable == <<32767, 31130, 29491, 24576, 7537, 1638, 328>>
cdown_unusable == <<32767, 16384, 8192, 8192, 8192, 4915, 3277>>

(* mult_int16 *)
Scaled(a, b) == (a * b) \div 32768

-----------------------------------------------------------------------------
(* median5: x1 and x2 become the smallest ones, and x3 the middle one. *)

Lower(a, b) == IF a < b THEN a ELSE b
Higher(a, b) == IF a < b THEN b ELSE a

(* The smallest of x[1] and the rest is moved out of the rest. *)
SiftOne(x) ==
    LET a2 == Lower(x[1], x[2])  b2 == Higher(x[1], x[2])
        a3 == Lower(a2, x[3])    b3 == Higher(a2, x[3])
        a4 == Lower(a3, x[4])    b4 == Higher(a3, x[4])
    IN  <<b2, b3, b4, Higher(a4, x[5])>>

median5(x) ==
    LET y == SiftOne(x)
        a2 == Lower(y[1], y[2])  b2 == Higher(y[1], y[2])
        a3 == Lower(a2, y[3])    b3 == Higher(a2, y[3])
    IN  Lower(Lower(b2, b3), Higher(a3, y[4]))

(* How the buffers move for a lost subframe ... *)
Shifted(buf, new) == Append(Tail(buf), new)

(* ... and for a good one: what the loop reads is one behind what it wrote. *)
ShiftedGood(buf, new) == <<buf[2], buf[2], buf[3], buf[4], new>>

-----------------------------------------------------------------------------
(* phase_dispersion *)

Strength(gain) == IF gain < pitch_0_6 THEN 0 ELSE IF gain < pitch_0_9 THEN 1 ELSE 2

(* Without an onset, several weak gains or a jump restrain the state. *)
Dispersion(gains, onset) ==
    LET strength == Strength(gains[1])
        few      == IF Len(SelectSeq(gains, LAMBDA g : g < pitch_0_6)) > 2 THEN 0 ELSE strength
    IN  IF onset THEN Lower(strength + 1, 2)
        ELSE IF few > prev_state + 1 THEN few - 1 ELSE few

Remember(gain) == <<gain>> \o SubSeq(prev_gain_pit, 1, 5)

Disperse(gain) ==
    /\ prev_gain_pit' = Remember(gain)
    /\ \E onset \in BOOLEAN : prev_state' = Dispersion(prev_gain_pit', onset)
    /\ six' = Shifted(six, gain)

-----------------------------------------------------------------------------
GainsTypeOK ==
    /\ dtxGlobalState \in {"speech", "dtx", "mute"}
    /\ frameLost \in BOOLEAN /\ afterLoss \in BOOLEAN /\ inactive \in BOOLEAN
    /\ bfh \in 0..6 /\ subframe \in 0..4
    /\ past_qua_en \in [1..4 -> Energy]
    /\ past_gain_pit \in Gain /\ past_gain_code \in Gain /\ prev_gc \in Gain
    /\ pbuf \in [1..5 -> Gain] /\ gbuf \in [1..5 -> Gain]
    /\ gain_pit \in Gain
    /\ prev_state \in 0..2

(* pvDecoder_AmrWb_Reset: dec_gain2_amr_wb_init and the rest. *)
GainsInit ==
    /\ dtxGlobalState = "speech"
    /\ frameLost = FALSE /\ afterLoss = FALSE /\ bfh = 0 /\ inactive = FALSE /\ subframe = 4
    /\ past_qua_en = [i \in 1..4 |-> LeastEnergy]
    /\ past_gain_pit = 0 /\ past_gain_code = 0 /\ prev_gc = 0 /\ gain_pit = 0
    /\ pbuf = <<0, 0, 0, 0, 0>> /\ gbuf = <<0, 0, 0, 0, 0>>
    /\ prev_gain_pit = <<0, 0, 0, 0, 0, 0>> /\ prev_state = 0
    /\ received = << >> /\ lastGood = 0 /\ six = <<0, 0, 0, 0, 0, 0>>

(* The state of the concealment, and whether the frame before is taken for *)
(* lost; the first frame after noise is treated as one in a long loss.     *)
Badness(missed) ==
    IF dtxGlobalState # "speech" THEN 5 ELSE IF missed THEN Lower(bfh + 1, 6) ELSE bfh \div 2

WasLost == IF dtxGlobalState = "speech" THEN frameLost ELSE dtxGlobalState = "mute"

(* Another frame of speech; only a good one says whether it is active.  A  *)
(* loss after noise is noise.                                              *)
NextFrame ==
    /\ subframe = 4
    /\ subframe' = 0
    /\ dtxGlobalState' = "speech"
    /\ frameLost' \in {missed \in BOOLEAN : missed => dtxGlobalState = "speech"}
    /\ afterLoss' = WasLost /\ bfh' = Badness(frameLost')
    /\ inactive' \in IF frameLost' THEN {inactive} ELSE BOOLEAN
    /\ UNCHANGED <<past_qua_en, past_gain_pit, past_gain_code, prev_gc, pbuf, gbuf, gain_pit, prev_gain_pit,
                   prev_state, received, lastGood, six>>

(* A frame of comfort noise, received or lost: it forgets disp_mem, while  *)
(* the memory of dec_gain2_amr_wb stays as the last speech left it.        *)
NoiseFrame ==
    /\ subframe = 4
    /\ dtxGlobalState' \in {"dtx", "mute"}
    /\ dtxGlobalState = "speech" => dtxGlobalState' = "dtx"
    /\ frameLost' \in {missed \in BOOLEAN : missed => dtxGlobalState # "speech"}
    /\ dtxGlobalState = "mute" /\ frameLost' => dtxGlobalState' = "mute"
    /\ afterLoss' = WasLost /\ bfh' = Badness(frameLost')
    /\ prev_gain_pit' = <<0, 0, 0, 0, 0, 0>> /\ prev_state' = 0 /\ six' = <<0, 0, 0, 0, 0, 0>>
    /\ UNCHANGED <<inactive, subframe, past_qua_en, past_gain_pit, past_gain_code, prev_gc, pbuf, gbuf, gain_pit,
                   received, lastGood>>

(* A homing frame resets everything after it. *)
GainsReset ==
    /\ subframe = 4 /\ UNCHANGED subframe
    /\ dtxGlobalState' = "speech"
    /\ frameLost' = FALSE /\ afterLoss' = FALSE /\ bfh' = 0 /\ inactive' = FALSE
    /\ past_qua_en' = [i \in 1..4 |-> LeastEnergy]
    /\ past_gain_pit' = 0 /\ past_gain_code' = 0 /\ prev_gc' = 0 /\ gain_pit' = 0
    /\ pbuf' = <<0, 0, 0, 0, 0>> /\ gbuf' = <<0, 0, 0, 0, 0>>
    /\ prev_gain_pit' = <<0, 0, 0, 0, 0, 0>> /\ prev_state' = 0
    /\ received' = << >> /\ lastGood' = 0 /\ six' = <<0, 0, 0, 0, 0, 0>>

(* After a loss, a gain above 100 is not more than 1.25 times the last good one. *)
Admitted(code) ==
    IF afterLoss /\ code > 800 THEN Lower(code, (prev_gc * 5 + 2) \div 4) ELSE code

(* Mutant: as in a lost subframe, the oldest energy stays. *)
PushedShort(energy) == <<energy, past_qua_en[1], past_qua_en[2], past_qua_en[4]>>

Pushed(energy) == <<energy, past_qua_en[1], past_qua_en[2], past_qua_en[3]>>

GoodGains ==
    /\ subframe < 4 /\ ~frameLost
    /\ \E e \in Entries :
          /\ gain_pit' = e.pit /\ past_gain_pit' = e.pit
          /\ past_gain_code' = Admitted(e.code)
          /\ past_qua_en' = Pushed(e.energy)
          /\ received' = SubSeq(<<e.energy>> \o received, 1, Lower(4, Len(received) + 1))
    /\ prev_gc' = past_gain_code' /\ lastGood' = past_gain_code'
    /\ gbuf' = ShiftedGood(gbuf, past_gain_code')
    /\ pbuf' = ShiftedGood(pbuf, past_gain_pit')
    /\ Disperse(gain_pit')
    /\ subframe' = subframe + 1
    /\ UNCHANGED <<dtxGlobalState, frameLost, afterLoss, bfh, inactive>>

(* The gain of pitch that stands for a lost one: at most 0.95. *)
ConcealedPitch == Lower(median5(pbuf), 15565)

(* In noise the gain of code is kept. *)
ConcealedCode ==
    IF inactive THEN median5(gbuf) ELSE Scaled(cdown_unusable[bfh + 1], median5(gbuf))

(* Half the mean of the energies, 3 dB less; the last one stays. *)
FadedEnergies ==
    LET sum == past_qua_en[1] + past_qua_en[2] + past_qua_en[3] + past_qua_en[4]
    IN  <<Higher((sum \div 8) - 3072, LeastEnergy), past_qua_en[1], past_qua_en[2], past_qua_en[4]>>

LostGains ==
    /\ subframe < 4 /\ frameLost
    /\ past_gain_pit' = ConcealedPitch
    /\ gain_pit' = Scaled(pdown_unusable[bfh + 1], past_gain_pit')
    /\ past_gain_code' = ConcealedCode
    /\ past_qua_en' = FadedEnergies
    /\ gbuf' = Shifted(gbuf, past_gain_code')
    /\ pbuf' = Shifted(pbuf, past_gain_pit')
    /\ Disperse(gain_pit')
    /\ received' = << >>
    /\ subframe' = subframe + 1
    /\ UNCHANGED <<dtxGlobalState, frameLost, afterLoss, bfh, inactive, prev_gc, lastGood>>

GainsNext == NextFrame \/ NoiseFrame \/ GainsReset \/ GoodGains \/ LostGains

GainsSpec == GainsInit /\ [][GainsNext]_gainVars

-----------------------------------------------------------------------------
(* Properties. *)

(* The prediction of the gain of code is not led astray by a loss for      *)
(* longer than its memory: after four good subframes it rests on what was  *)
(* received alone.                                                         *)
PredictionRecovers == SubSeq(past_qua_en, 1, Len(received)) = received

(* After a loss, or noise that was muted, no subframe of the first good    *)
(* frame is much louder than the good one before it, be it one before the  *)
(* loss or the noise.                                                      *)
RecoveryIsLimited ==
    GoodGains /\ afterLoss => past_gain_code' <= Higher(800, (lastGood * 5 + 2) \div 4)

(* The dispersion is decided from the gains of the last six subframes, and *)
(* of none before comfort noise.                                           *)
DispersionRemembers == prev_gain_pit = Reverse(six)

(* "keep past gain code in Q3 for frame erasure": after good subframes the *)
(* buffer holds their gains.                                               *)
PastGainsKept ==
    [][GoodGains => gbuf'[5] = past_gain_code' /\ gbuf'[4] = gbuf[5]]_gainVars
=============================================================================
