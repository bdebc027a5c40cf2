---------------------------- MODULE AmrArithmetic ----------------------------
(***************************************************************************)
(* The arithmetic of the decoder: operations on words of 16 and 32 bits    *)
(* that saturate, written with comparisons of sign bits, shifts and masks  *)
(* (pvamrwbdecoder_basic_op).                                              *)
(*                                                                         *)
(* The width of a word is a parameter, so that all operands of a narrow    *)
(* one can be compared with what the comments of the operations promise.   *)
(* One action is the choice of operands.                                   *)
(***************************************************************************)
EXTENDS Integers

CONSTANT
    Width         \* bits of an int16; an int32 has twice as many

ASSUME ArithmeticAssumption == Width \in Nat \ {0, 1}

VARIABLES
    var1, var2,   \* operands of 16 bits
    L_var1        \* operand of 32 bits

arithmeticVars == <<var1, var2, L_var1>>

MAX_16 == 2^(Width - 1) - 1
MIN_16 == -(2^(Width - 1))
MAX_32 == 2^(2 * Width - 1) - 1
MIN_32 == -(2^(2 * Width - 1))

Word == MIN_16..MAX_16
Long == MIN_32..MAX_32

(* What is kept of a number in so many bits. *)
Wrap(x, bits) == ((x + 2^(bits - 1)) % 2^bits) - 2^(bits - 1)
Int16(x) == Wrap(x, Width)
Int32(x) == Wrap(x, 2 * Width)

(* x >> n, x << n and the bits above all others. *)
Right(x, n) == x \div 2^n
Left(x, n) == Int32(x * 2^n)
Sign(x) == IF x < 0 THEN -1 ELSE 0

(* (x >> 31) ^ MAX: the greatest or the least, by the sign of x. *)
Extreme(x, max) == IF x < 0 THEN -max - 1 ELSE max

-----------------------------------------------------------------------------
(* The end of add_int16, sub_int16 and mult_int16. *)
Saturated(L_sum) == IF Right(L_sum, Width - 1) # Sign(L_sum) THEN Extreme(L_sum, MAX_16) ELSE Int16(L_sum)

add_int16(a, b) == Saturated(a + b)

sub_int16(a, b) == Saturated(a - b)

mult_int16(a, b) == Saturated(Right(a * b, Width - 1))

negate_int16(a) == IF a = MIN_16 THEN MAX_16 ELSE -a

(* Overflow if operands of one sign have a sum of the other. *)
add_int32(a, b) ==
    LET sum == Int32(a + b)
    IN  IF Sign(a) = Sign(b) /\ Sign(sum) # Sign(a) THEN Extreme(a, MAX_32) ELSE sum

sub_int32(a, b) ==
    LET difference == Int32(a - b)
    IN  IF Sign(a) # Sign(b) /\ Sign(difference) # Sign(a) THEN Extreme(a, MAX_32) ELSE difference

(* Only the square of the least word is too great to be doubled. *)
mul_16by16_to_int32(a, b) == IF a * b # 2^(2 * Width - 2) THEN Left(a * b, 1) ELSE MAX_32

mac_16by16_to_int32(c, a, b) == add_int32(c, mul_16by16_to_int32(a, b))

msu_16by16_from_int32(c, a, b) == sub_int32(c, mul_16by16_to_int32(a, b))

(* Mutant: a sum that is too great wraps. *)
RoundUnchecked(a) == Int16(Right(Int32(a + 2^(Width - 1)), Width))

(* amr_wb_round: only the greatest number is kept from overflowing. *)
amr_wb_round(a) == Int16(Right(IF a # MAX_32 THEN Int32(a + 2^(Width - 1)) ELSE a, Width))

amr_wb_shl1_round(a) ==
    IF Right(Left(a, 1), 1) = a
    THEN Int16(Right(Int32(a + 2^(Width - 2)), Width - 1))
    ELSE Int16(Right(Extreme(a, MAX_32), Width))

(* Shifts: the amount to the right is taken modulo the width of a word ... *)
shl_int16(a, n) ==
    IF n < 0 THEN Right(a, (-n) % Width)
    ELSE LET shifted == Int16(a * 2^(n % Width))
         IN  IF Right(shifted, n % Width) # a THEN Extreme(a, MAX_16) ELSE shifted

shl_int32(a, n) ==
    IF n <= 0 THEN Right(a, (-n) % Width)
    ELSE IF Right(Left(a, n), n) # a THEN Extreme(a, MAX_32) ELSE Left(a, n)

(* ... or, here, modulo that of a long. *)
shr_int32(a, n) ==
    IF n >= 0 THEN Right(a, n % (2 * Width))
    ELSE LET m == (-n) % (2 * Width)
         IN  IF Right(Left(a, m), m) # a THEN Extreme(a, MAX_32) ELSE Left(a, m)

(* scale_signal: one sample, towards either side, with rounding. *)
scale_signal(x, exp) ==
    IF exp > 0 THEN amr_wb_round(shl_int32(x * 2^Width, exp))
    ELSE IF exp < 0 THEN LET n == (-exp) % Width IN Right(add_int16(x, Right(2^(Width - 1), Width - n)), n)
    ELSE x

(* int32_to_dpf: a high part and a low one without the lowest bit. *)
int32_to_dpf(a) == [hi |-> Right(a, Width), lo |-> Right(a - Right(a, Width) * 2^Width, 1)]

mpy_dpf_32(a, b) ==
    mac_16by16_to_int32(
        mac_16by16_to_int32(mul_16by16_to_int32(a.hi, b.hi), mult_int16(a.hi, b.lo), 1),
        mult_int16(a.lo, b.hi), 1)

mul_32by16(a, n) == Left(a.hi * n + Right(a.lo * n, Width - 1), 1)

(* fxp_mul32_by_16b: the upper half of a product of 64 bits. *)
fxp_mul32_by_16b(a, n) == Right(a * n, Width)

(* preemph_amrwb_dec, Pit_shrp: a sample and a part of another one. *)
preemph_amrwb_dec(x, previous, mu) == amr_wb_round(msu_16by16_from_int32(x * 2^Width, previous, mu))
Pit_shrp(x, earlier, sharp) == amr_wb_round(mac_16by16_to_int32(x * 2^Width, earlier, sharp))

-----------------------------------------------------------------------------
ArithmeticInit == var1 = 0 /\ var2 = 0 /\ L_var1 = 0

ChooseOperands ==
    /\ L_var1 = 0 /\ var1 = 0 /\ var2 = 0
    /\ var1' \in Word /\ var2' \in Word /\ L_var1' \in Long

ArithmeticNext == ChooseOperands

ArithmeticSpec == ArithmeticInit /\ [][ArithmeticNext]_arithmeticVars

-----------------------------------------------------------------------------
(* Properties. *)

ArithmeticTypeOK ==
    /\ var1 \in Word /\ var2 \in Word /\ L_var1 \in Long
    /\ scale_signal(var1, var2) \in Word
    /\ int32_to_dpf(L_var1).hi \in Word /\ int32_to_dpf(L_var1).lo \in 0..MAX_16

Clamped(x, max) == IF x > max THEN max ELSE IF x < -max - 1 THEN -max - 1 ELSE x

(* The other operand of 32 bits, all of them as the two words vary. *)
L_var2 == var1 * 2^Width + (var2 - MIN_16)

(* "with overflow control and saturation": the result is the exact one, or *)
(* the nearest that there is, for all operands.  Two operations promise    *)
(* saturation but do not saturate a number that rounds up past the         *)
(* greatest: that is only so for the operands excepted here.               *)
OperationsSaturate ==
    /\ add_int16(var1, var2) = Clamped(var1 + var2, MAX_16)
    /\ sub_int16(var1, var2) = Clamped(var1 - var2, MAX_16)
    /\ mult_int16(var1, var2) = Clamped(Right(var1 * var2, Width - 1), MAX_16)
    /\ negate_int16(var1) = Clamped(-var1, MAX_16)
    /\ add_int32(L_var1, L_var2) = Clamped(L_var1 + L_var2, MAX_32)
    /\ sub_int32(L_var1, L_var2) = Clamped(L_var1 - L_var2, MAX_32)
    /\ mul_16by16_to_int32(var1, var2) = Clamped(2 * var1 * var2, MAX_32)
    /\ mac_16by16_to_int32(L_var1, var1, var2) = Clamped(L_var1 + Clamped(2 * var1 * var2, MAX_32), MAX_32)
    /\ msu_16by16_from_int32(L_var1, var1, var2) = Clamped(L_var1 - Clamped(2 * var1 * var2, MAX_32), MAX_32)
    /\ L_var1 <= MAX_32 - 2^(Width - 1) \/ L_var1 = MAX_32 =>
          amr_wb_round(L_var1) = Clamped(Right(L_var1 + 2^(Width - 1), Width), MAX_16)
    /\ 2 * L_var1 <= MAX_32 - 2^(Width - 1) \/ 2 * L_var1 > MAX_32 =>
          amr_wb_shl1_round(L_var1) = Clamped(Right(2 * L_var1 + 2^(Width - 1), Width), MAX_16)

(* A shift multiplies or divides by a power of two, saturating, as long as *)
(* its amount is less than the width it is masked with.                    *)
ShiftsSaturate ==
    \A n \in 0..(2 * Width - 1) :
        /\ shl_int32(L_var1, n) = Clamped(L_var1 * 2^n, MAX_32)
        /\ shr_int32(L_var1, n) = Right(L_var1, n)
        /\ shr_int32(L_var1, -n) = Clamped(L_var1 * 2^n, MAX_32)
        /\ n < Width => /\ shl_int32(L_var1, -n) = Right(L_var1, n)
                        /\ shl_int16(var1, n) = Clamped(var1 * 2^n, MAX_16)
                        /\ shl_int16(var1, -n) = Right(var1, n)

(* Double precision: a number of 32 bits survives its two halves but for   *)
(* the lowest bit, and products of halves differ little from those of the  *)
(* numbers.  A narrow word does not reach all of these differences: 7 is   *)
(* one of words of 8 bits and more.                                        *)
HalvesMultiply ==
    LET a == int32_to_dpf(L_var1)  b == int32_to_dpf(L_var2) IN
    /\ L_var1 - (a.hi * 2^Width + 2 * a.lo) \in 0..1
    /\ Clamped(Right(L_var1 * L_var2, 2 * Width - 1), MAX_32) - mpy_dpf_32(a, b) \in -2..7
    /\ var2 # MIN_16 => Right(L_var1 * var2, Width - 1) - mul_32by16(a, var2) \in -1..2
=============================================================================
