------------------------------ MODULE AmrMath ------------------------------
(***************************************************************************)
(* Division, logarithm, powers and inverse square roots of the decoder     *)
(* (pvamrwb_math_op, normalize_amr_wb), each by a table of one octave and  *)
(* a straight line between its entries, and the gains computed with them:  *)
(* how voiced a subframe is (voice_factor), what makes two signals equally *)
(* loud (agc2_amr_wb) and how loud the noise of the high band is           *)
(* (synthesis_amr_wb).                                                     *)
(*                                                                         *)
(* A vector is represented by its energy; numbers have their real width.   *)
(* One action is the choice of operands.                                   *)
(***************************************************************************)
EXTENDS Integers, Sequences, FiniteSets

CONSTANTS
    Fractions,    \* operands of divisions, 16 bits
    Numbers,      \* operands of the other functions, 32 bits
    Octaves       \* exponents of the energies, gains and scales compared

ASSUME MathAssumption ==
    Fractions \subseteq Nat /\ Numbers \subseteq Nat /\ Octaves \subseteq Nat

VARIABLES
    num, den,     \* operands of div_16by16
    L_x,          \* operand of the other functions
    energies,     \* octaves of the amplitudes of two vectors
    gains         \* ... and of their gains, and the scale of the first

mathVars == <<num, den, L_x, energies, gains>>

High(x) == x \div 65536                        \* extract_h
Mult(a, b) == (a * b) \div 32768               \* mult_int16 of words above the least
Within(x, low, high) == IF x < low THEN low ELSE IF x > high THEN high ELSE x

(* shl_int32: saturation, and right shifts by the amount modulo 16. *)
ShiftLong(x, n) ==
    IF n <= 0 THEN x \div 2^((-n) % 16)
    ELSE IF x >= 2^(31 - Within(n, 1, 31)) THEN 2147483647
    ELSE x * 2^n

(* amr_wb_round of a number that does not round up past the greatest. *)
Rounded(x) == IF x = 2147483647 THEN 32767 ELSE (x + 32768) \div 65536

-----------------------------------------------------------------------------
(* The places that x can be shifted without reaching the sign; 27 of zero. *)
(* The code finds four at a time, then the rest.                           *)
normalize_amr_wb(x) ==
    LET zeros == Cardinality({digits \in 1..7 : x < 16^digits})
        coarse == IF zeros = 0 THEN 0 ELSE 4 * zeros - 1
        top == (x * 2^coarse) \div 2^27
    IN  coarse + (IF top = 1 THEN 3 ELSE IF top \in {2, 3} THEN 2 ELSE IF top \in 4..7 THEN 1 ELSE 0)

(* norm_s: the same of a word of 16 bits. *)
norm_s(x) == normalize_amr_wb(x) - 16

(* Mutant: the remainder is not carried from digit to digit. *)
OctalDigitAnew(d, var2) == [out |-> 8 * d.out + (8 * d.rest) \div var2, rest |-> (8 * d.rest) \div 8]

(* Three bits of the quotient: four, two and one time the divisor. *)
OctalDigit(d, var2) ==
    LET fours == IF 8 * d.rest >= 4 * var2 THEN 4 ELSE 0
        twos  == IF 8 * d.rest - fours * var2 >= 2 * var2 THEN 2 ELSE 0
        ones  == IF 8 * d.rest - (fours + twos) * var2 >= var2 THEN 1 ELSE 0
        digit == fours + twos + ones
    IN  [out |-> 8 * d.out + digit, rest |-> 8 * d.rest - digit * var2]

div_16by16(var1, var2) ==
    LET digits[n \in 0..5] ==
            IF n = 0 THEN [out |-> 0, rest |-> var1] ELSE OctalDigit(digits[n - 1], var2)
    IN  IF var1 > var2 \/ var1 <= 0 THEN 0
        ELSE IF var1 = var2 THEN 32767
        ELSE digits[5].out

table_isqrt == <<
    32767, 31790, 30894, 30070, 29309, 28602, 27945, 27330, 26755, 26214,
    25705, 25225, 24770, 24339, 23930, 23541, 23170, 22817, 22479, 22155,
    21845, 21548, 21263, 20988, 20724, 20470, 20225, 19988, 19760, 19539,
    19326, 19119, 18919, 18725, 18536, 18354, 18176, 18004, 17837, 17674,
    17515, 17361, 17211, 17064, 16921, 16782, 16646, 16514, 16384>>

table_pow2 == <<
    16384, 16743, 17109, 17484, 17867, 18258, 18658, 19066, 19484, 19911,
    20347, 20792, 21247, 21713, 22188, 22674, 23170, 23678, 24196, 24726,
    25268, 25821, 26386, 26964, 27554, 28158, 28774, 29405, 30048, 30706,
    31379, 32066, 32767>>

Log2_norm_table == <<
    0, 1455, 2866, 4236, 5568, 6863, 8124, 9352, 10549, 11716,
    12855, 13967, 15054, 16117, 17156, 18172, 19167, 20142, 21097, 22033,
    22951, 23852, 24735, 25603, 26455, 27291, 28113, 28922, 29716, 30497,
    31266, 32023, 32767>>

(* On the line from entry i of a table to the next one, a / 2^15 along. *)
Interpolated(table, i, a) == table[i + 1] * 65536 - 2 * (table[i + 1] - table[i + 2]) * a

Evened(frac, exp) == IF exp % 2 = 1 THEN frac \div 2 ELSE frac

(* 1/sqrt of frac * 2^exp, where frac is normalized. *)
one_ov_sqrt_norm(frac, exp) ==
    IF frac <= 0 THEN [frac |-> 2147483647, exp |-> 0]
    ELSE LET even == Evened(frac, exp)
         IN  [frac |-> Interpolated(table_isqrt, even \div 2^25 - 16, (even \div 2^10) % 2^15),
              exp |-> -((exp - 1) \div 2)]

one_ov_sqrt(x) ==
    LET exp  == normalize_amr_wb(x)
        root == one_ov_sqrt_norm(x * 2^exp, 31 - exp)
    IN  ShiftLong(root.frac, root.exp)

(* 2^(exponant + fraction/2^15), exponant below 30. *)
power_of_2(exponant, fraction) ==
    LET x == Interpolated(table_pow2, fraction \div 1024, (fraction % 1024) * 32) \div 2
        exp == 29 - exponant
    IN  IF exp = 0 THEN x ELSE (x \div 2^exp) + ((x \div 2^(exp - 1)) % 2)

Lg2_normalized(x, exp) ==
    IF x <= 0 THEN [exponent |-> 0, fraction |-> 0]
    ELSE [exponent |-> 30 - exp,
          fraction |-> High(Interpolated(Log2_norm_table, x \div 2^25 - 32, (x \div 2^10) % 2^15))]

amrwb_log_2(x) == LET exp == normalize_amr_wb(x) IN Lg2_normalized(ShiftLong(x, exp), exp)

(* Dot_product12 of a vector with itself, from the sum of its squares: a   *)
(* normalized number and its exponent.                                     *)
Dot_product12(sum) ==
    LET sft == normalize_amr_wb(sum) IN [hi |-> High(sum * 2^sft), exp |-> 30 - sft]

(* The next pseudo-random word. *)
noise_gen_amrwb(seed) == ((seed * 31821 + 13849 + 32768) % 65536) - 32768

-----------------------------------------------------------------------------
(* Gains. *)

(* The exponent of the pitch energy, from that of the excitation, its      *)
(* scale and the gain's ("10 -> gain_pit Q14 to Q9").                      *)
PitchExponent(exp1, Q_exc, exp) == exp1 - 2 * Q_exc - (exp + 10)

(* To the right, of a word.  More than 31 places are undefined; processors *)
(* take the amount modulo 32.                                              *)
ShiftWord(x, n) == x \div 2^Within(n % 32, 0, 16)

(* (pitch - code) / (pitch + code) of the energies of two excitations with *)
(* their gains, brought to one exponent.                                   *)
voice_factor(exc, Q_exc, gain_pit, code, gain_code) ==
    LET n1 == normalize_amr_wb(2 * gain_pit * gain_pit)
        n2 == norm_s(gain_code)
        squared == Mult(gain_code * 2^n2, gain_code * 2^n2)
        ener1 == Mult(Dot_product12(exc).hi, High(2 * gain_pit * gain_pit * 2^n1))
        ener2 == Mult(Dot_product12(code).hi, squared)
        i == PitchExponent(Dot_product12(exc).exp, Q_exc, n1) - (Dot_product12(code).exp - 2 * n2)
        pitch == ShiftWord(ener1, IF i >= 0 THEN 1 ELSE 1 - i)
        fixed == ShiftWord(ener2, IF i >= 0 THEN i + 1 ELSE 1)
    IN  IF pitch >= fixed THEN div_16by16(pitch - fixed, pitch + fixed + 1)
        ELSE -div_16by16(fixed - pitch, pitch + fixed + 1)

(* The gain, in 1/8192, that makes a signal as loud as another one; not at *)
(* all if it is silent.                                                    *)
agc2_amr_wb(in, out) ==
    LET exp == normalize_amr_wb(out) - 1 - normalize_amr_wb(in)
        quotient == 128 * div_16by16(Rounded(out * 2^(normalize_amr_wb(out) - 1)),
                                     Rounded(in * 2^normalize_amr_wb(in)))
        \* shr_int32
        ratio == IF exp >= 0 THEN quotient \div 2^exp ELSE ShiftLong(quotient, -exp)
    IN  IF in = 0 THEN 0 ELSE Rounded(ShiftLong(one_ov_sqrt(ratio), 9))

(* 2 * sqrt(excitation / noise), in 1/2^15. *)
NoiseRoot(exc, Q_new, noise) ==
    LET ener == Dot_product12(exc)
        n    == Dot_product12(noise)
        half == IF n.hi > ener.hi THEN 1 ELSE 0    \* "Be sure tmp < ener"
    IN  one_ov_sqrt_norm(65536 * div_16by16(n.hi \div 2^half, ener.hi),
                         n.exp + half - (ener.exp - 2 * (Q_new - 3)))

NoiseGain(exc, Q_new, noise) ==
    LET root == NoiseRoot(exc, Q_new, noise) IN High(ShiftLong(root.frac, root.exp + 1))

(* The noise of voiced speech is quieter; in frames without voice          *)
(* activity it is raised by a quarter.                                     *)
TiltGain(r0, r1, vad_hist) ==
    LET exp   == normalize_amr_wb(r0)
        fac   == IF r1 > 0 THEN div_16by16(High(r1 * 2^exp), High(r0 * 2^exp)) ELSE 0
        gain1 == 32767 - fac
        gain2 == Within(2 * Mult(gain1, 20480), 0, 32767)
        tmp   == (IF vad_hist > 0 THEN gain2 ELSE gain1) - 1
    IN  Within(IF tmp # 0 THEN tmp + 1 ELSE tmp, 3277, 32767)

-----------------------------------------------------------------------------
NoOperands == num = 0 /\ den = 0 /\ L_x = 0 /\ energies = <<0, 0>> /\ gains = <<0, 0, 0>>

MathInit == NoOperands

ChooseFraction ==
    /\ NoOperands
    /\ num' \in Fractions /\ den' \in Fractions
    /\ UNCHANGED <<L_x, energies, gains>>

ChooseNumber ==
    /\ NoOperands
    /\ L_x' \in Numbers
    /\ UNCHANGED <<num, den, energies, gains>>

(* Two energies, and gains or a scale for them. *)
ChooseLoudness ==
    /\ NoOperands
    /\ energies' \in Octaves \X Octaves
    /\ gains' \in Octaves \X Octaves \X {0, 8}
    /\ UNCHANGED <<num, den, L_x>>

MathNext == ChooseFraction \/ ChooseNumber \/ ChooseLoudness

MathSpec == MathInit /\ [][MathNext]_mathVars

-----------------------------------------------------------------------------
(* Properties. *)

Near(x, y, tolerance) == x - y \in -tolerance..tolerance

(* The quotient is exact but for the bits that are dropped, one is the     *)
(* nearest number below it, and a division that is not of a part by a      *)
(* whole gives zero.                                                       *)
DivisionsAreExact ==
    div_16by16(num, den) =
        IF num < den THEN (num * 32768) \div den
        ELSE IF num = den /\ num # 0 THEN 32767
        ELSE 0

(* A number is normalized at once, and its place is not passed. *)
NormalizedOnce ==
    L_x > 0 => L_x * 2^normalize_amr_wb(L_x) >= 2^30

(* "Compute 1/sqrt(L_x)": the square of the result times the number is     *)
(* one, up to the error of the straight lines of the table.                *)
RootsMultiply ==
    L_x > 0 =>
        LET r == one_ov_sqrt(L_x)
            xm == High(L_x * 2^normalize_amr_wb(L_x))
            rm == High(r * 2^normalize_amr_wb(r))
            one == 2^(2 * normalize_amr_wb(r) + normalize_amr_wb(L_x) - 1)
        IN  Near(((rm * rm) \div 32768) * xm, one, one \div 512)

(* "pow(2.0, exponant.fraction)" undoes the logarithm.  The comment's range*)
(* of exponents ends at 30, where the function would shift by a negative   *)
(* amount; those that the decoder computes stay below.                     *)
PowersUndoLogarithms ==
    L_x \in 1..(2^30 - 1) =>
        LET log == amrwb_log_2(L_x)
        IN  Near(power_of_2(log.exponent, log.fraction), L_x, L_x \div 2048 + 1)

Power(octave) == IF octave >= 0 THEN 2^Within(octave, 0, 30) ELSE 0

(* With vectors, gains and scales that are powers of two the exact results *)
(* are known: the factor of a subframe whose pitch is 2^r times as strong  *)
(* as its code, the gain that makes two signals equally loud within the    *)
(* nine octaves that it can express, and the noise that is as loud as the  *)
(* excitation, unless the gain is so small that the amount of a shift is   *)
(* taken modulo 16.                                                        *)
EquallyLoud ==
    LET a == energies[1]  b == energies[2]
        g == gains[1]     c == gains[2]     Q == gains[3]
        r == 2 * (a - b) + 2 * (g - c) - 4
        size == IF r < 0 THEN -r ELSE r
        factor == voice_factor(4^a, -3, 2^g, 4^b, 2^c)
        whole == (IF r < 0 THEN -1 ELSE 1) * 32768 * (2^Within(size, 0, 14) - 1)
        root == NoiseRoot(4^a, Q, 4^b)
    IN  /\ size <= 14 => Near(factor * (2^size + 1), whole, 32 * (2^size + 1))
        /\ size \in 15..28 => IF r < 0 THEN factor < -32700 ELSE factor > 32700
        /\ Near(agc2_amr_wb(4^a, 4^b), Within(IF a >= b THEN 8192 * 2^(a - b) ELSE 8192 \div 2^(b - a), 362, 32767), 16)
        /\ root.exp + 1 >= -15 =>
              Near(NoiseGain(4^a, Q, 4^b), Within(Power(16 + a - b - (Q - 3)), 0, 32767), 16)
        /\ b <= a => TiltGain(4^a, 4^b, g) \in 3277..32767

NumbersAreClose == DivisionsAreExact /\ NormalizedOnce /\ RootsMultiply /\ PowersUndoLogarithms /\ EquallyLoud
=============================================================================
