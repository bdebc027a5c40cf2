------------------------------ MODULE AmrFilter ------------------------------
(***************************************************************************)
(* From a spectrum to filters: the polynomial of a filter from its cosines *)
(* (isp_az), the spectrum of the high band from that of the low one        *)
(* (isf_extrapolation), and the spectrum of comfort noise between two that *)
(* are received (dtx_dec_amr_wb, CN_dithering).                            *)
(*                                                                         *)
(* One action is the choice of what is computed.                           *)
(***************************************************************************)
EXTENDS AmrSpectrum, AmrMath

CONSTANTS
    Isps,         \* vectors of cosines in units of 1/2, of any even order
    Spectra,      \* ordered vectors of 16 ISFs
    Waits,        \* frames since the last description of comfort noise
    Seeds         \* of the dithering

IsfReceived == -26000..26000    \* the tables put none beyond 17000
Wait == 0..33
Seed == -32768..32767

ASSUME FilterAssumption ==
    /\ Spectra \subseteq [1..16 -> IsfReceived]
    /\ Waits \subseteq Wait /\ Seeds \subseteq Seed

VARIABLES
    isp,          \* cosines
    isfs,         \* one spectrum, or two
    elapsed,      \* frames since the last description, and before it
    dither_seed

filterVars == <<isp, isfs, elapsed, dither_seed>>

Cast16(x) == ((x + 32768) % 65536) - 32768

(* fxp_mul32_by_16b: the upper part of a product of 48 bits. *)
MulLong(x, s) == (x \div 65536) * s + (((x % 65536) * s) \div 65536)

(* x >> n, rounded (shr_rnd; written out in Isp_Az). *)
RightRounded(x, n) == (x \div 2^n) + ((x \div 2^(n - 1)) % 2)

-----------------------------------------------------------------------------
(* f times 1 - 2c/z + 1/z^2; f[1] is the coefficient without z.  The       *)
(* product is symmetric and only its first half is kept, in the place of   *)
(* f: the next coefficient of f is the one before its middle.              *)
TimesFactor(f, c, i, one) ==
    Append([k \in 1..i |->
               IF k = 1 THEN f[1]
               ELSE IF k = 2 THEN f[2] - c * (one \div 2^14)
               ELSE f[k] - 4 * MulLong(f[k - 1], c) + f[k - 2]],
           2 * f[i - 1] - 4 * MulLong(f[i], c))

(* The product over the cosines at every second place, in Q23 ... *)
Get_isp_pol(c, n) ==
    FoldLeft(LAMBDA f, i : TimesFactor(f, c[2 * i - 1], i, 2^23), <<2^23, -c[1] * 2^9>>, [k \in 1..(n - 1) |-> k + 1])

(* ... or, for the long filter, in Q21. *)
Get_isp_pol_16kHz(c, n) ==
    FoldLeft(LAMBDA f, i : TimesFactor(f, c[2 * i - 1], i, 2^21), <<2^21, -c[1] * 2^7>>, [k \in 1..(n - 1) |-> k + 1])

(* p times 1 + c, and p times 1 - 1/z^2 and 1 - c. *)
Symmetric(p, c) == [k \in DOMAIN p |-> p[k] + 2 * MulLong(p[k], c)]

Antisymmetric(p, c) ==
    LET g == [k \in DOMAIN p |-> IF k > 2 THEN p[k] - p[k - 2] ELSE p[k]]
    IN  [k \in DOMAIN p |-> g[k] - 2 * MulLong(g[k], c)]

(* How often the coefficients must be halved to fit into 16 bits. *)
Halvings(f1, f2) ==
    LET size(x) == IF x < 0 THEN -x ELSE x
        places == 2..Len(f2)
        sums == {size(f1[k] + f2[k]) : k \in places} \cup {size(f1[k] - f2[k]) : k \in places}
        room == normalize_amr_wb(CHOOSE x \in sums \cup {1} : \A y \in sums : x >= y)
    IN  IF room < 4 THEN 4 - room ELSE 0

(* The first half from the sums, the second from the differences. *)
Joined(f1, f2, last, q) ==
    LET nc == Len(f2) IN
    Append([i \in 1..(2 * nc) |->
               IF i = 1 THEN 4096 \div 2^q
               ELSE LET j == IF i <= nc + 1 THEN i ELSE 2 * nc + 2 - i
                        sum == IF i <= nc THEN f1[j] + f2[j] ELSE IF i = nc + 1 THEN f1[j] ELSE f1[j] - f2[j]
                    IN  Cast16(RightRounded(sum, 12 + q))],
           RightRounded(last, 3 + q))

Filter(f1, f2, last, adaptive_scaling) ==
    Joined(f1, f2, last, IF adaptive_scaling THEN Halvings(f1, f2) ELSE 0)

(* The coefficients of a filter of order m, 4096 for one; if they are too  *)
(* great, as many times halved as needed.                                  *)
Isp_Az(c, m, adaptive_scaling) ==
    LET nc == m \div 2
        quarter(f) == [k \in DOMAIN f |-> ShiftLong(f[k], 2)]
        Pol(d, n) == IF nc > 8 THEN quarter(Get_isp_pol_16kHz(d, n)) ELSE Get_isp_pol(d, n)
    IN  Filter(Symmetric(Pol(c, nc), c[m]), Antisymmetric(Pol(Tail(c), nc - 1), c[m]), c[m], adaptive_scaling)

-----------------------------------------------------------------------------
(* The high band: four more ISFs above the fifteenth.                      *)

M16k_ISFS == 20

INV_LENGTH == 2731

(* The square of a product of two differences, as mpy_dpf_32 gives it. *)
SquaredProduct(a, b) ==
    LET product == 2 * a * b
        hi == High(product)
        lo == (product % 65536) \div 2
    IN  2 * hi * hi + 4 * Mult(hi, lo)

(* At which of the lags 2, 3 and 4 the distances of the ISFs are most      *)
(* alike, less one.                                                        *)
MaxCorr(diff) ==
    LET sum == FoldLeft(LAMBDA a, i : a + 2 * diff[i] * INV_LENGTH, 0, [k \in 1..12 |-> k + 1])
        widest == CHOOSE x \in {diff[i] : i \in 0..13} : \A i \in 0..13 : diff[i] <= x
        exp == norm_s(widest)
        wide(i) == diff[i] * 2^exp - Rounded(sum) * 2^exp
        corr == [lag \in 2..4 |->
                    FoldLeft(LAMBDA a, i : LET b == SquaredProduct(wide(i), wide(i - lag))
                                           IN  IF a > 2147483647 - b THEN 2147483647 ELSE a + b,
                             0, [k \in 1..7 |-> k + 6])]
        best == IF corr[2] > corr[3] THEN 2 ELSE 3
    IN  (IF corr[4] > corr[best] THEN 4 ELSE best) - 1

(* "The difference between ISF(n) and ISF(n-2) should be at least 500 Hz": *)
(* the smaller of two distances is widened.                                *)
Spread1280(d, i) ==
    IF d[i] + d[i - 1] >= 1280 THEN d
    ELSE IF d[i] > d[i - 1] THEN [d EXCEPT ![i - 1] = 1280 - d[i]]
    ELSE [d EXCEPT ![i] = 1280 - d[i - 1]]

(* The last distances go on as before ... *)
Extended(h, lag) ==
    FoldLeft(LAMBDA s, i : Append(s, Sat16(s[i] + s[i - lag] - s[i - 1 - lag])), SubSeq(h, 1, 15), <<15, 16, 17, 18>>)

(* ... stretched so that the last ISF is where those of the low band       *)
(* suggest ...                                                             *)
Stretched(h, more) ==
    LET aim  == Mult(h[3] - Sat16(h[5] + h[4]), 5461) + 20390
        tmp  == (IF aim > 19456 THEN 19456 ELSE aim) - h[15]
        tmp2 == more[19] - h[15]
        exp  == norm_s(tmp) - 1
        exp2 == norm_s(tmp2)
        coeff == div_16by16(tmp * 2^exp, tmp2 * 2^exp2)
        shift(d) == IF exp2 >= exp THEN d * 2^(exp2 - exp) ELSE d \div 2^(exp - exp2)
    IN  FoldLeft(Spread1280, [i \in 0..3 |-> shift(Mult(more[i + 16] - more[i + 15], coeff))], <<1, 2, 3>>)

(* ... and all of them are scaled to 16 kHz. *)
isf_extrapolation(h) ==
    LET lag  == MaxCorr([i \in 0..13 |-> h[i + 2] - h[i + 1]])
        wide == Stretched(h, Extended(h, lag))
        isf == FoldLeft(LAMBDA s, i : Append(s, Sat16(s[i + 15] + wide[i])), SubSeq(h, 1, 15), <<0, 1, 2, 3>>)
    IN  Append([i \in 1..(M16k_ISFS - 1) |-> Mult(isf[i], 26214)], h[16])

-----------------------------------------------------------------------------
(* Comfort noise between two descriptions. *)

(* 1/n of the frames from one description to the next, in 1/32768. *)
true_sid_period_inv(since_last_sid) ==
    LET n == IF since_last_sid > 32 THEN 32 ELSE since_last_sid
    IN  IF n >= 2 THEN div_16by16(1024, Sat16(n * 1024)) ELSE 16384

(* How much of the new one, in 1/16384: not more than all of it. *)
int_fac(since_last_sid, inv) ==
    LET fac == Mult(Sat16(since_last_sid * 1024), inv) IN 16 * (IF fac > 1024 THEN 1024 ELSE fac)

NoiseBetween(old, new, fac) ==
    [i \in DOMAIN old |-> Sat16(2 * Sat16(Mult(fac, new[i]) + Mult(16384 - fac, old[i])))]

mult_int16_r(a, b) == Sat16((a * b + 16384) \div 32768)

ISF_DITH_GAP == 448

(* The numbers drawn from a seed, and the sum of halves of two of them. *)
Drawn(seed) ==
    LET word[k \in 1..33] == IF k = 1 THEN seed ELSE noise_gen_amrwb(word[k - 1])
    IN  word

Dither(drawn, n) == (drawn[2 * n + 2] \div 2) + (drawn[2 * n + 3] \div 2)

(* Energy (no less than none), then one ISF after the other: each is kept  *)
(* at a distance from the one before it, but the fifteenth at most 16384.  *)
CN_dithering(isf, L_log_en_int, seed) ==
    LET drawn == Drawn(seed)
        energy == L_log_en_int + 2 * Dither(drawn, 0) * 75
        moved[i \in 1..15] ==
            LET temp == Sat16(isf[i] + mult_int16_r(Dither(drawn, i), 256 + 2 * (i - 1)))
                least == IF i = 1 THEN ISF_GAP ELSE moved[i - 1] + ISF_DITH_GAP
            IN  IF temp < least THEN least ELSE temp
    IN  [isf    |-> [i \in 1..16 |-> IF i = 16 THEN isf[16] ELSE IF i = 15 /\ moved[15] > 16384 THEN 16384 ELSE moved[i]],
         energy |-> IF energy < 0 THEN 0 ELSE energy,
         seed   |-> drawn[33]]

-----------------------------------------------------------------------------
NoSpectrum == isp = << >> /\ isfs = << >> /\ elapsed = <<0, 0>> /\ dither_seed = 0

FilterInit == NoSpectrum

ChooseIsps ==
    /\ NoSpectrum
    /\ isp' \in Isps
    /\ UNCHANGED <<isfs, elapsed, dither_seed>>

ChooseSpectrum ==
    /\ NoSpectrum
    /\ \E s \in Spectra : isfs' = <<s>>
    /\ UNCHANGED <<isp, elapsed, dither_seed>>

ChooseNoise ==
    /\ NoSpectrum
    /\ isfs' \in Spectra \X Spectra
    /\ elapsed' \in Waits \X Waits
    /\ dither_seed' \in Seeds
    /\ UNCHANGED isp

FilterNext == ChooseIsps \/ ChooseSpectrum \/ ChooseNoise

FilterSpec == FilterInit /\ [][FilterNext]_filterVars

-----------------------------------------------------------------------------
(* Properties. *)

(* The reference: f[k + 1] is the coefficient of the k-th power of 1/z. *)
Coefficient(f, k) == IF k \in DOMAIN f THEN f[k] ELSE 0

Product(c) ==
    FoldLeft(LAMBDA f, x : Append([k \in 1..(Len(f) + 1) |-> Coefficient(f, k) - x * Coefficient(f, k - 1) + Coefficient(f, k - 2)],
                                  f[Len(f)]),
             <<1>>, c)

Odd(c, m) == [i \in 1..(m \div 2) |-> c[2 * i - 1]]
EvenBut(c, m) == [i \in 1..(m \div 2 - 1) |-> c[2 * i]]

(* A filter of order m is half the sum of a symmetric polynomial times     *)
(* 1 + c[m] and an antisymmetric one times 1 - c[m], whose factors are     *)
(* given by the cosines at odd and even places.  The coefficients are      *)
(* those, rounded, of order 4, 16 and 20 and however often halved, and fit *)
(* into 16 bits if halving is allowed.                                     *)
PolynomialsAreProducts ==
    isp # << >> =>
        LET m == Len(isp)
            f == Product(Odd(isp, m))  g == Product(EvenBut(isp, m))
            fourfold == [k \in 1..(m + 1) |-> Coefficient(f, k) * (2 + isp[m]) + (Coefficient(g, k) - Coefficient(g, k - 2)) * (2 - isp[m])]
            Fits(b) == \A k \in DOMAIN b : b[k] = (2 * fourfold[k] * b[1] + 4) \div 8
            Az(adaptive) == Isp_Az([i \in 1..m |-> 16384 * isp[i]], m, adaptive)
        IN  /\ \A b \in {Az(TRUE)} : Fits(b) /\ \A k \in 1..(m + 1) : b[k] \in -32768..32767
            /\ (\A k \in 1..(m + 1) : fourfold[k] \in -31..31) => \A b \in {Az(FALSE)} : Fits(b) /\ b[1] = 4096

(* The spectrum of the high band goes on in order and stays in the table   *)
(* of cosines, and two formants are never closer than 500 Hz.              *)
HighBandStaysOrdered ==
    Len(isfs) = 1 =>
        \A isf \in {isf_extrapolation(isfs[1])} :
        /\ \A i \in 2..(M16k_ISFS - 1) : isf[i] > isf[i - 1]
        /\ \A i \in 17..(M16k_ISFS - 1) : isf[i] - isf[i - 2] >= 1023
        /\ isf[M16k_ISFS - 1] < 16384

(* Comfort noise moves from the old description to the new one and no      *)
(* farther, however long it lasts, and dithering leaves it in order.       *)
NoiseStaysBetween ==
    Len(isfs) = 2 =>
        LET old == isfs[1]  new == isfs[2]
            fac == int_fac(elapsed[1], true_sid_period_inv(elapsed[2]))
            isf == NoiseBetween(old, new, fac)
            noise == CN_dithering(isf, 0, dither_seed)
        IN  /\ \A i \in 1..16 : isf[i] \in (IF old[i] < new[i] THEN old[i] - 3..new[i] ELSE new[i] - 3..old[i])
            /\ elapsed[1] = 0 => \A i \in 1..16 : Near(isf[i], old[i], 3)
            /\ elapsed[1] >= elapsed[2] /\ elapsed[1] >= 2 => \A i \in 1..16 : Near(isf[i], new[i], 3 + 32767 \div 256)
            /\ \A i \in 2..14 : noise.isf[i] - noise.isf[i - 1] >= ISF_DITH_GAP
            /\ noise.isf[1] >= ISF_GAP /\ noise.isf[15] <= 16384 /\ noise.energy >= 0
=============================================================================
