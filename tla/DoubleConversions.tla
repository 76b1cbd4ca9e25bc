---------------------------- MODULE DoubleConversions ----------------------------
(***************************************************************************)
(* decaf::lang::Double (Double.cpp): compare(), doubleToLongBits(),        *)
(* doubleToRawLongBits(), isNaN(), isInfinite(), toHexString() and         *)
(* parseDouble(), on IEEE 754 binary values given by their bit patterns.   *)
(*                                                                         *)
(* The format is a parameter: ExpBits exponent and ManBits mantissa bits   *)
(* (11 and 52 for double); the masks, the NaN pattern, the bias (1023) and *)
(* the subnormal exponent (-1022) of the code are those of the format.     *)
(* parseDouble() reads the string into a float (FExpBits, FManBits: 8 and  *)
(* 23) and widens it.  A string is abstracted to the exact value it spells *)
(* (a value of the double format) or to NotANumber.                        *)
(***************************************************************************)
EXTENDS Integers, Sequences

CONSTANTS
    ExpBits, ManBits,      \* the double format
    FExpBits, FManBits,    \* the float format parseDouble() reads into
    CompareInputs,         \* bit patterns given to compare()
    HexInputs,             \* bit patterns given to toHexString()
    ParseInputs,           \* bit patterns of the values the parsed strings spell
    NotANumber, NFE        \* model values: an unparsable string; NumberFormatException

ASSUME ManBits % 4 = 0 /\ ExpBits >= 2 /\ FExpBits < ExpBits /\ FManBits < ManBits

VARIABLES fn, arg, out

vars == <<fn, arg, out>>

-----------------------------------------------------------------------------
(* The bit layout                                                          *)

W == 1 + ExpBits + ManBits
ExpMax == 2^ExpBits - 1
Bias == 2^(ExpBits - 1) - 1
SignMask == 2^(W - 1)
\* DOUBLE_NAN_BITS = DOUBLE_EXPONENT_MASK | the top mantissa bit: quiet_NaN.
NaNBits == ExpMax * 2^ManBits + 2^(ManBits - 1)
PosInfBits == ExpMax * 2^ManBits
NegInfBits == SignMask + PosInfBits

SignOf(b) == b \div SignMask
ExpOf(b) == (b \div 2^ManBits) % 2^ExpBits
ManOf(b) == b % 2^ManBits

\* A W-bit pattern read as the signed long long the code compares.
Signed(b) == IF b >= SignMask THEN b - 2^W ELSE b

\* The value of a pattern that is not a NaN, scaled by 2^(Bias+ManBits-1)
\* to an integer; the infinities lie beyond every finite value.
Magnitude(b) ==
    IF ExpOf(b) = 0 THEN ManOf(b) ELSE (2^ManBits + ManOf(b)) * 2^(ExpOf(b) - 1)
Real(b) == IF SignOf(b) = 1 THEN -Magnitude(b) ELSE Magnitude(b)

IsNaNPattern(b) == ExpOf(b) = ExpMax /\ ManOf(b) # 0

\* The C++ comparisons of two doubles: false whenever a NaN is involved.
FEq(a, b) == ~IsNaNPattern(a) /\ ~IsNaNPattern(b) /\ Real(a) = Real(b)
FGt(a, b) == ~IsNaNPattern(a) /\ ~IsNaNPattern(b) /\ Real(a) > Real(b)

-----------------------------------------------------------------------------
(* Double.cpp                                                              *)

\* doubleToRawLongBits(): the bits as they are.  Also the fault-injection
\* variant of DoubleToLongBits: NaNs are not canonicalised.
DoubleToRawLongBits(b) == Signed(b)

\* doubleToLongBits(): every NaN collapses to DOUBLE_NAN_BITS.
DoubleToLongBits(b) ==
    IF ExpOf(b) = ExpMax /\ ManOf(b) # 0 THEN Signed(NaNBits) ELSE Signed(b)

\* isNaN(value): value != value.  isInfinite(value).
IsNaN(b) == ~FEq(b, b)
IsInfinite(b) == FEq(b, PosInfBits) \/ FEq(b, NegInfBits)

\* compare(d1, d2).
Compare(d1, d2) ==
    LET nan == DoubleToLongBits(NaNBits)
        l1 == DoubleToLongBits(d1)
        l2 == DoubleToLongBits(d2)
    IN CASE l1 = nan -> IF l2 = nan THEN 0 ELSE 1
         [] l2 = nan -> -1
         [] FEq(d1, d2) -> IF l1 = l2 THEN 0 ELSE IF l1 > l2 THEN 1 ELSE -1
         [] OTHER -> IF FGt(d1, d2) THEN 1 ELSE -1

\* Long::toHexString(n): the hex digits of n, no leading zeros, "0" for 0.
RECURSIVE HexDigits(_)
HexDigits(n) == IF n < 16 THEN <<n>> ELSE Append(HexDigits(n \div 16), n % 16)

\* The loop that drops trailing zero hex digits of the significand, counting
\* down the fraction digits: <<significand, fractionDigits>>.
RECURSIVE StripTrailingZeros(_, _)
StripTrailingZeros(sig, fd) ==
    IF sig # 0 /\ sig % 16 = 0 THEN StripTrailingZeros(sig \div 16, fd - 1) ELSE <<sig, fd>>

\* Fault-injection variant of FractionDigits: the leading '0' padding is
\* left out.
FractionDigitsUnpadded(significand) ==
    LET st == StripTrailingZeros(significand, ManBits \div 4)
    IN HexDigits(st[1])

\* The fraction digits toHexString() prints: the stripped significand in
\* hex, with '0's inserted before it up to fractionDigits.
FractionDigits(significand) ==
    LET st == StripTrailingZeros(significand, ManBits \div 4)
        hex == HexDigits(st[1])
        pad == IF st[1] # 0 /\ st[2] > Len(hex) THEN st[2] - Len(hex) ELSE 0
    IN [i \in 1 .. pad |-> 0] \o hex

\* toHexString(value): "NaN", "Infinity", "-Infinity", or the string
\* [-]0x<lead>.<digits>p<exp>, given as a record of those parts.
ToHexString(b) ==
    IF ~FEq(b, b) THEN "NaN"
    ELSE IF FEq(b, PosInfBits) THEN "Infinity"
    ELSE IF FEq(b, NegInfBits) THEN "-Infinity"
    ELSE LET bitValue == DoubleToLongBits(b) % 2^W
             negative == SignOf(bitValue) = 1
             exponent == ExpOf(bitValue)
             significand == ManOf(bitValue)
         IN IF exponent = 0 /\ significand = 0
            THEN [neg |-> negative, lead |-> 0, digits |-> <<0>>, exp |-> 0]
            ELSE [neg |-> negative,
                  lead |-> IF exponent = 0 THEN 0 ELSE 1,
                  digits |-> FractionDigits(significand),
                  exp |-> IF exponent = 0 THEN 1 - Bias
                          ELSE Signed((exponent - Bias) % 2^W)]

\* The values of the float format, on the scale of Real.
FBias == 2^(FExpBits - 1) - 1
FExpMax == 2^FExpBits - 1
\* A finite float as <<sign, exponent, mantissa>>.
FloatFinite == {0, 1} \X (0 .. FExpMax - 1) \X (0 .. 2^FManBits - 1)
FloatReal(f) ==
    LET mag == IF f[2] = 0 THEN f[3] * 2^(Bias - FBias + ManBits - FManBits)
               ELSE (2^FManBits + f[3]) * 2^(f[2] - 1 + Bias - FBias + ManBits - FManBits)
    IN IF f[1] = 1 THEN -mag ELSE mag

Dist(x, y) == IF x > y THEN x - y ELSE y - x

\* stream >> result with result a float: the float nearest the value the
\* string spells, ties to the even mantissa.
ReadFloat(x) ==
    LET nearest == {f \in FloatFinite :
                      \A g \in FloatFinite : Dist(FloatReal(f), x) <= Dist(FloatReal(g), x)}
    IN CHOOSE f \in nearest : \A g \in nearest : f[3] % 2 = 0 \/ g = f

\* parseDouble(value): the float read from the string, widened to double
\* (given by its value); NumberFormatException when not all of it is read.
ParseDouble(s) == IF s = NotANumber THEN NFE ELSE FloatReal(ReadFloat(Real(s)))

-----------------------------------------------------------------------------
(* Calls                                                                   *)

Init == fn = "none" /\ arg = 0 /\ out = 0

CallCompare ==
    \E d1, d2 \in CompareInputs :
        fn' = "compare" /\ arg' = <<d1, d2>> /\ out' = Compare(d1, d2)
CallToHexString ==
    \E b \in HexInputs : fn' = "toHexString" /\ arg' = b /\ out' = ToHexString(b)
CallParseDouble ==
    \E s \in ParseInputs \cup {NotANumber} :
        fn' = "parseDouble" /\ arg' = s /\ out' = ParseDouble(s)
CallIsNaN ==
    \E b \in CompareInputs : fn' = "isNaN" /\ arg' = b /\ out' = IsNaN(b)
CallIsInfinite ==
    \E b \in CompareInputs : fn' = "isInfinite" /\ arg' = b /\ out' = IsInfinite(b)

Next == CallCompare \/ CallToHexString \/ CallParseDouble \/ CallIsNaN \/ CallIsInfinite

Spec == Init /\ [][Next]_vars

-----------------------------------------------------------------------------
(* Properties, against reference definitions                               *)

\* The total order Java's Double.compare defines and decaf documents:
\* -Infinity < negative values < -0.0 < 0.0 < positive values < Infinity
\* < NaN, every NaN equal to every other.
OrderKey(b) ==
    IF IsNaNPattern(b) THEN 2 * Magnitude(PosInfBits) + 2
    ELSE 2 * Real(b) + (IF Real(b) = 0 /\ SignOf(b) = 0 THEN 1 ELSE 0)
Sign(x) == IF x > 0 THEN 1 ELSE IF x < 0 THEN -1 ELSE 0

\* compare() is that total order, on every pair of the inputs: the NaN
\* canonicalisation of doubleToLongBits() and the signed compare of the
\* bits of -0.0 and 0.0 both matter.
CompareIsTotalOrder ==
    fn = "compare" => out = Sign(OrderKey(arg[1]) - OrderKey(arg[2]))

\* toHexString() of a finite value prints that value exactly and in
\* canonical form: the number [-]<lead>.<digits> x 2^exp equals it, the
\* fraction has at most ManBits/4 digits and ends in a non-zero digit
\* (or is the single "0").
HexStringDenotesValue ==
    fn = "toHexString" /\ ~IsNaNPattern(arg) /\ arg \notin {PosInfBits, NegInfBits} =>
        LET r == out
            n == Len(r.digits)
            d == LET RECURSIVE Num(_)
                     Num(k) == IF k = 0 THEN 0 ELSE Num(k - 1) * 16 + r.digits[k]
                 IN Num(n)
        IN /\ (r.lead * 16^n + d) * 2^(r.exp + Bias + ManBits - 1) = Magnitude(arg) * 16^n
           /\ r.neg = (SignOf(arg) = 1)
           /\ n <= ManBits \div 4
           /\ (r.digits[n] # 0 \/ n = 1)

\* parseDouble() returns the double the string spells, as the header
\* documents ("the double value represented by the string").
ParseDoubleExact ==
    fn = "parseDouble" /\ arg # NotANumber => out = Real(arg)

=============================================================================
