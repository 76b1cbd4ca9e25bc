----------------------------- MODULE CharacterClasses -----------------------------
(***************************************************************************)
(* decaf::lang::Character (Character.h): the ASCII classifiers, the case   *)
(* conversions, compareTo, intValue and the digit() contract.             *)
(*                                                                         *)
(* A char is given by its 8-bit pattern b.  Whether char is signed is      *)
(* implementation-defined: the build's choice is fixed for a run but       *)
(* chosen nondeterministically, so every property is checked for both.     *)
(* The value a comparison in the code sees is CharValue(b).  Each step is  *)
(* one call and records its result.                                        *)
(***************************************************************************)
EXTENDS Integers

CONSTANTS
    CompareInputs,   \* byte patterns given to compareTo
    Radixes          \* radixes given to digit()

VARIABLES
    signedChar,      \* the build: char is signed
    fn, arg, out     \* the last call, its arguments and its result

vars == <<signedChar, fn, arg, out>>

Bytes == 0 .. 255

\* The value of the char with pattern b, and the pattern of a char value.
CharValue(b) == IF signedChar /\ b >= 128 THEN b - 256 ELSE b
Pattern(v) == (v + 256) % 256

\* The character constants of the code, by their ASCII codes.
TAB == 9
LF == 10
FF == 12
CR == 13
SP == 32
Ch0 == 48
Ch9 == 57
ChA == 65
ChZ == 90
Cha == 97
Chz == 122

MIN_RADIX == 2
MAX_RADIX == 36

-----------------------------------------------------------------------------
(* Character.h                                                             *)

\* compareTo(const Character&) and compareTo(const char&).
CompareTo(a, b) ==
    IF CharValue(a) < CharValue(b) THEN -1 ELSE IF CharValue(a) > CharValue(b) THEN 1 ELSE 0

IsWhitespace(b) == CharValue(b) \in {LF, TAB, CR, FF, SP}
IsDigit(b) == CharValue(b) >= Ch0 /\ CharValue(b) <= Ch9
IsLowerCase(b) == CharValue(b) >= Cha /\ CharValue(b) <= Chz
IsUpperCase(b) == CharValue(b) >= ChA /\ CharValue(b) <= ChZ
IsLetter(b) == IsUpperCase(b) \/ IsLowerCase(b)
IsLetterOrDigit(b) == IsLetter(b) \/ IsDigit(b)

\* Fault-injection variant of IsISOControl: the (unsigned char) casts are
\* missing.
IsISOControlNoCast(b) ==
    (CharValue(b) >= 0 /\ CharValue(b) <= 31) \/ (CharValue(b) >= 127 /\ CharValue(b) <= 159)

\* isISOControl(c): (c >= 0 && c <= 0x1f) || the (unsigned char) c in 0x7f..0x9f.
IsISOControl(b) ==
    (CharValue(b) >= 0 /\ CharValue(b) <= 31) \/ (Pattern(CharValue(b)) >= 127 /\ Pattern(CharValue(b)) <= 159)

\* toLowerCase(value) and toUpperCase(value), as patterns.
ToLowerCase(b) ==
    IF ChA <= CharValue(b) /\ CharValue(b) <= ChZ THEN Pattern(CharValue(b) + (Cha - ChA)) ELSE b
ToUpperCase(b) ==
    IF Cha <= CharValue(b) /\ CharValue(b) <= Chz THEN Pattern(CharValue(b) - (Cha - ChA)) ELSE b

\* operator==(const Character&) and operator==(const char&).
Eq(a, b) == CharValue(a) = CharValue(b)

\* operator<(const Character&) and operator<(const char&).
Lt(a, b) == CharValue(a) < CharValue(b)

\* equals(const Character&) and equals(const char&).
CharEquals(a, b) == CharValue(a) = CharValue(b)

\* intValue(): (int) value.
IntValue(b) == CharValue(b)

\* byteValue(): (unsigned char) value, the pattern again.
ByteValue(b) == Pattern(CharValue(b))

\* digit(c, radix), as its contract in the header states it.
Digit(b, radix) ==
    LET c == CharValue(b) IN
    IF radix < MIN_RADIX \/ radix > MAX_RADIX THEN -1
    ELSE IF IsDigit(b) /\ c - Ch0 < radix THEN c - Ch0
    ELSE IF IsUpperCase(b) /\ c < radix + ChA - 10 THEN c - ChA + 10
    ELSE IF IsLowerCase(b) /\ c < radix + Cha - 10 THEN c - Cha + 10
    ELSE -1

-----------------------------------------------------------------------------
(* Calls                                                                   *)

Init == signedChar \in BOOLEAN /\ fn = "none" /\ arg = 0 /\ out = 0

CallClassifier ==
    \E b \in Bytes :
        /\ fn' = "classify" /\ arg' = b
        /\ out' = [isWhitespace |-> IsWhitespace(b), isDigit |-> IsDigit(b),
                   isLowerCase |-> IsLowerCase(b), isUpperCase |-> IsUpperCase(b),
                   isLetter |-> IsLetter(b), isLetterOrDigit |-> IsLetterOrDigit(b),
                   isISOControl |-> IsISOControl(b)]
        /\ UNCHANGED signedChar
CallToLowerCase ==
    \E b \in Bytes : fn' = "toLowerCase" /\ arg' = b /\ out' = ToLowerCase(b) /\ UNCHANGED signedChar
CallToUpperCase ==
    \E b \in Bytes : fn' = "toUpperCase" /\ arg' = b /\ out' = ToUpperCase(b) /\ UNCHANGED signedChar
CallDigit ==
    \E b \in Bytes, r \in Radixes :
        fn' = "digit" /\ arg' = <<b, r>> /\ out' = Digit(b, r) /\ UNCHANGED signedChar
CallCompareTo ==
    \E a, b \in CompareInputs :
        /\ fn' = "compareTo" /\ arg' = <<a, b>>
        /\ out' = [compareTo |-> CompareTo(a, b), eq |-> Eq(a, b), lt |-> Lt(a, b),
                   equals |-> CharEquals(a, b)]
        /\ UNCHANGED signedChar
CallIntValue ==
    \E b \in Bytes :
        /\ fn' = "intValue" /\ arg' = b
        /\ out' = [intValue |-> IntValue(b), byteValue |-> ByteValue(b)]
        /\ UNCHANGED signedChar

Next ==
    CallClassifier \/ CallToLowerCase \/ CallToUpperCase \/ CallDigit \/ CallCompareTo \/ CallIntValue

Spec == Init /\ [][Next]_vars

-----------------------------------------------------------------------------
(* Properties, against the ASCII tables by byte pattern                    *)

\* The classifiers pick exactly the ASCII classes, and isISOControl the
\* C0 and C1 control codes 0x00-0x1F and 0x7F-0x9F, whether char is
\* signed or not: a byte 0x80-0xFF is never a letter or digit, and a
\* C1 control is a negative char in a signed build.
ClassifiersExact ==
    fn = "classify" =>
        out = [isWhitespace |-> arg \in {TAB, LF, FF, CR, SP},
               isDigit |-> arg \in (Ch0 .. Ch9),
               isLowerCase |-> arg \in (Cha .. Chz),
               isUpperCase |-> arg \in (ChA .. ChZ),
               isLetter |-> arg \in (ChA .. ChZ) \cup (Cha .. Chz),
               isLetterOrDigit |-> arg \in (Ch0 .. Ch9) \cup (ChA .. ChZ) \cup (Cha .. Chz),
               isISOControl |-> arg \in (0 .. 31) \cup (127 .. 159)]

=============================================================================
