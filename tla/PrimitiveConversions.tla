------------------------- MODULE PrimitiveConversions -------------------------
(***************************************************************************)
(* decaf::lang::Short and decaf::lang::Byte (Short.cpp, Byte.cpp): the     *)
(* narrowing of the int that Integer::parseInt / Integer::decode return    *)
(* into a short or an unsigned char, the String constructors, the limits   *)
(* MIN_VALUE / MAX_VALUE, and Short::reverseBytes.                         *)
(*                                                                         *)
(* A string is abstracted to the int it spells, or to NotANumber when      *)
(* Integer::parseInt throws on it; the C++ casts keep their width: (short) *)
(* wraps modulo 2^16 into -2^15 .. 2^15-1 (two's complement, as every      *)
(* supported compiler builds it) and (unsigned char) reduces modulo 2^8.   *)
(* Each step is one call of one of these functions and records its result, *)
(* NFE when it throws NumberFormatException.                               *)
(***************************************************************************)
EXTENDS Integers

CONSTANTS
    IntInputs,     \* ints the parsed strings spell (within the 32-bit int range)
    ShortInputs,   \* short arguments of reverseBytes
    NotANumber,    \* model value: a string Integer::parseInt rejects
    NFE            \* model value: NumberFormatException thrown

\* The range of the 32-bit int Integer::parseInt returns.
IntMin == -2147483647 - 1
IntMax == 2147483647

ASSUME IntInputs \subseteq IntMin .. IntMax

VARIABLES
    fn,            \* the function last called
    arg,           \* its argument
    out            \* its result, NFE if it threw

vars == <<fn, arg, out>>

-----------------------------------------------------------------------------
(* Conversions, with the widths of the C++ types                           *)

\* Fault-injection variant of ToShort: (unsigned short) i, no sign.
ToUShort(i) == i % 2^16

\* (short) i
ToShort(i) == (((i % 2^16) + 2^15) % 2^16) - 2^15

\* (unsigned char) i
ToUChar(i) == i % 2^8

\* Short::MIN_VALUE = (short)0x8000, Short::MAX_VALUE = (short)0x7FFF.
ShortMinValue == ToShort(32768)
ShortMaxValue == ToShort(32767)

\* Byte::MIN_VALUE = 0x7F, Byte::MAX_VALUE = 0x80.
ByteMinValue == 127
ByteMaxValue == 128

\* Fault-injection variant of ShortNarrow: the round-trip check is missing.
ShortNarrowUnchecked(s) == IF s = NotANumber THEN NFE ELSE ToShort(s)

\* Short::parseShort(s, radix) and Short::decode(s): narrow the int and throw
\* when the narrowed value differs from it.
ShortNarrow(s) ==
    IF s = NotANumber \/ ToShort(s) # s THEN NFE ELSE ToShort(s)

\* Byte::parseByte(s, radix) and Byte::decode(s), the same with unsigned char.
ByteNarrow(s) ==
    IF s = NotANumber \/ ToUChar(s) # s THEN NFE ELSE ToUChar(s)

\* Short::Short(const String&): value(0), then parseShort(value) whose result
\* is discarded.
ShortFromString(s) == IF ShortNarrow(s) = NFE THEN NFE ELSE 0

\* Byte::Byte(const String&): value = parseByte(value).
ByteFromString(s) == ByteNarrow(s)

\* Fault-injection variant of ReverseBytes: the swapped pattern is returned
\* as the unsigned short, without the conversion back to short.
ReverseBytesUnsigned(v) ==
    LET t == v % 2^16 IN ((t \div 2^8) % 2^8) + (t % 2^8) * 2^8

\* Short::reverseBytes(value): swap the bytes of the unsigned short pattern
\* and return it as a short.
ReverseBytes(v) ==
    LET t == v % 2^16 IN ToShort(((t \div 2^8) % 2^8) + (t % 2^8) * 2^8)

-----------------------------------------------------------------------------
(* Calls                                                                   *)

Strings == IntInputs \cup {NotANumber}

Init == fn = "none" /\ arg = 0 /\ out = 0

ParseShort == \E s \in Strings :
    fn' = "Short::parseShort" /\ arg' = s /\ out' = ShortNarrow(s)
DecodeShort == \E s \in Strings :
    fn' = "Short::decode" /\ arg' = s /\ out' = ShortNarrow(s)
NewShort == \E s \in Strings :
    fn' = "Short(String)" /\ arg' = s /\ out' = ShortFromString(s)
ShortValueOf == \E s \in Strings :
    fn' = "Short::valueOf" /\ arg' = s /\ out' = ShortNarrow(s)
ParseByte == \E s \in Strings :
    fn' = "Byte::parseByte" /\ arg' = s /\ out' = ByteNarrow(s)
DecodeByte == \E s \in Strings :
    fn' = "Byte::decode" /\ arg' = s /\ out' = ByteNarrow(s)
NewByte == \E s \in Strings :
    fn' = "Byte(String)" /\ arg' = s /\ out' = ByteFromString(s)
ReverseShort == \E v \in ShortInputs :
    fn' = "Short::reverseBytes" /\ arg' = v /\ out' = ReverseBytes(v)

Next ==
    \/ ParseShort \/ DecodeShort \/ NewShort \/ ShortValueOf
    \/ ParseByte \/ DecodeByte \/ NewByte \/ ReverseShort

Spec == Init /\ [][Next]_vars

-----------------------------------------------------------------------------
(* Properties, against reference definitions of the two types              *)

ShortFns == {"Short::parseShort", "Short::decode", "Short::valueOf", "Short(String)"}
ByteFns == {"Byte::parseByte", "Byte::decode", "Byte(String)"}

\* The values a 16-bit two's complement short and an 8-bit unsigned char hold.
ShortRange == -(2^15) .. 2^15 - 1
UCharRange == 0 .. 2^8 - 1

\* High and low byte of the 16-bit pattern of v.
HiByte(v) == ((v + 2^16) % 2^16) \div 2^8
LoByte(v) == ((v + 2^16) % 2^16) % 2^8

TypeOK ==
    /\ fn \in {"none", "Short::reverseBytes"} \cup ShortFns \cup ByteFns
    /\ arg \in Strings \cup ShortInputs
    /\ out \in ShortRange \cup {NFE}

\* Narrowing parses accept exactly the strings whose value the target type
\* holds and return that value: neither silent wrap-around (40000 read as
\* -25536) nor a rejected in-range value.
NarrowingExact ==
    /\ fn \in {"Short::parseShort", "Short::decode", "Short::valueOf"} =>
          IF arg \in ShortRange THEN out = arg ELSE out = NFE
    /\ fn \in ByteFns =>
          IF arg \in UCharRange THEN out = arg ELSE out = NFE

\* Short::reverseBytes returns the short whose bytes are those of its
\* argument swapped, so applying it twice gives the argument back.
ReverseBytesSwaps ==
    fn = "Short::reverseBytes" =>
        /\ out \in ShortRange
        /\ HiByte(out) = LoByte(arg) /\ LoByte(out) = HiByte(arg)

\* Every value a Byte parse yields lies between Byte::MIN_VALUE and
\* Byte::MAX_VALUE.
ByteWithinLimits ==
    fn \in ByteFns /\ out # NFE => ByteMinValue <= out /\ out <= ByteMaxValue

\* Short(s) holds the value Short::valueOf(s) and parseShort(s) return.
ShortStringConstructorKeepsValue ==
    fn = "Short(String)" /\ out # NFE => out = arg

=============================================================================
