---------------------------- MODULE DataInputStream ----------------------------
(***************************************************************************)
(* decaf::io::DataInputStream (DataInputStream.h): the reads that rebuild  *)
(* primitives, lines, NUL-terminated strings and byte blocks from the      *)
(* bytes of the wrapped InputStream.  The tree has the header only, so the *)
(* reads follow the contract its comments state: the byte formulas, the    *)
(* line terminators, the EOF and argument rules.                           *)
(*                                                                         *)
(* The wrapped stream holds a fixed sequence of bytes (input) of which     *)
(* pos have been read.  Each call is one step and records the call, its    *)
(* arguments, the position it started at, its result and the exception it  *)
(* raised.  The multi-byte reads go through readAllData, whose loop over   *)
(* the wrapped stream's read() may end in an I/O error after some of the   *)
(* bytes (bounded by MaxIOErrors).  char is taken to be signed.            *)
(***************************************************************************)
EXTENDS Integers, Sequences, SequencesExt

CONSTANTS
    Inputs,        \* the byte sequences the wrapped stream may hold
    Sizes,         \* size arguments of readFully(buffer, size) and skipBytes
    Offsets,       \* offset arguments of readFully(buffer, size, offset, length)
    Lengths,       \* length arguments of readFully(buffer, size, offset, length)
    MaxIOErrors    \* bound on the I/O errors of the wrapped stream

VARIABLES
    input,      \* the bytes of the wrapped stream
    pos,        \* bytes read from it so far
    start,      \* pos when the last call began
    fn, arg,    \* the last call and its arguments
    val,        \* its result
    exc,        \* the exception it raised: none, EOF, IO, NPE or IOOBE
    ioErrors    \* I/O errors so far

vars == <<input, pos, start, fn, arg, val, exc, ioErrors>>

LF == 10
CR == 13
NUL == 0

Remaining == Len(input) - pos

\* The value of a byte read as a (signed) char.
SignedByte(b) == IF b >= 128 THEN b - 256 ELSE b

Init ==
    /\ input \in Inputs
    /\ pos = 0 /\ start = 0
    /\ fn = "none" /\ arg = <<>> /\ val = 0 /\ exc = "none"
    /\ ioErrors = 0

-----------------------------------------------------------------------------
(* DataInputStream.h                                                       *)

\* readAllData(buffer, n): read until n bytes have arrived.  The end of the
\* stream first is an EOFException, every byte left having been read; an
\* I/O error of the wrapped stream ends it after fewer than n bytes.
ReadAllData(n) ==
    \/ /\ Remaining >= n
       /\ pos' = pos + n /\ exc' = "none" /\ UNCHANGED ioErrors
    \/ /\ Remaining < n
       /\ pos' = Len(input) /\ exc' = "EOF" /\ UNCHANGED ioErrors
    \/ /\ n > 0 /\ ioErrors < MaxIOErrors
       /\ \E k \in 0 .. Min({n - 1, Remaining}) : pos' = pos + k
       /\ exc' = "IO" /\ ioErrors' = ioErrors + 1

\* The n bytes after the current position.
Ahead(n) == SubSeq(input, pos + 1, pos + n)

\* A read of w bytes whose value is v, an expression of Ahead(w) used only
\* when the w bytes have arrived.
ReadFixed(name, w, v) ==
    /\ fn' = name /\ arg' = <<>> /\ start' = pos
    /\ ReadAllData(w)
    /\ val' = IF exc' = "none" THEN v ELSE 0
    /\ UNCHANGED input

\* The i-th of the bytes after the current position.
B(i) == input[pos + i]

\* readBoolean(): one byte, true if nonzero.
ReadBoolean == ReadFixed("readBoolean", 1, B(1) # 0)

\* readByte(): one byte as a signed value -128..127.
ReadByte == ReadFixed("readByte", 1, SignedByte(B(1)))

\* readUnsignedByte(): one byte zero-extended, 0..255.
ReadUnsignedByte == ReadFixed("readUnsignedByte", 1, B(1))

\* readChar(): the same result as readByte.
ReadChar == ReadFixed("readChar", 1, SignedByte(B(1)))

\* readShort(): (short)((a << 8) | (b & 0xff)).
ReadShort == ReadFixed("readShort", 2, SignedByte(B(1)) * 256 + B(2))

\* readUnsignedShort(): ((a & 0xff) << 8) | (b & 0xff).
ReadUnsignedShort == ReadFixed("readUnsignedShort", 2, B(1) * 256 + B(2))

\* readInt(): ((a & 0xff) << 24) | ((b & 0xff) << 16) | ((c & 0xff) << 8)
\* | (d & 0xff) in a 32-bit int: the top byte carries the sign.
ReadInt ==
    ReadFixed("readInt", 4, SignedByte(B(1)) * 16777216 + B(2) * 65536 + B(3) * 256 + B(4))

\* The position, counted from pos, of the first CR or LF still to read;
\* 0 if there is none.
TerminatorAt == SelectInSeq(Ahead(Remaining), LAMBDA b : b \in {CR, LF})

\* Fault-injection variant of ReadLine: the byte after a '\r' is read
\* whether or not it is a '\n'.
ReadLineNoLookahead ==
    LET t == TerminatorAt
        rest == Ahead(Remaining)
    IN /\ fn' = "readLine" /\ arg' = <<>> /\ start' = pos /\ exc' = "none"
       /\ val' = IF t = 0 THEN rest ELSE SubSeq(rest, 1, t - 1)
       /\ pos' = CASE t = 0 -> Len(input)
                   [] rest[t] = CR /\ t < Len(rest) -> pos + t + 1
                   [] OTHER -> pos + t
       /\ UNCHANGED <<input, ioErrors>>

\* readLine(): the bytes up to a '\n', a '\r' or the end of the stream; the
\* terminator is discarded, and so is a '\n' right after a '\r'.  At the
\* end of the stream the line is empty.
ReadLine ==
    LET t == TerminatorAt
        rest == Ahead(Remaining)
    IN /\ fn' = "readLine" /\ arg' = <<>> /\ start' = pos /\ exc' = "none"
       /\ val' = IF t = 0 THEN rest ELSE SubSeq(rest, 1, t - 1)
       /\ pos' = CASE t = 0 -> Len(input)
                   [] rest[t] = CR /\ t < Len(rest) /\ rest[t + 1] = LF -> pos + t + 1
                   [] OTHER -> pos + t
       /\ UNCHANGED <<input, ioErrors>>

\* readString(): the bytes up to a NUL, which is discarded; the end of the
\* stream first is an EOFException.
ReadString ==
    LET t == SelectInSeq(Ahead(Remaining), LAMBDA b : b = NUL) IN
    /\ fn' = "readString" /\ arg' = <<>> /\ start' = pos
    /\ \/ t = 0 /\ pos' = Len(input) /\ exc' = "EOF" /\ val' = 0
       \/ t > 0 /\ pos' = pos + t /\ exc' = "none" /\ val' = Ahead(t - 1)
    /\ UNCHANGED <<input, ioErrors>>

\* readFully(buffer, size): IndexOutOfBoundsException for a negative size,
\* otherwise readAllData of size bytes.
ReadFully(size) ==
    /\ fn' = "readFully" /\ arg' = <<size>> /\ start' = pos
    /\ \/ size < 0 /\ exc' = "IOOBE" /\ UNCHANGED <<pos, ioErrors>>
       \/ size >= 0 /\ ReadAllData(size)
    /\ val' = IF exc' = "none" THEN Ahead(size) ELSE 0
    /\ UNCHANGED input

\* readFully(buffer, size, offset, length): NullPointerException for a
\* NULL buffer, IndexOutOfBoundsException when offset + length > size,
\* otherwise readAllData of length bytes into buffer[offset..].
ReadFullyRange(isNull, size, offset, length) ==
    /\ fn' = "readFully" /\ arg' = <<isNull, size, offset, length>> /\ start' = pos
    /\ \/ isNull /\ exc' = "NPE" /\ UNCHANGED <<pos, ioErrors>>
       \/ ~isNull /\ offset + length > size /\ exc' = "IOOBE" /\ UNCHANGED <<pos, ioErrors>>
       \/ ~isNull /\ offset + length <= size /\ ReadAllData(length)
    /\ val' = IF exc' = "none" THEN Ahead(length) ELSE 0
    /\ UNCHANGED input

\* Fault-injection variant of SkipBytes: the count is not bounded by the
\* bytes left in the stream.
SkipBytesUnclamped(num) ==
    /\ fn' = "skipBytes" /\ arg' = <<num>> /\ start' = pos /\ exc' = "none"
    /\ \E k \in 0 .. Max({0, num}) : pos' = pos + k /\ val' = k
    /\ UNCHANGED <<input, ioErrors>>

\* skipBytes(num): skips some number of bytes up to num, possibly fewer
\* (the end of the stream among the reasons), and returns it; never an
\* EOFException.
SkipBytes(num) ==
    /\ fn' = "skipBytes" /\ arg' = <<num>> /\ start' = pos /\ exc' = "none"
    /\ \E k \in 0 .. Max({0, Min({num, Remaining})}) : pos' = pos + k /\ val' = k
    /\ UNCHANGED <<input, ioErrors>>

Next ==
    \/ ReadBoolean \/ ReadByte \/ ReadUnsignedByte \/ ReadChar
    \/ ReadShort \/ ReadUnsignedShort \/ ReadInt
    \/ ReadLine \/ ReadString
    \/ \E s \in Sizes : ReadFully(s) \/ SkipBytes(s)
    \/ \E n \in BOOLEAN, s \in Sizes, o \in Offsets, l \in Lengths :
          ReadFullyRange(n, s, o, l)

Spec == Init /\ [][Next]_vars

-----------------------------------------------------------------------------
(* Properties                                                              *)

\* The bytes the last call read, and the bytes there were when it began.
Consumed == SubSeq(input, start + 1, pos)
Left == Len(input) - start

FixedWidth ==
    [readBoolean |-> 1, readByte |-> 1, readUnsignedByte |-> 1, readChar |-> 1,
     readShort |-> 2, readUnsignedShort |-> 2, readInt |-> 4]
TypeRange ==
    [readByte |-> -128 .. 127, readUnsignedByte |-> 0 .. 255, readChar |-> -128 .. 127,
     readShort |-> -32768 .. 32767, readUnsignedShort |-> 0 .. 65535,
     readInt |-> (-2147483647 - 1) .. 2147483647]

\* The bytes the last call asked readAllData for.
Need ==
    CASE fn \in DOMAIN FixedWidth -> FixedWidth[fn]
      [] fn = "readFully" /\ Len(arg) = 1 -> arg[1]
      [] fn = "readFully" -> arg[4]
      [] OTHER -> 0

\* Reference: the w-byte big-endian two's-complement encoding of v.
RECURSIVE Encode(_, _)
Encode(v, w) == IF w = 0 THEN <<>> ELSE Encode(v \div 256, w - 1) \o <<v % 256>>

TypeOK ==
    /\ pos \in 0 .. Len(input) /\ start \in 0 .. pos
    /\ exc \in {"none", "EOF", "IO", "NPE", "IOOBE"}
    /\ ioErrors \in 0 .. MaxIOErrors

\* Every call that returns has read exactly the bytes its result stands
\* for: a primitive is in its type's range and is the big-endian encoding
\* of the bytes read; a line is the bytes before its terminator, a '\r'
\* ends a line alone only when no '\n' follows it, and no byte of the
\* next line is lost; a string is the bytes before a NUL; readFully
\* fills exactly the bytes asked; skipBytes reports what it skipped.
DecodesMatchReference ==
    exc = "none" =>
        CASE fn = "readBoolean" -> Len(Consumed) = 1 /\ val = (Consumed[1] # NUL)
          [] fn \in DOMAIN TypeRange ->
                val \in TypeRange[fn] /\ Consumed = Encode(val, FixedWidth[fn])
          [] fn = "readLine" ->
                \E t \in {<<>>, <<LF>>, <<CR>>, <<CR, LF>>} :
                    /\ Consumed = val \o t
                    /\ \A i \in DOMAIN val : val[i] \notin {CR, LF}
                    /\ t = <<>> => pos = Len(input)
                    /\ t = <<CR>> => pos = Len(input) \/ input[pos + 1] # LF
          [] fn = "readString" -> Consumed = val \o <<NUL>> /\ NUL \notin Range(val)
          [] fn = "readFully" -> Consumed = val /\ Len(val) = Need
          [] fn = "skipBytes" -> Len(Consumed) = val /\ val <= Max({arg[1], 0})
          [] OTHER -> TRUE

====
