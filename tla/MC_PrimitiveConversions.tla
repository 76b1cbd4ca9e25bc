----------------------- MODULE MC_PrimitiveConversions -----------------------
(* Inputs for PrimitiveConversions: the ints around every boundary of the  *)
(* short, unsigned char and signed char ranges and of int itself, a small  *)
(* dense range, and shorts of boundary byte patterns for reverseBytes.               *)
EXTENDS PrimitiveConversions

MC_IntInputs ==
    {IntMin, IntMin + 1, -65537, -65536, -32769, -32768, -32767,
     -257, -256, -129, -128, -127, 126, 127, 128, 129, 254, 255, 256, 257,
     32766, 32767, 32768, 65535, 65536, IntMax - 1, IntMax} \cup -3 .. 3

\* Every short whose high and low bytes are each one of the boundary byte
\* patterns 0x00, 0x01, 0x7F, 0x80, 0xFE, 0xFF or 0x12.
BytePatterns == {0, 1, 127, 128, 254, 255, 18}
MC_ShortInputs == {ToShort(hi * 2^8 + lo) : hi, lo \in BytePatterns}
=============================================================================
