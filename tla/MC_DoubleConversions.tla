-------------------------- MODULE MC_DoubleConversions --------------------------
(***************************************************************************)
(* A 12-bit double (3 exponent bits, bias 3; 8 mantissa bits, two hex      *)
(* fraction digits) read through a 7-bit float (2 exponent bits, 4         *)
(* mantissa bits), on the boundary inputs of DoubleInputs.                 *)
(***************************************************************************)
EXTENDS DoubleConversions

INSTANCE DoubleInputs
=============================================================================
