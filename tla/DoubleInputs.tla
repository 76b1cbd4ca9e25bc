----------------------------- MODULE DoubleInputs -----------------------------
(***************************************************************************)
(* Inputs for DoubleConversions on a small double format: the patterns at  *)
(* every boundary of the format: zeros, subnormals, the smallest normal,   *)
(* one, the largest finite value, the infinities and NaNs with several     *)
(* payloads and both signs.                                                *)
(***************************************************************************)
EXTENDS Integers

CONSTANTS ExpBits, ManBits

\* The pattern with sign s, biased exponent e and mantissa m.
Pat(s, e, m) == s * 2^(ExpBits + ManBits) + e * 2^ManBits + m

MC_CompareInputs ==
    {Pat(s, e, m) : s \in {0, 1},
                    <<e, m>> \in {<<0, 0>>, <<0, 1>>, <<0, 255>>, <<1, 0>>,
                                  <<3, 0>>, <<6, 255>>, <<7, 0>>, <<7, 1>>, <<7, 128>>}}

MC_HexInputs ==
    {Pat(s, e, m) : s \in {0, 1}, e \in {0, 1, 3, 6, 7}, m \in {0, 1, 15, 16, 18, 128, 255}}

\* Values within the float's range.
MC_ParseInputs ==
    {Pat(s, e, m) : s \in {0, 1}, e \in {0, 1, 3, 4}, m \in {0, 1, 16, 128, 255}}
=============================================================================
