------------------------- MODULE MC_DecafPrimitives -------------------------
(***************************************************************************)
(* The decaf primitive types checked together: the Short and Byte string   *)
(* conversions and reverseBytes (PrimitiveConversions, on the boundary     *)
(* inputs of MC_PrimitiveConversions), the Character classifiers, case     *)
(* conversions, digit and compareTo (CharacterClasses), and Double's       *)
(* compare, toHexString, parseDouble, isNaN and isInfinite                 *)
(* (DoubleConversions on the 12-bit format and inputs of DoubleInputs),    *)
(* the reads of DataInputStream on every stream of up to four bytes, and   *)
(* the copy, clone and equals of the MessagePull and Response commands     *)
(* (CommandValues).  The first three record the last call in fn and arg,   *)
(* so the composition shares them.                                         *)
(* A behaviour calls one class (cls, fixed in Init), so the states are the *)
(* union of the five models, not their product; each class's properties   *)
(* speak of its own calls, and the variables of the classes a behaviour    *)
(* does not call keep their initial values.  The build's signedness of     *)
(* char is fixed for a behaviour.                                          *)
(***************************************************************************)
EXTENDS MC_PrimitiveConversions, TLC

VARIABLES signedChar, cls, input, pos, start, val, exc, ioErrors, objs, call, ops

CONSTANTS o1, o2, o3, i1, i2, i3, NullPtr, corrEmpty, corrC

streamVars == <<input, pos, start, val, exc, ioErrors>>

MCCompareInputs == {0, 48, 65, 97, 127, 128, 255}
MCRadixes == {1, 2, 10, 11, 16, 36, 37}

C == INSTANCE CharacterClasses WITH CompareInputs <- MCCompareInputs, Radixes <- MCRadixes

DI == INSTANCE DoubleInputs WITH ExpBits <- 3, ManBits <- 8

D == INSTANCE DoubleConversions
        WITH ExpBits <- 3, ManBits <- 8, FExpBits <- 2, FManBits <- 4,
             CompareInputs <- DI!MC_CompareInputs, HexInputs <- DI!MC_HexInputs,
             ParseInputs <- DI!MC_ParseInputs

CharFns == {"classify", "toLowerCase", "toUpperCase", "digit", "compareTo", "intValue"}
DoubleFns == {"compare", "toHexString", "parseDouble", "isNaN", "isInfinite"}

SE == INSTANCE SequencesExt

\* Every stream of up to four bytes drawn from NUL, '\n', '\r' and 0xFF:
\* enough for readInt, for a line ended by each terminator, and for the
\* sign of every signed read.  Sizes for readFully and skipBytes, a
\* negative one among them.
MCInputs == SE!SeqOf({0, 10, 13, 255}, 4)
MCSizes == {-1, 0, 1, 2}

DIS == INSTANCE DataInputStream
          WITH Inputs <- MCInputs, Sizes <- MCSizes, Offsets <- {0, 1},
               Lengths <- {0, 1, 2}, MaxIOErrors <- 1

\* Three commands, enough for a copy between two of them and a clone into
\* the third; three id objects, two of them with equal values; three
\* calls on existing commands.
CV == INSTANCE CommandValues
         WITH Objs <- {o1, o2, o3}, IdObjs <- {i1, i2, i3},
              IdValue <- (i1 :> "A") @@ (i2 :> "A") @@ (i3 :> "B"),
              PtrFields <- {"consumerId", "messageId"}, Timeouts <- {0, 1},
              CorrIds <- {corrEmpty, corrC}, EmptyCorr <- corrEmpty, RespCorrIds <- {0, 1}, CommandIds <- {0, 1},
              MaxOps <- 3, Null <- NullPtr

\* The commands are interchangeable.
CommandSymmetry == Permutations({o1, o2, o3})

DecafInit ==
    /\ cls \in {"ShortByte", "Character", "Double", "DataInput", "Command"}
    /\ CV!Init
    /\ IF cls = "DataInput"
       THEN DIS!Init /\ out = 0 /\ signedChar = FALSE
       ELSE C!Init /\ input = <<>> /\ pos = 0 /\ start = 0 /\ val = 0
                   /\ exc = "none" /\ ioErrors = 0

\* Double's operations are static and keep no state between calls, so
\* each call is made from the idle state and the caller then takes its
\* result: the calls that follow any call are those that follow none.
DoubleReturn == fn # "none" /\ fn' = "none" /\ arg' = 0 /\ out' = 0

DecafNext ==
    /\ \/ cls = "ShortByte" /\ Next /\ UNCHANGED <<signedChar, streamVars>>
       \/ cls = "Double" /\ fn = "none" /\ D!Next /\ UNCHANGED <<signedChar, streamVars>>
       \/ cls = "Double" /\ DoubleReturn /\ UNCHANGED <<signedChar, streamVars>>
       \/ cls = "Character" /\ C!Next /\ UNCHANGED streamVars
       \/ cls = "DataInput" /\ DIS!Next /\ UNCHANGED <<signedChar, out>>
       \/ cls = "Command" /\ CV!Next /\ UNCHANGED <<fn, arg, out, signedChar, streamVars>>
    /\ cls # "Command" => UNCHANGED <<objs, call, ops>>
    /\ UNCHANGED cls

DecafSpec ==
    DecafInit /\ [][DecafNext]_<<fn, arg, out, signedChar, cls, streamVars, objs, call, ops>>

\* The Character properties, as CharacterClasses states them.
ClassifiersExact == C!ClassifiersExact
\* The Double properties, as DoubleConversions states them.
CompareIsTotalOrder == D!CompareIsTotalOrder
HexStringDenotesValue == D!HexStringDenotesValue

\* The DataInputStream properties, as DataInputStream states them: the
\* read position stays within the stream, and every read returns what the
\* bytes it consumed encode.
DataInputTypeOK == cls = "DataInput" => DIS!TypeOK
DecodesMatchReference == cls = "DataInput" => DIS!DecodesMatchReference
\* The command properties, as CommandValues states them: equals() is an
\* equivalence, and a copy or clone that returns is equal to its source.
EqualsIsEquivalence == CV!EqualsIsEquivalence
CopyEstablishesEquality == CV!CopyEstablishesEquality
=============================================================================
