-------------------------------- MODULE Uuid --------------------------------
(***************************************************************************)
(* generate_v4, which makes the _id of a document that is inserted without *)
(* one. A 64-bit number is the function from 0 .. 15 to its hexadecimal    *)
(* digits, the most significant first; a character is the digit it shows,  *)
(* or Hyphen.                                                              *)
(***************************************************************************)
EXTENDS Integers

CONSTANT Fillers  \* digits: each is, repeated, a number drawn in the model

ASSUME UuidAssumption == Fillers \subseteq 0..15

Hyphen == 16

Number64 == [0..15 -> 0..15]

(* Two results of next_uint64().                                            *)
Draw == [1..2 -> Number64]

(* The masks for the version and for the variant.                           *)
SetVersion(part1) == [part1 EXCEPT ![12] = 4]

SetVariant(part2) == [part2 EXCEPT ![0] = 8 + (@ % 4)]

\* Variant: the last group begins with the end of the fourth.
FormatOverlaps(part1, part2) ==
    [i \in 0..35 |-> IF i \in {8, 13, 18, 23} THEN Hyphen
                     ELSE IF i \in 0..7 THEN part1[i]
                     ELSE IF i \in 9..12 THEN part1[i - 1]
                     ELSE IF i \in 14..17 THEN part1[i - 2]
                     ELSE IF i \in 19..22 THEN part2[i - 19]
                     ELSE part2[i - 21]]

(* The five groups of the text.                                             *)
Format(part1, part2) ==
    [i \in 0..35 |-> IF i \in {8, 13, 18, 23} THEN Hyphen
                     ELSE IF i \in 0..7 THEN part1[i]
                     ELSE IF i \in 9..12 THEN part1[i - 1]
                     ELSE IF i \in 14..17 THEN part1[i - 2]
                     ELSE IF i \in 19..22 THEN part2[i - 19]
                     ELSE part2[i - 20]]

GenerateV4(draw) == Format(SetVersion(draw[1]), SetVariant(draw[2]))

-----------------------------------------------------------------------------
VARIABLES one, other  \* what two calls draw

uuidVars == <<one, other>>

UuidInit == /\ one \in {[p \in 1..2 |-> [i \in 0..15 |-> c]] : c \in Fillers}
            /\ other = one

(* The other call draws numbers that differ in one digit.                   *)
DrawOther == /\ \E p \in 1..2, i, v \in 0..15 : other' = [one EXCEPT ![p][i] = v]
             /\ UNCHANGED one

UuidSpec == UuidInit /\ [][DrawOther]_uuidVars

-----------------------------------------------------------------------------
(* What is random in a UUID of version 4: all but the version and the two   *)
(* bits of the variant.                                                     *)
RandomBits(draw) == <<[draw[1] EXCEPT ![12] = 0], [draw[2] EXCEPT ![0] = @ % 4]>>

(* Every generated _id has the form of a UUID of version 4, and none of the *)
(* 122 random bits is lost on the way into the text: two calls give the     *)
(* same text only if they draw the same bits. Core::insert relies on this   *)
(* when it puts a document under a generated _id without looking whether    *)
(* the key is taken.                                                        *)
RandomBitsKept ==
    LET text == GenerateV4(other)
    IN  /\ \A i \in 0..35 : text[i] = Hyphen <=> i \in {8, 13, 18, 23}
        /\ text[14] = 4 /\ text[19] \in 8..11
        /\ GenerateV4(one) = text <=> RandomBits(one) = RandomBits(other)
=============================================================================
