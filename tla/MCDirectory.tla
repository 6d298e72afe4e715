---------------------------- MODULE MCDirectory ----------------------------
(* Instance of Directory for TLC.  int has 3 bits and long long 5, so that  *)
(* the fields cover every way of getInt: an int as number and as string, a *)
(* long long that is no int and whose low bits are 3, the largest unsigned *)
(* number, which wraps to -1, and something that is no number.             *)
EXTENDS Directory, TLC

CONSTANTS c1, c2, n1, n2

MCConns == {c1, c2}
MCSymmetry == Permutations(MCConns)
MCNames == {n1, n2}
MCFirstNames == <<n1, n2>>

Number(n) == [kind |-> "number", num |-> n]

MCValues == {Number(1), [kind |-> "string", num |-> 2], Number(11), Number(31),
             [kind |-> "other", num |-> 0]}
=============================================================================
