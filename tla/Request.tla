------------------------------ MODULE Request ------------------------------
(***************************************************************************)
(* getInt and getLongLong of chatservice.cpp: how a field of a JSON        *)
(* request becomes an int or a long long.                                  *)
(*                                                                         *)
(* A field is a record [kind, num].  Kind "number" is a JSON integer: the  *)
(* parser keeps one that is not negative as an unsigned 64-bit number and  *)
(* makes anything that does not fit a float.  Kind "string" is a string    *)
(* that spells the decimal num.  Kind "other" is every other value, a      *)
(* string that is no number, and a field that is not there.                *)
(***************************************************************************)
EXTENDS Integers

CONSTANTS
    IntMax,     \* INT_MAX
    LongMax     \* LLONG_MAX, also the range of strtol

ASSUME RequestAssumption ==
    IntMax \in Nat /\ LongMax \in Nat /\ IntMax <= LongMax

IntMin == -IntMax - 1
LongMin == -LongMax - 1

\* The number of values of unsigned long long.
Modulus == 2 * (LongMax + 1)

\* The fields the parser can hand to a handler.
Fields == [kind : {"number"}, num : LongMin..(Modulus - 1)]
              \cup [kind : {"string", "other"}, num : Int]

\* get<long long>() of a JSON integer: is_number_integer() holds of unsigned
\* ones, too, and these wrap around.
AsLongLong(n) == IF n > LongMax THEN n - Modulus ELSE n

\* strtol and strtoll set errno for what does not fit.
FitsLong(n) == n \in LongMin..LongMax

GetsLongLong(f) == \/ f.kind = "number"
                   \/ f.kind = "string" /\ FitsLong(f.num)

LongLongOf(f) == IF f.kind = "number" THEN AsLongLong(f.num) ELSE f.num

FitsInt(n) == n \in IntMin..IntMax

\* Variant: no range check, the cast to int takes the low bits.
GetsIntUnchecked(f) == GetsLongLong(f)

GetsInt(f) == GetsLongLong(f) /\ FitsInt(LongLongOf(f))

\* static_cast<int>
IntOf(f) == ((LongLongOf(f) - IntMin) % (2 * (IntMax + 1))) + IntMin
=============================================================================
