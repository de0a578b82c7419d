----------------------------- MODULE Int64Values -----------------------------
(***************************************************************************)
(* 64-bit integers between samples and JavaScript: write_int64 and         *)
(* write_uint64 of src/NodeValueWriter.cpp, read_int64 and read_uint64 of  *)
(* src/NodeValueReader.cpp. A program that relays samples passes one       *)
(* integer through them again and again. Only integers below 10^21, the    *)
(* rest is refused or cut at its first letter.                             *)
(*                                                                         *)
(* Outside src/: a Number is a double, exact up to MaxSafe; its text is    *)
(* the shortest decimal that denotes that double, so a larger integer ends *)
(* in zeros that were not there; sscanf gives the nearest integer that a   *)
(* number out of range allows (C leaves it undefined; the C libraries of   *)
(* the platforms in README.md agree); Int64Value() and Uint64Value() keep  *)
(* the low bits of a BigInt. Node has BigInt.                              *)
(***************************************************************************)
EXTENDS Integers

CONSTANTS
    MaxSafe,    \* 2^53 - 1 scaled down: the greatest exact Number
    MaxInt,     \* 2^63 - 1 scaled down
    MaxExponent, \* bound on the doubles: below 2^MaxExponent * MaxSafe
    MaxGiven,   \* bound on the magnitude of what a program passes
    MaxRelays   \* bound on the writes after the first

ASSUME Int64Assumption ==
    /\ MaxSafe \in Nat /\ MaxInt \in Nat /\ MaxSafe <= MaxInt
    /\ MaxExponent \in Nat /\ MaxGiven \in Nat /\ MaxRelays \in Nat

VARIABLES
    type,       \* "int64" or "uint64"
    sample,     \* the integer of the sample
    js,         \* the JavaScript value
    at,         \* "start", "javascript" or "sample": where the integer is
    origin,     \* the first sample or JavaScript value
    relays      \* writes after that

vars == <<type, sample, js, at, origin, relays>>

Types == {"int64", "uint64"}
Least(t) == IF t = "int64" THEN -MaxInt - 1 ELSE 0
Most(t) == IF t = "int64" THEN MaxInt ELSE 2 * MaxInt + 1
Integers64(t) == Least(t)..Most(t)
JavaScript == [kind : {"Number", "BigInt", "String"}, n : Int]

TypeOK ==
    /\ type \in Types
    /\ sample \in Integers64(type)
    /\ js \in JavaScript
    /\ at \in {"start", "javascript", "sample"}
    /\ origin \in [kind : {"sample", "Number", "BigInt", "String"}, n : Int]
    /\ relays \in 0..MaxRelays

-----------------------------------------------------------------------------
(* Numbers.                                                                *)

Magnitude(n) == IF n < 0 THEN -n ELSE n

Twos[k \in 0..MaxExponent] == IF k = 0 THEN 1 ELSE 2 * Twos[k - 1]
Tens[k \in 0..MaxExponent] == IF k = 0 THEN 1 ELSE 10 * Tens[k - 1]

\* The distance of two doubles of n's size, above MaxSafe.
Spacing(n) ==
    LET exponents == {k \in 0..MaxExponent :
                          Magnitude(n) < Twos[k] * (MaxSafe + 1)}
    IN  Twos[CHOOSE k \in exponents : \A l \in exponents : k <= l]

\* The nearest multiple of s, of two the even one.
Nearest(n, s) ==
    LET below == n \div s
        rest == n % s
    IN  IF 2 * rest < s \/ (2 * rest = s /\ below % 2 = 0)
        THEN below * s ELSE (below + 1) * s

\* The nearest double.
Double(n) == IF Magnitude(n) <= MaxSafe THEN n ELSE Nearest(n, Spacing(n))

\* The shortest decimal that is rounded to d, of several the nearest.
Text(d) ==
    IF Magnitude(d) <= MaxSafe THEN d
    ELSE LET near == {n \in (d - Spacing(d))..(d + Spacing(d)) : Double(n) = d}
             zeros == {k \in 0..MaxExponent : \E n \in near : n % Tens[k] = 0}
             short == {n \in near : n % Tens[CHOOSE k \in zeros :
                                               \A l \in zeros : k >= l] = 0}
         IN  CHOOSE n \in short :
                 \A m \in short : Magnitude(n - d) <= Magnitude(m - d)

\* MaxSafe is odd, as 2^53 - 1 is, and MaxExponent leaves room above whatever
\* is converted. At 2^k * (MaxSafe + 1) the distance of the doubles grows from
\* 2^k to 2^(k+1); the text is at most half of the smaller one off, as it is
\* at 2^54, 2^55, ... 2^65.
ASSUME NumbersAssumption ==
    /\ MaxSafe % 2 = 1
    /\ 4 * MaxGiven <= Twos[MaxExponent] * (MaxSafe + 1)
    /\ 8 * (MaxInt + 1) <= Twos[MaxExponent] * (MaxSafe + 1)
    /\ \A k \in 1..MaxExponent :
          LET d == Twos[k] * (MaxSafe + 1)
          IN  d <= 4 * MaxInt + 4 =>
                  /\ 2 * Magnitude(Text(d) - d) <= Twos[k]
                  /\ 2 * Magnitude(Text(-d) + d) <= Twos[k]

Wrapped(t, n) ==
    IF n \in Integers64(t) THEN n
    ELSE ((n - Least(t)) % (2 * MaxInt + 2)) + Least(t)

\* sscanf; of an unsigned integer it takes a sign for granted.
Scanned(t, n) ==
    IF t = "uint64" /\ -Most(t) <= n /\ n < 0 THEN Wrapped(t, n)
    ELSE IF n < Least(t) /\ t = "int64" THEN Least(t)
    ELSE IF n \in Integers64(t) THEN n
    ELSE Most(t)

-----------------------------------------------------------------------------
(* The conversions.                                                        *)

Unsafe_Bug(n) == n > 2 * MaxSafe            \* a bit too many
Unsafe(n) == n > MaxSafe

\* write_int64, write_uint64
Written(n, use_bigint_) ==
    IF ~Unsafe(n) THEN [kind |-> "Number", n |-> Double(n)]
    ELSE [kind |-> IF use_bigint_ THEN "BigInt" ELSE "String", n |-> n]

AsBigInt_Bug(t, n) == IF n <= MaxInt THEN n ELSE MaxInt \* signed, clamped
AsBigInt(t, n) == Wrapped(t, n)

\* read_int64, read_uint64: a Number as text, the rest as a BigInt
Read(t, v) == IF v.kind = "Number" THEN Scanned(t, Text(v.n))
              ELSE AsBigInt(t, v.n)

-----------------------------------------------------------------------------

Init ==
    /\ type \in Types /\ at = "start"
    /\ sample = 0 /\ relays = 0
    /\ js = [kind |-> "Number", n |-> 0]
    /\ origin = [kind |-> "sample", n |-> 0]

\* A sample arrives.
Receive ==
    /\ at = "start" /\ at' = "javascript"
    /\ \E n \in Integers64(type), use_bigint_ \in BOOLEAN :
           /\ sample' = n
           /\ js' = Written(n, use_bigint_)
           /\ origin' = [kind |-> "sample", n |-> n]
    /\ UNCHANGED <<type, relays>>

\* The program has an integer of its own.
Give ==
    /\ at = "start" /\ at' = "javascript"
    /\ \E n \in (-MaxGiven)..MaxGiven :
           \E k \in {"Number", "BigInt", "String"} :
               js' = [kind |-> k, n |-> IF k = "Number" THEN Double(n) ELSE n]
    /\ origin' = js'
    /\ UNCHANGED <<type, sample, relays>>

Send ==
    /\ at = "javascript" /\ at' = "sample"
    /\ sample' = Read(type, js)
    /\ UNCHANGED <<type, js, origin, relays>>

\* The sample comes back.
Relay ==
    /\ at = "sample" /\ at' = "javascript"
    /\ relays < MaxRelays
    /\ relays' = relays + 1
    /\ \E use_bigint_ \in BOOLEAN : js' = Written(sample, use_bigint_)
    /\ UNCHANGED <<type, sample, origin>>

Next == Receive \/ Give \/ Send \/ Relay

Spec == Init /\ [][Next]_vars

-----------------------------------------------------------------------------
(* Properties.                                                             *)

\* What a Number can hold, and above that what a BigInt or a String can; below
\* that too if the program gives one and does not get it back.
Kept(v) ==
    /\ v.n \in Integers64(type)
    /\ v.n > MaxSafe => v.kind # "Number"
    /\ v.n < -MaxSafe => v.kind \in {"BigInt", "String"} /\ relays = 0

\* An integer is the same in the sample and in JavaScript, received or given,
\* through any number of relays and a change of use_bigint_ between them,
\* wherever its size and form allow it.
ExactWhereSafe ==
    /\ at = "javascript" /\ Kept(origin) => js.n = origin.n
    /\ at = "sample" /\ Kept(origin) => sample = origin.n

Settled(t, n) == \A use_bigint_ \in BOOLEAN : Read(t, Written(n, use_bigint_)) = n

\* Elsewhere rounding takes it to a neighbouring double at most, and relaying
\* does not take it any further: what was once written and read stays the same,
\* whatever use_bigint_ is from then on.
NoDrift ==
    /\ at = "sample" /\ origin.n \in Integers64(type) =>
          Magnitude(sample - origin.n) <= Spacing(origin.n)
    /\ at = "sample" /\ (relays > 0 \/ origin.kind = "sample") =>
          Settled(type, sample)
=============================================================================
