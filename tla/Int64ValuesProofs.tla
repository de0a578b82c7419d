------------------------- MODULE Int64ValuesProofs -------------------------
(***************************************************************************)
(* Proofs of what becomes of a 64-bit integer between samples and          *)
(* JavaScript, for any widths of integers and of Numbers that the          *)
(* assumptions of Int64Values allow, the real ones among them, and any     *)
(* number of relays: what JavaScript can hold stays what it is (nothing is *)
(* needed there of how a Number is rounded or printed beyond MaxSafe), and *)
(* what it cannot hold is a neighbouring double at worst.                  *)
(***************************************************************************)
EXTENDS Int64Values, TLAPS, WellFoundedInduction

---------------------------------------------------------------------
(* What can be kept. *)

\* A value that is read back as the integer it holds.
Faithful(v) ==
    v.n \in (-MaxSafe)..MaxSafe \/ v.kind \in {"BigInt", "String"}

\* On the way, an integer that can be kept is where it should be, and in
\* JavaScript in a form that can be read back.
ExactInv ==
    /\ type \in Types
    /\ relays \in Nat
    /\ at \in {"start", "javascript", "sample"}
    /\ at = "start" => relays = 0
    /\ at = "javascript" /\ Kept(origin) => js.n = origin.n /\ Faithful(js)
    /\ at = "sample" /\ Kept(origin) => sample = origin.n

\* The ranges are sets of integers.
LEMMA Ranges ==
  ASSUME NEW t \in Types
  PROVE  /\ Least(t) \in Int /\ Most(t) \in Int
         /\ Integers64(t) \subseteq Int
  BY Int64Assumption DEF Types, Least, Most, Integers64

\* Numbers up to MaxSafe are exact, as doubles and as text.
LEMMA SmallIsExact ==
  ASSUME NEW n \in (-MaxSafe)..MaxSafe
  PROVE  Double(n) = n /\ Text(n) = n
  <1>1. Magnitude(n) <= MaxSafe
    BY Int64Assumption DEF Magnitude
  <1> QED
    BY <1>1 DEF Double, Text

\* An integer within range is read as it is, from text and from a BigInt.
LEMMA InRangeIsRead ==
  ASSUME NEW t \in Types, NEW n \in Integers64(t)
  PROVE  Scanned(t, n) = n /\ AsBigInt(t, n) = n
  <1>1. n \in Int /\ Least(t) <= n /\ n <= Most(t)
    BY Int64Assumption DEF Types, Integers64, Least, Most
  <1>2. t = "uint64" => ~(n < 0)
    BY <1>1 DEF Least
  <1>3. ~(n < Least(t))
    BY <1>1, Ranges
  <1> QED
    BY <1>2, <1>3 DEF Scanned, AsBigInt, Wrapped

\* Reading loses nothing of a value in range that holds its integer exactly.
LEMMA ReadIsExact ==
  ASSUME NEW t \in Types, NEW v, v.n \in Integers64(t), Faithful(v)
  PROVE  Read(t, v) = v.n
  <1>1. CASE v.kind = "Number"
    <2>1. Text(v.n) = v.n
      BY <1>1, SmallIsExact DEF Faithful
    <2> QED
      BY <1>1, <2>1, InRangeIsRead DEF Read
  <1>2. CASE v.kind # "Number"
    BY <1>2, InRangeIsRead DEF Read
  <1> QED
    BY <1>1, <1>2

\* Writing loses nothing of an integer not below -MaxSafe, whatever
\* use_bigint_ is: what is not safe as a Number becomes a BigInt or a String.
LEMMA WrittenIsExact ==
  ASSUME NEW n \in Int, n >= -MaxSafe, NEW b \in BOOLEAN
  PROVE  Written(n, b).n = n /\ Faithful(Written(n, b))
  <1>1. CASE Unsafe(n)
    BY <1>1 DEF Written, Faithful
  <1>2. CASE ~Unsafe(n)
    <2>1. n \in (-MaxSafe)..MaxSafe
      BY <1>2, Int64Assumption DEF Unsafe
    <2>2. Written(n, b) = [kind |-> "Number", n |-> n]
      BY <1>2, <2>1, SmallIsExact DEF Written
    <2> QED
      BY <2>1, <2>2 DEF Faithful
  <1> QED
    BY <1>1, <1>2

\* A sample arrives: below -MaxSafe it is not one of those that can be kept.
LEMMA ReceiveKeeps ==
  ASSUME ExactInv, Receive
  PROVE  ExactInv'
  <1>1. PICK n \in Integers64(type), b \in BOOLEAN :
            js' = Written(n, b) /\ origin' = [kind |-> "sample", n |-> n]
    BY DEF Receive
  <1>2. at' = "javascript" /\ UNCHANGED <<type, relays>>
    BY DEF Receive
  <1>3. n \in Int
    BY Ranges DEF ExactInv
  <1>4. ASSUME Kept(origin)' PROVE n >= -MaxSafe
    BY <1>1, <1>3, <1>4, Int64Assumption DEF Kept
  <1>5. Kept(origin)' => js'.n = origin'.n /\ Faithful(js')
    BY <1>1, <1>3, <1>4, WrittenIsExact
  <1> QED
    BY <1>2, <1>5 DEF ExactInv, Faithful

\* The program gives a value of its own.
LEMMA GiveKeeps ==
  ASSUME ExactInv, Give
  PROVE  ExactInv'
  <1>1. PICK k \in {"Number", "BigInt", "String"} :
            \E m : js' = [kind |-> k, n |-> m]
    BY DEF Give
  <1>2. PICK m : js' = [kind |-> k, n |-> m]
    BY <1>1
  <1>3. at' = "javascript" /\ origin' = js' /\ UNCHANGED <<type, relays>>
    BY DEF Give
  <1>4. ASSUME Kept(js)' PROVE Faithful(js')
    <2>1. m \in Integers64(type) /\ m \in Int
      BY <1>2, <1>3, <1>4, Ranges DEF Kept, ExactInv
    <2>2. /\ m > MaxSafe => k # "Number"
          /\ m < -MaxSafe => k \in {"BigInt", "String"}
      BY <1>2, <1>3, <1>4 DEF Kept
    <2>3. m \in (-MaxSafe)..MaxSafe \/ k \in {"BigInt", "String"}
      BY <1>2, <2>1, <2>2, Int64Assumption
    <2> QED
      BY <1>2, <2>3 DEF Faithful
  <1> QED
    BY <1>3, <1>4 DEF ExactInv, Kept, Faithful

\* The value becomes a sample.
LEMMA SendKeeps ==
  ASSUME ExactInv, Send
  PROVE  ExactInv'
  <1>1. /\ at = "javascript" /\ at' = "sample" /\ sample' = Read(type, js)
        /\ UNCHANGED <<type, js, origin, relays>>
    BY DEF Send
  <1>2. ASSUME Kept(origin) PROVE sample' = origin.n
    <2>1. js.n = origin.n /\ Faithful(js) /\ js.n \in Integers64(type)
      BY <1>1, <1>2 DEF ExactInv, Kept
    <2> QED
      BY <1>1, <2>1, ReadIsExact DEF ExactInv
  <1> QED
    BY <1>1, <1>2 DEF ExactInv, Kept

\* The sample comes back: from now on an integer below -MaxSafe is not kept.
LEMMA RelayKeeps ==
  ASSUME ExactInv, Relay
  PROVE  ExactInv'
  <1>1. /\ at = "sample" /\ at' = "javascript" /\ relays' = relays + 1
        /\ UNCHANGED <<type, sample, origin>>
    BY DEF Relay
  <1>2. PICK b \in BOOLEAN : js' = Written(sample, b)
    BY DEF Relay
  <1>3. relays' \in Nat /\ relays' # 0
    BY <1>1 DEF ExactInv
  <1>4. ASSUME Kept(origin)' PROVE js'.n = origin'.n /\ Faithful(js')
    <2>1. Kept(origin) /\ ~(origin.n < -MaxSafe)
      BY <1>1, <1>3, <1>4 DEF Kept
    <2>2. sample = origin.n /\ sample \in Int
      BY <1>1, <2>1, Ranges DEF ExactInv, Kept
    <2>3. sample >= -MaxSafe
      BY <2>1, <2>2, Int64Assumption
    <2> QED
      BY <1>1, <1>2, <2>2, <2>3, WrittenIsExact
  <1> QED
    BY <1>1, <1>3, <1>4 DEF ExactInv, Faithful

\* An integer arrives as the one that was sent wherever JavaScript has a form
\* for it: through write_int64 and write_uint64, read_int64 and read_uint64,
\* and any number of relays, with or without use_bigint_ at each of them.
THEOREM SafeIntegersAreExact == Spec => []ExactWhereSafe
  <1>1. Init => ExactInv
    BY DEF Init, ExactInv
  <1>2. ExactInv /\ [Next]_vars => ExactInv'
    <2> SUFFICES ASSUME ExactInv, [Next]_vars PROVE ExactInv'
      OBVIOUS
    <2>1. CASE UNCHANGED vars
      BY <2>1 DEF vars, ExactInv, Kept, Faithful
    <2> QED
      BY <2>1, ReceiveKeeps, GiveKeeps, SendKeeps, RelayKeeps DEF Next
  <1>3. ExactInv => ExactWhereSafe
    BY DEF ExactInv, ExactWhereSafe
  <1> QED
    BY <1>1, <1>2, <1>3, PTL DEF Spec

---------------------------------------------------------------------
(* Powers. *)

\* Induction as the provers can use it: over a set, not over a predicate. The
\* least number missing from the set would be one too many.
LessThan == {p \in Nat \X Nat : p[1] < p[2]}

\* A set of natural numbers has a least one.
LEMMA LeastOf ==
  ASSUME NEW T \in SUBSET Nat, T # {}
  PROVE  \E n \in T : \A m \in T : n <= m
  <1>1. IsWellFoundedOn(LessThan, Nat)
    BY NatLessThanWellFounded DEF OpToRel, LessThan
  <1>2. \A m, n \in Nat : <<m, n>> \in LessThan <=> m < n
    BY DEF LessThan
  <1>3. PICK n \in T : \A m \in T : ~ (<<m, n>> \in LessThan)
    BY <1>1, WFMin
  <1>4. \A m \in T : n <= m
    <2> TAKE m \in T
    <2>1. n \in Nat /\ m \in Nat
      OBVIOUS
    <2>2. ~ (<<m, n>> \in LessThan)
      BY <1>3
    <2>3. ~ (m < n)
      BY <1>2, <2>1, <2>2
    <2> QED
      BY <2>1, <2>3
  <1> QED
    BY <1>4

\* What has 0, and with each number the next, has all up to N.
LEMMA UpTo ==
  ASSUME NEW N \in Nat, NEW T, 0 \in T,
         \A n \in 1..N : n - 1 \in T => n \in T
  PROVE  \A n \in 0..N : n \in T
  <1> DEFINE B == {n \in 0..N : n \notin T}
  <1> SUFFICES ASSUME B # {} PROVE FALSE
    OBVIOUS
  <1>1. B \in SUBSET Nat
    OBVIOUS
  <1>2. PICK n \in B : \A m \in B : n <= m
    <2> HIDE DEF B
    <2> QED
      BY <1>1, LeastOf
  <1>3. n \in 1..N /\ n - 1 \in T
    <2>1. n # 0 /\ n \in 0..N
      BY <1>2
    <2>2. n - 1 \in 0..N /\ ~(n <= n - 1)
      BY <2>1
    <2>3. n - 1 \notin B
      BY <2>2, <1>2
    <2> QED
      BY <2>1, <2>2, <2>3
  <1> QED
    BY <1>2, <1>3

\* There are functions of powers: one more value at a time.
Powers(b, N, f) ==
    f = [k \in 0..N |-> IF k = 0 THEN 1 ELSE b * f[k - 1]]

\* One as long as need be.
LEMMA PowersExist ==
  ASSUME NEW b \in Nat, NEW N \in Nat
  PROVE  \E f : Powers(b, N, f)
  <1> DEFINE T == {n \in Nat : \E f : Powers(b, n, f)}
  <1>1. 0 \in T
    <2>1. Powers(b, 0, [k \in 0..0 |-> 1])
      BY DEF Powers
    <2> QED
      BY <2>1
  <1>2. ASSUME NEW n \in 1..N, n - 1 \in T PROVE n \in T
    <2>1. PICK f : Powers(b, n - 1, f)
      BY <1>2
    <2> DEFINE g == [k \in 0..n |-> IF k = n THEN b * f[n - 1] ELSE f[k]]
    <2>2. ASSUME NEW k \in 0..n
          PROVE  g[k] = IF k = 0 THEN 1 ELSE b * g[k - 1]
      <3>1. CASE k = n
        <4>1. n - 1 \in 0..n /\ n - 1 # n /\ n # 0
          OBVIOUS
        <4>2. g[n - 1] = f[n - 1] /\ g[n] = b * f[n - 1]
          BY <4>1
        <4> QED
          BY <3>1, <4>1, <4>2
      <3>2. CASE k # n
        <4>1. k \in 0..(n - 1)
          BY <3>2
        <4>2. f[k] = IF k = 0 THEN 1 ELSE b * f[k - 1]
          BY <2>1, <4>1 DEF Powers
        <4>3. g[k] = f[k]
          BY <3>2
        <4>4. CASE k = 0
          BY <4>2, <4>3, <4>4
        <4>5. CASE k # 0
          <5>1. k - 1 \in 0..n /\ k - 1 # n
            BY <4>1, <4>5
          <5>2. g[k - 1] = f[k - 1]
            BY <5>1
          <5> QED
            BY <4>2, <4>3, <4>5, <5>2
        <4> QED
          BY <4>4, <4>5
      <3> QED
        BY <3>1, <3>2
    <2>3. g = [k \in 0..n |-> g[k]]
      OBVIOUS
    <2>4. Powers(b, n, g)
      <3> HIDE DEF g
      <3> QED
        BY <2>2, <2>3 DEF Powers
    <2>5. n \in Nat
      OBVIOUS
    <2> QED
      BY <2>4, <2>5
  <1>3. N \in 0..N
    OBVIOUS
  <1>4. N \in T
    <2> HIDE DEF T
    <2> QED
      BY <1>1, <1>2, <1>3, UpTo
  <1> QED
    BY <1>4

\* So Twos meets its equation.
LEMMA TwosOf ==
  /\ Twos[0] = 1
  /\ \A k \in 1..MaxExponent : Twos[k] = 2 * Twos[k - 1]
  <1>1. \E f : Powers(2, MaxExponent, f)
    BY PowersExist, Int64Assumption
  <1>2. Powers(2, MaxExponent, Twos)
    BY <1>1 DEF Powers, Twos
  <1> QED
    BY <1>2, Int64Assumption DEF Powers

\* Of Tens only the first matters: every integer is a multiple of it.
LEMMA TensOf == Tens[0] = 1
  <1>1. \E f : Powers(10, MaxExponent, f)
    BY PowersExist, Int64Assumption
  <1>2. Powers(10, MaxExponent, Tens)
    BY <1>1 DEF Powers, Tens
  <1> QED
    BY <1>2, Int64Assumption DEF Powers

---------------------------------------------------------------------
(* Arithmetic. *)

\* What the provers do not see at once of products.
LEMMA Product ==
  ASSUME NEW a \in Int, NEW b \in Int, NEW s \in Nat
  PROVE  /\ a * s \in Int
         /\ a <= b => a * s <= b * s
         /\ a * s < b * s => a < b
         /\ (a + 1) * s = a * s + s
         /\ (-a) * s = -(a * s)
         /\ (2 * a) * s = 2 * (a * s) /\ a * (2 * s) = 2 * (a * s)
         /\ a * s = s * a
  <1>1. a <= b => a * s <= b * s
    OBVIOUS
  <1>2. b <= a => b * s <= a * s
    OBVIOUS
  <1>3. a * s < b * s => a < b
    BY <1>2
  <1>4. (a + 1) * s = a * s + s
    OBVIOUS
  <1>5. (-a) * s = -(a * s)
    OBVIOUS
  <1>6. (2 * a) * s = 2 * (a * s) /\ a * (2 * s) = 2 * (a * s) /\ a * s = s * a
    OBVIOUS
  <1> QED
    BY <1>1, <1>3, <1>4, <1>5, <1>6

\* Quotient and remainder.
LEMMA Quotient ==
  ASSUME NEW n \in Int, NEW s \in Nat, s > 0
  PROVE  /\ n \div s \in Int
         /\ n % s \in 0..(s - 1)
         /\ n = (n \div s) * s + (n % s)
  <1>1. n \div s \in Int
    OBVIOUS
  <1>2. n = (n \div s) * s + (n % s)
    OBVIOUS
  <1> QED
    BY <1>1, <1>2

\* A multiple leaves none.
LEMMA Remainder ==
  ASSUME NEW q \in Int, NEW s \in Nat, s > 0
  PROVE  (q * s) % s = 0 /\ (q * s) \div s = q
  OBVIOUS

\* MaxSafe + 1 is even, as 2^53 is.
Half == (MaxSafe + 1) \div 2

\* Half of an even number.
LEMMA HalfOf == Half \in Nat /\ Half >= 1 /\ MaxSafe + 1 = 2 * Half
  <1>1. MaxSafe \in Nat /\ MaxSafe % 2 = 1
    BY Int64Assumption, NumbersAssumption
  <1>2. MaxSafe = (MaxSafe \div 2) * 2 + 1 /\ MaxSafe \div 2 \in Int
    BY <1>1, Quotient
  <1> DEFINE h == MaxSafe \div 2
  <1>3. MaxSafe + 1 = (h + 1) * 2 + 0 /\ h + 1 \in Int
    BY <1>2
  <1>4. Half = h + 1
    <2>1. \A n, q \in Int : n = q * 2 + 0 => n \div 2 = q
      OBVIOUS
    <2> HIDE DEF h
    <2> QED
      BY <1>1, <1>3, <2>1 DEF Half
  <1> HIDE DEF h
  <1> QED
    BY <1>1, <1>3, <1>4

\* The powers of 2 are positive, and grow.
LEMMA TwosPositive ==
  ASSUME NEW j \in 0..MaxExponent
  PROVE  Twos[j] \in Nat /\ Twos[j] > 0
  <1> DEFINE T == {k \in 0..MaxExponent : Twos[k] \in Nat /\ Twos[k] > 0}
  <1>1. 0 \in T
    BY TwosOf, Int64Assumption
  <1>2. ASSUME NEW k \in 1..MaxExponent, k - 1 \in T PROVE k \in T
    BY <1>2, TwosOf, Int64Assumption
  <1>3. MaxExponent \in Nat
    BY Int64Assumption
  <1>4. j \in T
    <2> HIDE DEF T
    <2> QED
      BY <1>1, <1>2, <1>3, UpTo
  <1> QED
    BY <1>4

\* At least twofold from one power to any later one.
LEMMA TwosGrow ==
  ASSUME NEW i \in 0..MaxExponent, NEW j \in 0..MaxExponent, i < j
  PROVE  2 * Twos[i] <= Twos[j]
  <1> DEFINE T == {k \in 0..MaxExponent : i < k => 2 * Twos[i] <= Twos[k]}
  <1>1. 0 \in T
    BY Int64Assumption
  <1>2. ASSUME NEW k \in 1..MaxExponent, k - 1 \in T PROVE k \in T
    <2>1. k \in 0..MaxExponent /\ k - 1 \in 0..MaxExponent
      BY Int64Assumption
    <2>2. /\ Twos[k] = 2 * Twos[k - 1]
          /\ Twos[k - 1] \in Nat /\ Twos[i] \in Nat
      BY <2>1, TwosOf, TwosPositive
    <2>3. CASE i < k - 1
      <3>1. 2 * Twos[i] <= Twos[k - 1]
        BY <1>2, <2>3
      <3>2. 2 * Twos[i] <= Twos[k]
        BY <2>2, <3>1
      <3> QED
        BY <2>1, <3>2
    <2>4. CASE i = k - 1
      BY <2>1, <2>2, <2>4
    <2>5. CASE ~(i < k)
      BY <2>1, <2>5
    <2> QED
      BY <2>3, <2>4, <2>5, Int64Assumption
  <1>3. MaxExponent \in Nat
    BY Int64Assumption
  <1>4. j \in T
    <2> HIDE DEF T
    <2> QED
      BY <1>1, <1>2, <1>3, UpTo
  <1> QED
    BY <1>4

---------------------------------------------------------------------
(* Doubles. *)

\* Below the greatest power.
Sized(n) == n \in Int /\ Magnitude(n) < Twos[MaxExponent] * (MaxSafe + 1)

\* Of the size of the doubles that are Twos[k] apart.
Fits(n, k) ==
    /\ k \in 1..MaxExponent
    /\ Twos[k] * Half <= Magnitude(n) /\ Magnitude(n) < 2 * (Twos[k] * Half)

\* How far an integer is from 0.
LEMMA MagnitudeOf ==
  ASSUME NEW n \in Int
  PROVE  /\ Magnitude(n) \in Nat
         /\ n <= Magnitude(n) /\ -n <= Magnitude(n)
         /\ Magnitude(n) = n \/ Magnitude(n) = -n
         /\ n >= 0 => Magnitude(n) = n
         /\ n < 0 => Magnitude(n) = -n
  BY DEF Magnitude

\* Spacing is the least power that is large enough.
LEMMA SpacingLeast ==
  ASSUME NEW n, Sized(n)
  PROVE  \E k \in 0..MaxExponent :
            /\ Spacing(n) = Twos[k]
            /\ Magnitude(n) < Twos[k] * (MaxSafe + 1)
            /\ \A l \in 0..MaxExponent :
                  Magnitude(n) < Twos[l] * (MaxSafe + 1) => k <= l
  <1> DEFINE exponents == {k \in 0..MaxExponent :
                              Magnitude(n) < Twos[k] * (MaxSafe + 1)}
             k == CHOOSE k \in exponents : \A l \in exponents : k <= l
  <1>1. MaxExponent \in exponents
    BY Int64Assumption DEF Sized
  <1>2. exponents \in SUBSET Nat
    BY Int64Assumption
  <1>3. k \in exponents /\ \A l \in exponents : k <= l
    <2> HIDE DEF exponents
    <2>1. \E m \in exponents : \A l \in exponents : m <= l
      BY <1>1, <1>2, LeastOf
    <2> QED
      BY <2>1
  <1>4. Spacing(n) = Twos[k]
    BY DEF Spacing
  <1> HIDE DEF k
  <1> QED
    BY <1>3, <1>4

\* Beyond MaxSafe an integer has a size, and Spacing is that of its size.
LEMMA SpacingFits ==
  ASSUME NEW n, Sized(n), Magnitude(n) > MaxSafe
  PROVE  \E k \in 1..MaxExponent : Spacing(n) = Twos[k] /\ Fits(n, k)
  <1>1. PICK k \in 0..MaxExponent :
            /\ Spacing(n) = Twos[k]
            /\ Magnitude(n) < Twos[k] * (MaxSafe + 1)
            /\ \A l \in 0..MaxExponent :
                  Magnitude(n) < Twos[l] * (MaxSafe + 1) => k <= l
    BY SpacingLeast
  <1>2. Magnitude(n) \in Nat
    BY MagnitudeOf DEF Sized
  <1>3. k # 0
    <2> SUFFICES ASSUME k = 0 PROVE FALSE
      OBVIOUS
    <2>1. Magnitude(n) < 1 * (MaxSafe + 1)
      BY <1>1, TwosOf
    <2> QED
      BY <1>2, <2>1, Int64Assumption
  <1>4. k \in 1..MaxExponent /\ k - 1 \in 0..MaxExponent
    BY <1>3, Int64Assumption
  <1>5. Twos[k] = 2 * Twos[k - 1] /\ Twos[k - 1] \in Nat /\ Half \in Nat
    BY <1>4, TwosOf, TwosPositive, HalfOf
  <1>6. /\ Twos[k] * (MaxSafe + 1) = 2 * (Twos[k] * Half)
        /\ Twos[k - 1] * (MaxSafe + 1) = Twos[k] * Half
    <2>1. MaxSafe + 1 = 2 * Half
      BY HalfOf
    <2>2. /\ Twos[k] * (2 * Half) = 2 * (Twos[k] * Half)
          /\ Twos[k - 1] * (2 * Half) = 2 * (Twos[k - 1] * Half)
          /\ (2 * Twos[k - 1]) * Half = 2 * (Twos[k - 1] * Half)
      BY <1>5, Product
    <2> QED
      BY <1>5, <2>1, <2>2
  <1>7. ~(Magnitude(n) < Twos[k - 1] * (MaxSafe + 1))
    BY <1>1, <1>4
  <1>8. Twos[k] * Half \in Int
    BY <1>5
  <1>9. Fits(n, k)
    <2> DEFINE x == Twos[k] * Half
    <2>1. Magnitude(n) < 2 * x /\ ~(Magnitude(n) < x)
      BY <1>1, <1>6, <1>7
    <2>2. x \in Int
      BY <1>8
    <2>3. x <= Magnitude(n)
      <3> HIDE DEF x
      <3> QED
        BY <1>2, <2>1, <2>2
    <2> QED
      BY <1>4, <2>1, <2>3 DEF Fits
  <1> QED
    BY <1>1, <1>4, <1>9

\* Only one size fits.
LEMMA FitsOnce ==
  ASSUME NEW n \in Int, NEW i, NEW j, Fits(n, i), Fits(n, j)
  PROVE  i = j
  <1>1. \A a, b \in 1..MaxExponent : Fits(n, a) /\ Fits(n, b) => ~(a < b)
    <2> SUFFICES ASSUME NEW a \in 1..MaxExponent, NEW b \in 1..MaxExponent,
                        Fits(n, a), Fits(n, b), a < b
                 PROVE  FALSE
      OBVIOUS
    <2>1. a \in 0..MaxExponent /\ b \in 0..MaxExponent
      BY Int64Assumption
    <2>2. 2 * Twos[a] <= Twos[b] /\ Twos[a] \in Nat /\ Twos[b] \in Nat
      BY <2>1, TwosGrow, TwosPositive
    <2>3. (2 * Twos[a]) * Half <= Twos[b] * Half
      <3>1. 2 * Twos[a] \in Int /\ Half \in Nat
        BY <2>2, HalfOf
      <3> QED
        BY <2>2, <3>1, Product
    <2>4. (2 * Twos[a]) * Half = 2 * (Twos[a] * Half)
      BY <2>2, HalfOf, Product
    <2>5. Twos[a] * Half \in Int /\ Twos[b] * Half \in Int
      BY <2>2, HalfOf, Product
    <2>6. Magnitude(n) < 2 * (Twos[a] * Half) /\ Twos[b] * Half <= Magnitude(n)
      BY DEF Fits
    <2>7. Magnitude(n) \in Int
      BY MagnitudeOf
    <2> DEFINE x == Twos[a] * Half
               y == Twos[b] * Half
    <2>8. x \in Int /\ y \in Int /\ 2 * x <= y /\ Magnitude(n) < 2 * x
          /\ y <= Magnitude(n)
      BY <2>3, <2>4, <2>5, <2>6
    <2> HIDE DEF x, y
    <2> QED
      BY <2>7, <2>8
  <1>2. i \in 1..MaxExponent /\ j \in 1..MaxExponent
    BY DEF Fits
  <1> QED
    BY <1>1, <1>2, Int64Assumption

\* What fits is beyond MaxSafe, and below the greatest power.
LEMMA FitsLarge ==
  ASSUME NEW n \in Int, NEW k, Fits(n, k)
  PROVE  Sized(n) /\ Magnitude(n) > MaxSafe /\ Spacing(n) = Twos[k]
  <1>1. k \in 1..MaxExponent /\ k \in 0..MaxExponent
    BY Int64Assumption DEF Fits
  <1>2. Twos[k] \in Nat /\ Twos[k] >= 2 /\ Twos[k] <= Twos[MaxExponent]
        /\ Twos[MaxExponent] \in Nat
    <2>1. Twos[k] \in Nat /\ Twos[MaxExponent] \in Nat
      BY <1>1, TwosPositive, Int64Assumption
    <2>2. 2 * Twos[0] <= Twos[k]
      BY <1>1, TwosGrow, Int64Assumption
    <2>3. k # MaxExponent => 2 * Twos[k] <= Twos[MaxExponent]
      BY <1>1, TwosGrow, Int64Assumption
    <2> QED
      BY <2>1, <2>2, <2>3, TwosOf
  <1>3. Half \in Nat /\ MaxSafe + 1 = 2 * Half /\ MaxSafe \in Nat
    BY HalfOf, Int64Assumption
  <1>4. 2 * Half <= Twos[k] * Half
    BY <1>2, <1>3, Product
  <1>5. Twos[k] * Half <= Twos[MaxExponent] * Half
    BY <1>2, <1>3, Product
  <1>6. Twos[MaxExponent] * (MaxSafe + 1) = 2 * (Twos[MaxExponent] * Half)
    BY <1>2, <1>3, Product
  <1>7. Magnitude(n) \in Int
    BY MagnitudeOf
  <1> DEFINE x == Twos[k] * Half
             y == Twos[MaxExponent] * Half
  <1>8. /\ x \in Int /\ y \in Int /\ 2 * Half <= x /\ x <= y
        /\ x <= Magnitude(n) /\ Magnitude(n) < 2 * x
        /\ Twos[MaxExponent] * (MaxSafe + 1) = 2 * y
    BY <1>2, <1>3, <1>4, <1>5, <1>6, Product DEF Fits
  <1> HIDE DEF x, y
  <1>9. Magnitude(n) > MaxSafe /\ Magnitude(n) < 2 * y
    BY <1>3, <1>7, <1>8
  <1>10. Sized(n)
    BY <1>8, <1>9 DEF Sized
  <1>11. PICK l \in 1..MaxExponent : Spacing(n) = Twos[l] /\ Fits(n, l)
    BY <1>9, <1>10, SpacingFits
  <1> QED
    BY <1>9, <1>10, <1>11, FitsOnce

\* Nearest(n, s) is a multiple of s, at most half of s away.
LEMMA NearestOf ==
  ASSUME NEW n \in Int, NEW s \in Nat, s > 0
  PROVE  \E q \in Int : /\ Nearest(n, s) = q * s
                        /\ 2 * (n - q * s) <= s /\ 2 * (q * s - n) <= s
  <1> DEFINE b == n \div s
             r == n % s
  <1>1. b \in Int /\ r \in 0..(s - 1) /\ n = b * s + r
    BY Quotient
  <1>2. Nearest(n, s) = IF 2 * r < s \/ (2 * r = s /\ b % 2 = 0)
                        THEN b * s ELSE (b + 1) * s
    BY DEF Nearest
  <1>3. (b + 1) * s = b * s + s /\ b * s \in Int /\ b + 1 \in Int
    BY <1>1, Product
  <1> HIDE DEF b, r
  <1>4. CASE 2 * r < s \/ (2 * r = s /\ b % 2 = 0)
    <2>1. Nearest(n, s) = b * s
      BY <1>2, <1>4
    <2>2. 2 * r <= s
      BY <1>1, <1>4
    <2> DEFINE p == b * s
    <2>3. p \in Int /\ n = p + r
      BY <1>1, <1>3
    <2>4. 2 * (n - p) <= s /\ 2 * (p - n) <= s
      <3> HIDE DEF p
      <3> QED
        BY <1>1, <2>2, <2>3
    <2> QED
      BY <1>1, <2>1, <2>4
  <1>5. CASE ~(2 * r < s \/ (2 * r = s /\ b % 2 = 0))
    <2>1. Nearest(n, s) = (b + 1) * s
      BY <1>2, <1>5
    <2>2. 2 * r >= s
      BY <1>1, <1>5
    <2> DEFINE p == b * s
               u == (b + 1) * s
    <2>3. p \in Int /\ n = p + r /\ u = p + s
      BY <1>1, <1>3
    <2>4. 2 * (n - u) <= s /\ 2 * (u - n) <= s
      <3> HIDE DEF p, u
      <3> QED
        BY <1>1, <2>2, <2>3
    <2> QED
      BY <1>3, <2>1, <2>4
  <1> QED
    BY <1>4, <1>5

\* A multiple is its own.
LEMMA NearestExact ==
  ASSUME NEW q \in Int, NEW s \in Nat, s > 0
  PROVE  Nearest(q * s, s) = q * s
  BY Remainder DEF Nearest

\* Of two integers, the nearest multiples are in the same order.
LEMMA NearestGrows ==
  ASSUME NEW m \in Int, NEW n \in Int, m <= n, NEW s \in Nat, s > 0
  PROVE  Nearest(m, s) <= Nearest(n, s)
  <1>1. PICK p \in Int : /\ Nearest(m, s) = p * s
                         /\ 2 * (m - p * s) <= s /\ 2 * (p * s - m) <= s
    BY NearestOf
  <1>2. PICK q \in Int : /\ Nearest(n, s) = q * s
                         /\ 2 * (n - q * s) <= s /\ 2 * (q * s - n) <= s
    BY NearestOf
  <1>3. CASE p <= q
    BY <1>1, <1>2, <1>3, Product
  <1>4. CASE q + 1 <= p
    <2>1. (q + 1) * s <= p * s /\ (q + 1) * s = q * s + s
          /\ p * s \in Int /\ q * s \in Int
      <3>1. q + 1 \in Int
        OBVIOUS
      <3> QED
        BY <1>4, <3>1, Product
    <2>2. m = n
      <3> DEFINE x == p * s
                 y == q * s
      <3>1. /\ x \in Int /\ y \in Int /\ y + s <= x
            /\ 2 * (x - m) <= s /\ 2 * (n - y) <= s
        BY <1>1, <1>2, <2>1
      <3> HIDE DEF x, y
      <3> QED
        BY <3>1
    <2>3. Nearest(m, s) = Nearest(n, s) /\ Nearest(m, s) \in Int
      BY <1>1, <2>1, <2>2
    <2> QED
      BY <2>3
  <1> QED
    BY <1>3, <1>4

\* A small integer is a double.
LEMMA SmallDouble ==
  ASSUME NEW n \in Int, Magnitude(n) <= MaxSafe
  PROVE  Double(n) = n
  BY DEF Double

\* The double of a large integer: of its size, or the first of the next one.
LEMMA DoubleFits ==
  ASSUME NEW n \in Int, NEW k, Fits(n, k)
  PROVE  \E q \in Int :
            /\ Double(n) = q * Twos[k]
            /\ 2 * (n - Double(n)) <= Twos[k] /\ 2 * (Double(n) - n) <= Twos[k]
            /\ n > 0 => Half <= q /\ q <= 2 * Half
            /\ n <= 0 => -(2 * Half) <= q /\ q <= -Half
  <1> DEFINE s == Twos[k]
  <1>1. s \in Nat /\ s > 0 /\ Half \in Nat
    BY TwosPositive, HalfOf, Int64Assumption DEF Fits
  <1>2. Double(n) = Nearest(n, s)
    <2>1. Magnitude(n) > MaxSafe /\ Spacing(n) = s /\ Magnitude(n) \in Nat
      BY FitsLarge, MagnitudeOf
    <2>2. ~(Magnitude(n) <= MaxSafe)
      BY <2>1, Int64Assumption
    <2> QED
      BY <2>1, <2>2 DEF Double
  <1>3. s * Half <= Magnitude(n) /\ Magnitude(n) < 2 * (s * Half)
    BY DEF Fits
  <1> HIDE DEF s
  <1>4. PICK q \in Int : /\ Nearest(n, s) = q * s
                         /\ 2 * (n - q * s) <= s /\ 2 * (q * s - n) <= s
    BY <1>1, NearestOf
  <1>5. s * Half = Half * s /\ s * Half \in Int /\ q * s \in Int
    BY <1>1, Product
  <1> DEFINE x == q * s
             h == Half * s
  <1>6. /\ x \in Int /\ h \in Int
        /\ 2 * (n - x) <= s /\ 2 * (x - n) <= s
        /\ h <= Magnitude(n) /\ Magnitude(n) < 2 * h
    BY <1>3, <1>4, <1>5
  <1>7. \A a, b \in Int : a + 1 <= b => a * s + s <= b * s
    <2> TAKE a \in Int, b \in Int
    <2> HAVE a + 1 <= b
    <2>1. a + 1 \in Int
      OBVIOUS
    <2> QED
      BY <1>1, <2>1, Product
  <1>8. ASSUME n > 0 PROVE Half <= q /\ q <= 2 * Half
    <2>1. h <= n /\ n < 2 * h
      BY <1>6, <1>8, MagnitudeOf
    <2>2. CASE q + 1 <= Half
      <3>1. x + s <= h
        BY <1>1, <1>7, <2>2
      <3> HIDE DEF x, h
      <3> QED
        BY <1>1, <1>6, <2>1, <3>1
    <2>3. CASE 2 * Half + 1 <= q
      <3>1. 2 * Half \in Int /\ (2 * Half) * s = 2 * h
        BY <1>1, Product
      <3>2. 2 * h + s <= x
        BY <1>1, <1>7, <2>3, <3>1
      <3> HIDE DEF x, h
      <3> QED
        BY <1>1, <1>6, <2>1, <3>2
    <2> QED
      BY <1>1, <2>2, <2>3
  <1>9. ASSUME n <= 0 PROVE -(2 * Half) <= q /\ q <= -Half
    <2>0. Magnitude(n) = -n
      BY <1>9, MagnitudeOf DEF Magnitude
    <2>1. h <= -n /\ -n < 2 * h
      BY <1>6, <2>0
    <2>2. CASE -Half + 1 <= q
      <3>1. -Half \in Int /\ (-Half) * s = -h
        BY <1>1, Product
      <3>2. -h + s <= x
        BY <1>1, <1>7, <2>2, <3>1
      <3> HIDE DEF x, h
      <3> QED
        BY <1>1, <1>6, <2>1, <3>2
    <2>3. CASE q + 1 <= -(2 * Half)
      <3>1. -(2 * Half) \in Int /\ (-(2 * Half)) * s = -(2 * h)
        <4>1. 2 * Half \in Int /\ (2 * Half) * s = 2 * h
          BY <1>1, Product
        <4> QED
          BY <1>1, <4>1, Product
      <3>2. x + s <= -(2 * h)
        BY <1>1, <1>7, <2>3, <3>1
      <3> HIDE DEF x, h
      <3> QED
        BY <1>1, <1>6, <2>1, <3>2
    <2> QED
      BY <1>1, <2>2, <2>3
  <1>10. 2 * (n - Double(n)) <= s /\ 2 * (Double(n) - n) <= s
    BY <1>2, <1>4
  <1> QED
    BY <1>2, <1>4, <1>8, <1>9, <1>10 DEF s

\* A multiple of the size of its factor is a double.
LEMMA MultipleFits ==
  ASSUME NEW k \in 1..MaxExponent, NEW q \in Int,
         Half <= Magnitude(q), Magnitude(q) < 2 * Half
  PROVE  Fits(q * Twos[k], k) /\ Double(q * Twos[k]) = q * Twos[k]
  <1> DEFINE s == Twos[k]
             d == q * s
  <1>1. s \in Nat /\ s > 0 /\ Half \in Nat
    BY TwosPositive, HalfOf, Int64Assumption
  <1>2. s * Half = Half * s /\ d \in Int /\ (-q) * s = -d
        /\ (2 * Half) * s = 2 * (Half * s) /\ Half * s \in Int
    <2> HIDE DEF s
    <2> QED
      BY <1>1, Product
  <1>3. Magnitude(d) = Magnitude(q) * s
    <2>1. CASE q >= 0
      <3>1. Magnitude(q) = q /\ 0 * s <= q * s
        <4> HIDE DEF s
        <4> QED
          BY <1>1, <2>1, Product, MagnitudeOf
      <3>2. d >= 0
        BY <1>1, <1>2, <3>1
      <3> QED
        BY <1>2, <3>1, <3>2 DEF Magnitude
    <2>2. CASE q < 0
      <3>1. Magnitude(q) = -q /\ (q + 1) * s <= 0 * s /\ (q + 1) * s = d + s
        <4> HIDE DEF s
        <4>1. q + 1 \in Int /\ q + 1 <= 0
          BY <2>2
        <4> QED
          BY <1>1, <2>2, <4>1, Product, MagnitudeOf
      <3>2. d < 0
        <4> HIDE DEF d
        <4> QED
          BY <1>1, <1>2, <3>1
      <3>3. Magnitude(d) = -d
        BY <1>2, <3>2 DEF Magnitude
      <3> QED
        BY <1>2, <3>1, <3>3
    <2> QED
      BY <2>1, <2>2
  <1>4. Half * s <= Magnitude(q) * s
    <2> HIDE DEF s
    <2> QED
      BY <1>1, MagnitudeOf, Product
  <1>5. Magnitude(q) * s < (2 * Half) * s
    <2>1. Magnitude(q) \in Int /\ Magnitude(q) + 1 \in Int /\ 2 * Half \in Int
          /\ Magnitude(q) + 1 <= 2 * Half
      BY <1>1, MagnitudeOf
    <2>2. (Magnitude(q) + 1) * s = Magnitude(q) * s + s
          /\ (Magnitude(q) + 1) * s <= (2 * Half) * s
          /\ Magnitude(q) * s \in Int /\ (2 * Half) * s \in Int
      <3> HIDE DEF s
      <3> QED
        BY <1>1, <2>1, Product
    <2> DEFINE x == Magnitude(q) * s
               y == (2 * Half) * s
    <2>3. x + s <= y /\ x \in Int /\ y \in Int
      BY <2>2
    <2> HIDE DEF x, y, s
    <2>4. x < y
      BY <1>1, <2>3
    <2> QED
      BY <2>4 DEF x, y
  <1>6. Fits(d, k)
    <2>1. Half * s <= Magnitude(d) /\ Magnitude(d) < (2 * Half) * s
      BY <1>3, <1>4, <1>5
    <2>2. Twos[k] * Half = Half * s /\ (2 * Half) * s = 2 * (Twos[k] * Half)
      BY <1>2
    <2> HIDE DEF s, d
    <2> QED
      BY <2>1, <2>2 DEF Fits
  <1>7. Double(d) = d
    <2>1. Magnitude(d) > MaxSafe /\ Spacing(d) = s /\ Magnitude(d) \in Int
      BY <1>2, <1>6, FitsLarge, MagnitudeOf
    <2>2. Double(d) = Nearest(d, s)
      <3>1. ~(Magnitude(d) <= MaxSafe)
        <4> HIDE DEF d
        <4> QED
          BY <2>1, Int64Assumption
      <3> QED
        BY <2>1, <3>1 DEF Double
    <2>3. Nearest(d, s) = d
      <3> HIDE DEF s
      <3> QED
        BY <1>1, NearestExact
    <2> QED
      BY <2>2, <2>3
  <1> QED
    BY <1>6, <1>7

\* A double of the next size is one of this size too, the last.
LEMMA NextSize ==
  ASSUME NEW k \in 1..MaxExponent, k + 1 <= MaxExponent
  PROVE  /\ (2 * Half) * Twos[k] = Half * Twos[k + 1]
         /\ (-(2 * Half)) * Twos[k] = (-Half) * Twos[k + 1]
  <1>1. Twos[k + 1] = 2 * Twos[k] /\ Twos[k] \in Nat /\ Half \in Nat
    <2>1. k + 1 \in 1..MaxExponent /\ (k + 1) - 1 = k /\ k \in 0..MaxExponent
      BY Int64Assumption
    <2>2. Twos[k + 1] = 2 * Twos[(k + 1) - 1]
      BY <2>1, TwosOf
    <2> QED
      BY <2>1, <2>2, TwosPositive, HalfOf
  <1>2. (2 * Half) * Twos[k] = 2 * (Half * Twos[k])
        /\ Half * (2 * Twos[k]) = 2 * (Half * Twos[k])
    BY <1>1, Product
  <1>3. (-(2 * Half)) * Twos[k] = -((2 * Half) * Twos[k])
        /\ (-Half) * (2 * Twos[k]) = -(Half * (2 * Twos[k]))
    <2>1. 2 * Half \in Int /\ 2 * Twos[k] \in Nat
      BY <1>1
    <2> QED
      BY <1>1, <2>1, Product
  <1> QED
    BY <1>1, <1>2, <1>3

\* A double is rounded to itself.
LEMMA DoubleTwice ==
  ASSUME NEW n \in Int, NEW k, Fits(n, k), k + 1 <= MaxExponent
  PROVE  /\ Double(n) \in Int /\ Double(Double(n)) = Double(n)
         /\ Fits(Double(n), k)
            \/ /\ Fits(Double(n), k + 1)
               /\ \/ Double(n) = Half * Twos[k + 1]
                  \/ Double(n) = (-Half) * Twos[k + 1]
  <1>1. PICK q \in Int : /\ Double(n) = q * Twos[k]
                         /\ n > 0 => Half <= q /\ q <= 2 * Half
                         /\ n <= 0 => -(2 * Half) <= q /\ q <= -Half
    BY DoubleFits
  <1>2. k \in 1..MaxExponent /\ Twos[k] \in Nat /\ Half \in Nat /\ Half >= 1
        /\ k + 1 \in 1..MaxExponent
    BY TwosPositive, HalfOf, Int64Assumption DEF Fits
  <1>3. Double(n) \in Int
    BY <1>1, <1>2, Product
  <1>4. Half <= Magnitude(q) /\ Magnitude(q) <= 2 * Half
        /\ (Magnitude(q) = q \/ Magnitude(q) = -q) /\ Magnitude(q) \in Int
    <2>1. CASE n > 0
      BY <1>1, <1>2, <2>1 DEF Magnitude
    <2>2. CASE n <= 0
      BY <1>1, <1>2, <2>2 DEF Magnitude
    <2> QED
      BY <2>1, <2>2
  <1>5. CASE Magnitude(q) < 2 * Half
    BY <1>1, <1>2, <1>3, <1>4, <1>5, MultipleFits
  <1>6. CASE q = 2 * Half
    <2>1. Double(n) = Half * Twos[k + 1]
      BY <1>1, <1>2, <1>6, NextSize
    <2>2. Half <= Magnitude(Half) /\ Magnitude(Half) < 2 * Half
      BY <1>2 DEF Magnitude
    <2>3. Fits(Half * Twos[k + 1], k + 1)
          /\ Double(Half * Twos[k + 1]) = Half * Twos[k + 1]
      BY <1>2, <2>2, MultipleFits
    <2> QED
      BY <1>3, <2>1, <2>3
  <1>7. CASE q = -(2 * Half)
    <2>1. Double(n) = (-Half) * Twos[k + 1]
      BY <1>1, <1>2, <1>7, NextSize
    <2>2. Half <= Magnitude(-Half) /\ Magnitude(-Half) < 2 * Half /\ -Half \in Int
      BY <1>2 DEF Magnitude
    <2>3. Fits((-Half) * Twos[k + 1], k + 1)
          /\ Double((-Half) * Twos[k + 1]) = (-Half) * Twos[k + 1]
      BY <1>2, <2>2, MultipleFits
    <2> QED
      BY <1>3, <2>1, <2>3
  <1> QED
    BY <1>2, <1>4, <1>5, <1>6, <1>7

\* Beyond MaxSafe, on which side.
LEMMA DoubleSide ==
  ASSUME NEW n \in Int, Sized(n)
  PROVE  /\ Double(n) \in Int
         /\ n > MaxSafe => Double(n) > MaxSafe
         /\ n < -MaxSafe => Double(n) < -MaxSafe
  <1>0. MaxSafe \in Nat
    BY Int64Assumption
  <1>1. CASE Magnitude(n) <= MaxSafe
    BY <1>0, <1>1, SmallDouble DEF Magnitude
  <1>2. CASE Magnitude(n) > MaxSafe
    <2>1. PICK k \in 1..MaxExponent : Fits(n, k)
      BY <1>2, SpacingFits
    <2>2. PICK q \in Int : /\ Double(n) = q * Twos[k]
                           /\ n > 0 => Half <= q
                           /\ n <= 0 => q <= -Half
      BY <2>1, DoubleFits
    <2>3. Twos[k] \in Nat /\ Twos[k] >= 2 /\ Half \in Nat /\ MaxSafe + 1 = 2 * Half
      <3>1. 2 * Twos[0] <= Twos[k] /\ Twos[k] \in Nat
        BY TwosGrow, TwosPositive, Int64Assumption
      <3> QED
        BY <3>1, TwosOf, HalfOf
    <2>4. 2 * Half <= Half * Twos[k] /\ Half * Twos[k] \in Int
      BY <2>3, Product
    <2>5. Half * Twos[k] = -((-Half) * Twos[k]) /\ -Half \in Int
      BY <2>3, Product
    <2>6. Half <= q => Half * Twos[k] <= Double(n)
      BY <2>2, <2>3, Product
    <2>7. q <= -Half => Double(n) <= (-Half) * Twos[k]
      BY <2>2, <2>3, <2>5, Product
    <2>8. Double(n) \in Int /\ (-Half) * Twos[k] \in Int
      BY <2>2, <2>3, <2>5, Product
    <2>9. q <= -Half => Double(n) <= -(Half * Twos[k])
      <3> DEFINE x == Half * Twos[k]
                 y == (-Half) * Twos[k]
      <3>1. (q <= -Half => Double(n) <= y) /\ x = -y /\ x \in Int /\ y \in Int
        BY <2>4, <2>5, <2>7, <2>8
      <3>2. q <= -Half => Double(n) <= -x
        <4> HIDE DEF x, y
        <4> QED
          BY <2>8, <3>1
      <3> QED
        BY <3>2
    <2> DEFINE x == Half * Twos[k]
    <2>10. /\ x \in Int /\ MaxSafe + 1 <= x
           /\ n > 0 => x <= Double(n)
           /\ n <= 0 => Double(n) <= -x
      BY <2>2, <2>3, <2>4, <2>6, <2>9
    <2> HIDE DEF x
    <2> QED
      BY <1>0, <2>8, <2>10
  <1> QED
    BY <1>0, <1>1, <1>2, MagnitudeOf

\* The size of the greater of two magnitudes is not the smaller size.
LEMMA SizesGrow ==
  ASSUME NEW m \in Int, NEW n \in Int, NEW j, NEW k, Fits(m, j), Fits(n, k),
         Magnitude(m) <= Magnitude(n)
  PROVE  j <= k
  <1>1. j \in 1..MaxExponent /\ k \in 1..MaxExponent
        /\ j \in 0..MaxExponent /\ k \in 0..MaxExponent
    BY Int64Assumption DEF Fits
  <1>2. CASE k < j
    <2>1. 2 * Twos[k] <= Twos[j] /\ Twos[k] \in Nat /\ Twos[j] \in Nat
          /\ Half \in Nat
      BY <1>1, <1>2, TwosGrow, TwosPositive, HalfOf
    <2>2. (2 * Twos[k]) * Half <= Twos[j] * Half
          /\ (2 * Twos[k]) * Half = 2 * (Twos[k] * Half)
          /\ Twos[k] * Half \in Int /\ Twos[j] * Half \in Int
      <3>1. 2 * Twos[k] \in Int
        BY <2>1
      <3> QED
        BY <2>1, <3>1, Product
    <2>3. Magnitude(m) \in Int /\ Magnitude(n) \in Int
      BY MagnitudeOf
    <2> DEFINE x == Twos[k] * Half
               y == Twos[j] * Half
    <2>4. /\ x \in Int /\ y \in Int /\ 2 * x <= y
          /\ y <= Magnitude(m) /\ Magnitude(n) < 2 * x
      BY <2>2 DEF Fits
    <2> HIDE DEF x, y
    <2> QED
      BY <2>3, <2>4
  <1> QED
    BY <1>1, <1>2

\* Doubles of the same sign are in the order of what is rounded.
LEMMA LargeGrows ==
  ASSUME NEW m \in Int, NEW n \in Int, NEW j, NEW k, Fits(m, j), Fits(n, k),
         m <= n, m > 0 \/ n < 0
  PROVE  Double(m) <= Double(n)
  <1>1. j \in 1..MaxExponent /\ k \in 1..MaxExponent
        /\ j \in 0..MaxExponent /\ k \in 0..MaxExponent
    BY Int64Assumption DEF Fits
  <1>2. CASE j = k
    <2>1. Twos[j] \in Nat /\ Twos[j] > 0
      BY <1>1, TwosPositive
    <2>2. Double(m) = Nearest(m, Twos[j]) /\ Double(n) = Nearest(n, Twos[j])
      <3>1. Magnitude(m) > MaxSafe /\ Spacing(m) = Twos[j]
            /\ Magnitude(n) > MaxSafe /\ Spacing(n) = Twos[j]
            /\ Magnitude(m) \in Int /\ Magnitude(n) \in Int /\ MaxSafe \in Int
        BY <1>2, FitsLarge, MagnitudeOf, Int64Assumption
      <3>2. ~(Magnitude(m) <= MaxSafe) /\ ~(Magnitude(n) <= MaxSafe)
        BY <3>1
      <3> QED
        BY <3>1, <3>2 DEF Double
    <2> QED
      BY <2>1, <2>2, NearestGrows
  <1>3. \A a, b \in 1..MaxExponent : a < b => (2 * Half) * Twos[a] <= Half * Twos[b]
    <2> SUFFICES ASSUME NEW a \in 1..MaxExponent, NEW b \in 1..MaxExponent, a < b
                 PROVE  (2 * Half) * Twos[a] <= Half * Twos[b]
      OBVIOUS
    <2>1. 2 * Twos[a] <= Twos[b] /\ Twos[a] \in Nat /\ Twos[b] \in Nat
          /\ Half \in Nat
      BY TwosGrow, TwosPositive, HalfOf, Int64Assumption
    <2>2. (2 * Twos[a]) * Half <= Twos[b] * Half
          /\ (2 * Twos[a]) * Half = 2 * (Twos[a] * Half)
          /\ Twos[b] * Half = Half * Twos[b]
      <3>1. 2 * Twos[a] \in Int
        BY <2>1
      <3> QED
        BY <2>1, <3>1, Product
    <2>3. (2 * Half) * Twos[a] = 2 * (Half * Twos[a])
          /\ Half * Twos[a] = Twos[a] * Half
      BY <2>1, Product
    <2> QED
      BY <2>2, <2>3
  <1>4. PICK p \in Int : /\ Double(m) = p * Twos[j]
                         /\ m > 0 => Half <= p /\ p <= 2 * Half
                         /\ m <= 0 => -(2 * Half) <= p /\ p <= -Half
    BY DoubleFits
  <1>5. PICK q \in Int : /\ Double(n) = q * Twos[k]
                         /\ n > 0 => Half <= q /\ q <= 2 * Half
                         /\ n <= 0 => -(2 * Half) <= q /\ q <= -Half
    BY DoubleFits
  <1>6. /\ Twos[j] \in Nat /\ Twos[k] \in Nat /\ Half \in Nat
        /\ 2 * Half \in Int /\ -Half \in Int /\ -(2 * Half) \in Int
    BY <1>1, TwosPositive, HalfOf
  <1>7. CASE m > 0 /\ j # k
    <2>1. n > 0 /\ Magnitude(m) <= Magnitude(n)
      BY <1>7, MagnitudeOf DEF Magnitude
    <2>2. j < k
      BY <1>1, <1>7, <2>1, SizesGrow
    <2>3. p * Twos[j] <= (2 * Half) * Twos[j] /\ Half * Twos[k] <= q * Twos[k]
      <3>1. p <= 2 * Half /\ Half <= q
        BY <1>4, <1>5, <1>7, <2>1
      <3>2. p * Twos[j] <= (2 * Half) * Twos[j]
        BY <1>6, <3>1, Product
      <3>3. Half * Twos[k] <= q * Twos[k]
        BY <1>6, <3>1, Product
      <3> QED
        BY <3>2, <3>3
    <2>4. (2 * Half) * Twos[j] <= Half * Twos[k]
      BY <1>1, <1>3, <2>2
    <2>5. /\ p * Twos[j] \in Int /\ (2 * Half) * Twos[j] \in Int
          /\ q * Twos[k] \in Int /\ Half * Twos[k] \in Int
      BY <1>6, Product
    <2> DEFINE w == p * Twos[j]
               x == (2 * Half) * Twos[j]
               y == Half * Twos[k]
               z == q * Twos[k]
    <2>6. w \in Int /\ x \in Int /\ y \in Int /\ z \in Int
          /\ w <= x /\ x <= y /\ y <= z
      BY <2>3, <2>4, <2>5
    <2>7. w <= z
      <3> HIDE DEF w, x, y, z
      <3> QED
        BY <2>6
    <2> QED
      BY <1>4, <1>5, <2>7
  <1>8. CASE n < 0 /\ j # k
    <2>1. m <= 0 /\ n <= 0 /\ Magnitude(n) <= Magnitude(m)
      BY <1>8, MagnitudeOf DEF Magnitude
    <2>2. k < j
      BY <1>1, <1>8, <2>1, SizesGrow
    <2>3. p * Twos[j] <= (-Half) * Twos[j]
          /\ (-(2 * Half)) * Twos[k] <= q * Twos[k]
      BY <1>4, <1>5, <1>6, <2>1, Product
    <2>4. (2 * Half) * Twos[k] <= Half * Twos[j]
      BY <1>1, <1>3, <2>2
    <2>5. /\ p * Twos[j] \in Int /\ (2 * Half) * Twos[k] \in Int
          /\ q * Twos[k] \in Int /\ Half * Twos[j] \in Int
          /\ (-Half) * Twos[j] = -(Half * Twos[j])
          /\ (-(2 * Half)) * Twos[k] = -((2 * Half) * Twos[k])
      BY <1>6, Product
    <2> DEFINE w == p * Twos[j]
               x == (2 * Half) * Twos[k]
               y == Half * Twos[j]
               z == q * Twos[k]
    <2>6. w \in Int /\ x \in Int /\ y \in Int /\ z \in Int
          /\ w <= -y /\ x <= y /\ -x <= z
      BY <2>3, <2>4, <2>5
    <2>7. w <= z
      <3> HIDE DEF w, x, y, z
      <3> QED
        BY <2>6
    <2> QED
      BY <1>4, <1>5, <2>7
  <1> QED
    BY <1>2, <1>7, <1>8

\* Rounding keeps the order of integers.
LEMMA DoubleGrows ==
  ASSUME NEW m \in Int, NEW n \in Int, Sized(m), Sized(n), m <= n
  PROVE  Double(m) <= Double(n)
  <1>1. MaxSafe \in Nat
    BY Int64Assumption
  <1>2. /\ Double(m) \in Int /\ Double(n) \in Int
        /\ m > MaxSafe => Double(m) > MaxSafe
        /\ m < -MaxSafe => Double(m) < -MaxSafe
        /\ n > MaxSafe => Double(n) > MaxSafe
        /\ n < -MaxSafe => Double(n) < -MaxSafe
    BY DoubleSide
  <1>3. \A x \in Int : x \in (-MaxSafe)..MaxSafe => Double(x) = x
    BY <1>1, SmallDouble DEF Magnitude
  <1>4. \A x \in Int : Sized(x) /\ (x > MaxSafe \/ x < -MaxSafe)
                         => \E k \in 1..MaxExponent : Fits(x, k)
    <2> TAKE x \in Int
    <2> HAVE Sized(x) /\ (x > MaxSafe \/ x < -MaxSafe)
    <2>1. Magnitude(x) > MaxSafe
      BY <1>1 DEF Magnitude
    <2> QED
      BY <2>1, SpacingFits
  <1>5. CASE m > MaxSafe
    <2>1. n > MaxSafe /\ m > 0
      BY <1>1, <1>5
    <2> QED
      BY <1>4, <1>5, <2>1, LargeGrows
  <1>6. CASE n < -MaxSafe
    <2>1. m < -MaxSafe /\ n < 0
      BY <1>1, <1>6
    <2> QED
      BY <1>4, <1>6, <2>1, LargeGrows
  <1>7. CASE ~(m > MaxSafe) /\ ~(n < -MaxSafe)
    <2>1. m < -MaxSafe \/ m \in (-MaxSafe)..MaxSafe
      BY <1>1, <1>7
    <2>2. n > MaxSafe \/ n \in (-MaxSafe)..MaxSafe
      BY <1>1, <1>7
    <2> QED
      BY <1>1, <1>2, <1>3, <2>1, <2>2
  <1> QED
    BY <1>5, <1>6, <1>7

\* What is converted stays well below the greatest power.
Cover == Half * Twos[MaxExponent - 1]
Covered(n) == n \in Int /\ Magnitude(n) <= Cover

\* Cover is a quarter of the greatest power, and no less than any input.
LEMMA CoverOf ==
  /\ MaxExponent >= 2
  /\ Cover \in Nat
  /\ MaxGiven <= Cover
  /\ 2 * MaxInt + 2 <= Cover
  /\ Twos[MaxExponent] * (MaxSafe + 1) = 4 * Cover
  <1> DEFINE p == Twos[MaxExponent - 1]
  <1>0. /\ MaxSafe \in Nat /\ MaxInt \in Nat /\ MaxSafe <= MaxInt
        /\ MaxExponent \in Nat /\ MaxGiven \in Nat
        /\ 4 * MaxGiven <= Twos[MaxExponent] * (MaxSafe + 1)
        /\ 8 * (MaxInt + 1) <= Twos[MaxExponent] * (MaxSafe + 1)
    BY Int64Assumption, NumbersAssumption
  <1>1. MaxExponent # 0
    <2> SUFFICES ASSUME MaxExponent = 0 PROVE FALSE
      OBVIOUS
    <2>1. 8 * (MaxInt + 1) <= 1 * (MaxSafe + 1)
      BY <1>0, TwosOf
    <2> QED
      BY <1>0, <2>1
  <1>2. /\ MaxExponent \in 1..MaxExponent /\ MaxExponent - 1 \in 0..MaxExponent
        /\ Twos[MaxExponent] = 2 * p /\ p \in Nat
    BY <1>0, <1>1, TwosOf, TwosPositive
  <1>3. MaxExponent # 1
    <2> SUFFICES ASSUME MaxExponent = 1 PROVE FALSE
      OBVIOUS
    <2>1. Twos[MaxExponent] = 2
      BY <1>2, TwosOf
    <2>2. 8 * (MaxInt + 1) <= 2 * (MaxSafe + 1)
      BY <1>0, <2>1
    <2> QED
      BY <1>0, <2>2
  <1> HIDE DEF p
  <1>4. Half \in Nat /\ MaxSafe + 1 = 2 * Half
    BY HalfOf
  <1>5. /\ (2 * p) * (2 * Half) = 4 * (p * Half) /\ p * Half = Half * p
        /\ Half * p \in Nat
    <2>1. (2 * p) * (2 * Half) = 2 * (p * (2 * Half)) /\ 2 * Half \in Nat
      BY <1>2, <1>4, Product
    <2>2. p * (2 * Half) = 2 * (p * Half) /\ p * Half = Half * p /\ p * Half \in Int
      BY <1>2, <1>4, Product
    <2>3. 0 * Half <= p * Half /\ 0 * Half = 0
      BY <1>2, <1>4, Product
    <2> QED
      BY <2>1, <2>2, <2>3
  <1>6. Cover = Half * p
    BY DEF Cover, p
  <1>7. Twos[MaxExponent] * (MaxSafe + 1) = 4 * Cover
    BY <1>2, <1>4, <1>5, <1>6
  <1>8. Cover \in Nat
    BY <1>5, <1>6
  <1> QED
    BY <1>0, <1>1, <1>3, <1>7, <1>8

\* Cover and -Cover are doubles: rounding does not pass them.
LEMMA CoverFits ==
  /\ Cover \in Int /\ Cover >= 1
  /\ MaxExponent - 1 \in 1..MaxExponent
  /\ Fits(Cover, MaxExponent - 1) /\ Double(Cover) = Cover
  /\ Fits(-Cover, MaxExponent - 1) /\ Double(-Cover) = -Cover
  <1>1. /\ MaxExponent - 1 \in 1..MaxExponent /\ Cover \in Nat
        /\ 2 * MaxInt + 2 <= Cover /\ MaxInt \in Nat
        /\ Half \in Nat /\ Half >= 1 /\ -Half \in Int
    BY CoverOf, HalfOf, Int64Assumption
  <1>2. /\ Half <= Magnitude(Half) /\ Magnitude(Half) < 2 * Half
        /\ Half <= Magnitude(-Half) /\ Magnitude(-Half) < 2 * Half
    BY <1>1 DEF Magnitude
  <1>3. Twos[MaxExponent - 1] \in Nat
    BY <1>1, TwosPositive
  <1>4. (-Half) * Twos[MaxExponent - 1] = -Cover
    BY <1>1, <1>3, Product DEF Cover
  <1>5. /\ Fits(Half * Twos[MaxExponent - 1], MaxExponent - 1)
        /\ Double(Half * Twos[MaxExponent - 1]) = Half * Twos[MaxExponent - 1]
    BY <1>1, <1>2, MultipleFits
  <1>6. /\ Fits((-Half) * Twos[MaxExponent - 1], MaxExponent - 1)
        /\ Double((-Half) * Twos[MaxExponent - 1])
             = (-Half) * Twos[MaxExponent - 1]
    BY <1>1, <1>2, MultipleFits
  <1>7. Fits(Cover, MaxExponent - 1) /\ Double(Cover) = Cover
    BY <1>5 DEF Cover
  <1>8. Fits(-Cover, MaxExponent - 1) /\ Double(-Cover) = -Cover
    BY <1>4, <1>6
  <1> QED
    BY <1>1, <1>7, <1>8

\* Up to there, what is converted has a size, and there is a next one.
LEMMA CoveredFits ==
  ASSUME NEW n, Covered(n)
  PROVE  /\ n \in Int /\ Sized(n) /\ -Cover <= n /\ n <= Cover
         /\ Magnitude(n) > MaxSafe =>
              \E k \in 1..MaxExponent :
                  Fits(n, k) /\ Spacing(n) = Twos[k] /\ k + 1 <= MaxExponent
  <1>1. n \in Int /\ Magnitude(n) <= Cover /\ Cover \in Int /\ Cover >= 1
    BY CoverFits DEF Covered
  <1>2. Magnitude(n) \in Int
    BY <1>1, MagnitudeOf
  <1>3. Sized(n)
    <2>1. Magnitude(n) < 4 * Cover
      BY <1>1, <1>2
    <2> QED
      BY <1>1, <2>1, CoverOf DEF Sized
  <1>4. -Cover <= n /\ n <= Cover
    BY <1>1 DEF Magnitude
  <1>5. ASSUME Magnitude(n) > MaxSafe
        PROVE  \E k \in 1..MaxExponent :
                  Fits(n, k) /\ Spacing(n) = Twos[k] /\ k + 1 <= MaxExponent
    <2>1. PICK k \in 1..MaxExponent : Spacing(n) = Twos[k] /\ Fits(n, k)
      BY <1>3, <1>5, SpacingFits
    <2>2. Magnitude(n) <= Magnitude(Cover)
      BY <1>1 DEF Magnitude
    <2>3. k <= MaxExponent - 1
      BY <1>1, <2>1, <2>2, CoverFits, SizesGrow
    <2> QED
      BY <2>1, <2>3, Int64Assumption
  <1> QED
    BY <1>1, <1>3, <1>4, <1>5

\* Rounding is done once.
LEMMA DoubleStays ==
  ASSUME NEW n, Covered(n)
  PROVE  Covered(Double(n)) /\ Double(Double(n)) = Double(n)
  <1>1. n \in Int /\ Sized(n) /\ -Cover <= n /\ n <= Cover
    BY CoveredFits
  <1>2. Cover \in Int /\ Cover >= 1 /\ -Cover \in Int
        /\ Double(Cover) = Cover /\ Double(-Cover) = -Cover
    BY CoverFits
  <1>3. Sized(Cover) /\ Sized(-Cover)
    <2>1. Covered(Cover) /\ Covered(-Cover)
      BY <1>2 DEF Covered, Magnitude
    <2> QED
      BY <2>1, CoveredFits
  <1>4. Double(n) \in Int
    BY <1>1, DoubleSide
  <1>5. Double(n) <= Cover /\ -Cover <= Double(n)
    <2>1. Double(n) <= Double(Cover)
      BY <1>1, <1>2, <1>3, DoubleGrows
    <2>2. Double(-Cover) <= Double(n)
      BY <1>1, <1>2, <1>3, DoubleGrows
    <2> QED
      BY <1>2, <2>1, <2>2
  <1>6. Covered(Double(n))
    BY <1>2, <1>4, <1>5 DEF Covered, Magnitude
  <1>7. CASE Magnitude(n) <= MaxSafe
    BY <1>1, <1>6, <1>7, SmallDouble
  <1>8. CASE Magnitude(n) > MaxSafe
    <2>1. PICK k \in 1..MaxExponent : Fits(n, k) /\ k + 1 <= MaxExponent
      BY <1>8, CoveredFits
    <2> QED
      BY <1>1, <1>6, <2>1, DoubleTwice
  <1> QED
    BY <1>1, <1>7, <1>8, MagnitudeOf, Int64Assumption

\* A decimal of d is one of the integers that are rounded to d.
LEMMA TextOf ==
  ASSUME NEW d, Covered(d), Double(d) = d
  PROVE  Text(d) \in Int /\ Sized(Text(d)) /\ Double(Text(d)) = d
  <1>1. d \in Int /\ Sized(d)
    BY CoveredFits
  <1>2. CASE Magnitude(d) <= MaxSafe
    BY <1>1, <1>2 DEF Text
  <1>3. CASE Magnitude(d) > MaxSafe
    <2> DEFINE near == {n \in (d - Spacing(d))..(d + Spacing(d)) : Double(n) = d}
               zeros == {k \in 0..MaxExponent : \E n \in near : n % Tens[k] = 0}
               z == CHOOSE k \in zeros : \A l \in zeros : k >= l
               short == {n \in near : n % Tens[z] = 0}
               x == CHOOSE n \in short :
                        \A m \in short : Magnitude(n - d) <= Magnitude(m - d)
    <2>1. PICK k \in 1..MaxExponent : Fits(d, k) /\ Spacing(d) = Twos[k]
      BY <1>3, CoveredFits
    <2>2. Spacing(d) \in Nat
      BY <2>1, TwosPositive, Int64Assumption
    <2>3. d \in near /\ near \subseteq Int
      BY <1>1, <2>2
    <2>4. \E l \in zeros : \A m \in zeros : l >= m
      <3>1. 0 \in zeros
        <4>1. d % Tens[0] = 0
          BY <1>1, TensOf
        <4> HIDE DEF near
        <4> QED
          BY <2>3, <4>1, Int64Assumption
      <3>2. zeros \subseteq 0..MaxExponent
        OBVIOUS
      <3> HIDE DEF zeros
      <3> DEFINE rest == {MaxExponent - l : l \in zeros}
      <3>3. rest \in SUBSET Nat /\ rest # {}
        BY <3>1, <3>2, Int64Assumption
      <3>4. PICK r \in rest : \A m \in rest : r <= m
        <4> HIDE DEF rest
        <4> QED
          BY <3>3, LeastOf
      <3>5. PICK l \in zeros : r = MaxExponent - l
        BY <3>4
      <3>6. ASSUME NEW m \in zeros PROVE l >= m
        <4>1. MaxExponent - m \in rest
          OBVIOUS
        <4>2. MaxExponent - l <= MaxExponent - m
          BY <3>4, <3>5, <4>1
        <4> QED
          BY <3>2, <4>2, Int64Assumption
      <3> QED
        BY <3>6
    <2>5. z \in zeros
      <3> HIDE DEF zeros
      <3> QED
        BY <2>4
    <2>6. short # {} /\ short \subseteq near
      <3> HIDE DEF z, near
      <3> QED
        BY <2>5
    <2>7. x \in short
      <3>1. short \subseteq Int
        BY <2>3, <2>6
      <3> HIDE DEF short
      <3> DEFINE far == {Magnitude(n - d) : n \in short}
      <3>2. \A n \in short : Magnitude(n - d) \in Nat
        BY <1>1, <3>1, MagnitudeOf
      <3>3. far \in SUBSET Nat /\ far # {}
        BY <2>6, <3>2
      <3>4. PICK f \in far : \A g \in far : f <= g
        <4> HIDE DEF far
        <4> QED
          BY <3>3, LeastOf
      <3>5. PICK n \in short : f = Magnitude(n - d)
        BY <3>4
      <3>6. \A m \in short : Magnitude(n - d) <= Magnitude(m - d)
        BY <3>4, <3>5
      <3> QED
        BY <3>6
    <2>8. Text(d) = x
      <3>1. ~(Magnitude(d) <= MaxSafe)
        BY <1>1, <1>3, MagnitudeOf, Int64Assumption
      <3> QED
        BY <3>1 DEF Text
    <2>9. x \in near
      <3> HIDE DEF x, short, near
      <3> QED
        BY <2>6, <2>7
    <2>10. x \in Int /\ Double(x) = d
           /\ d - Spacing(d) <= x /\ x <= d + Spacing(d)
      <3> HIDE DEF x
      <3> QED
        BY <1>1, <2>2, <2>9
    <2> HIDE DEF x
    <2>11. Sized(x)
      <3>1. Magnitude(d) <= Cover /\ Cover \in Int /\ Cover >= 1
            /\ Magnitude(d) \in Int
        BY <1>1, CoverFits, MagnitudeOf DEF Covered
      <3>2. Spacing(d) <= Magnitude(d)
        <4>1. Twos[k] * Half <= Magnitude(d) /\ Twos[k] \in Nat
              /\ Half \in Nat /\ Half >= 1
          BY <2>1, TwosPositive, HalfOf, Int64Assumption DEF Fits
        <4>2. 1 * Twos[k] <= Half * Twos[k] /\ Half * Twos[k] = Twos[k] * Half
          BY <4>1, Product
        <4>3. 1 * Twos[k] = Twos[k]
          BY <4>1
        <4> QED
          BY <2>1, <3>1, <4>1, <4>2, <4>3
      <3>3. Magnitude(x) <= 2 * Cover
        BY <1>1, <2>2, <2>10, <3>1, <3>2 DEF Magnitude
      <3>4. Magnitude(x) < 4 * Cover
        BY <2>10, <3>1, <3>3, MagnitudeOf
      <3> QED
        BY <2>10, <3>4, CoverOf DEF Sized
    <2> QED
      BY <2>8, <2>10, <2>11
  <1> QED
    BY <1>1, <1>2, <1>3, MagnitudeOf, Int64Assumption

\* Beyond MaxSafe the decimal of o's double is at most one Spacing(o) from o:
\* half of it by rounding, half by printing. Only where the next size begins
\* can printing be off by more, and there NumbersAssumption says that it is not.
LEMMA TextNear ==
  ASSUME NEW o, Covered(o), Magnitude(o) <= 2 * MaxInt + 1
  PROVE  /\ Text(Double(o)) \in Int /\ Spacing(o) \in Nat
         /\ Magnitude(Text(Double(o)) - o) <= Spacing(o)
  <1> DEFINE d == Double(o)
             x == Text(d)
  <1>1. o \in Int /\ Sized(o)
    BY CoveredFits
  <1>2. d \in Int /\ Covered(d) /\ Double(d) = d /\ Sized(d)
    <2>1. Covered(d) /\ Double(d) = d
      BY DoubleStays
    <2> HIDE DEF d
    <2> QED
      BY <2>1, CoveredFits
  <1>3. x \in Int /\ Sized(x) /\ Double(x) = d
    <2> HIDE DEF d
    <2> QED
      BY <1>2, TextOf
  <1>4. CASE Magnitude(o) <= MaxSafe
    <2>1. d = o
      BY <1>1, <1>4, SmallDouble
    <2>2. x = o
      BY <1>4, <2>1 DEF Text
    <2>3. \E k \in 0..MaxExponent : Spacing(o) = Twos[k]
      BY <1>1, SpacingLeast
    <2>4. Spacing(o) \in Nat
      BY <2>3, TwosPositive
    <2>5. Magnitude(x - o) = 0
      <3> HIDE DEF x
      <3> QED
        BY <1>1, <2>2 DEF Magnitude
    <2> QED
      BY <1>3, <2>4, <2>5
  <1>5. CASE Magnitude(o) > MaxSafe
    <2>1. PICK k \in 1..MaxExponent :
              Fits(o, k) /\ Spacing(o) = Twos[k] /\ k + 1 <= MaxExponent
      BY <1>5, CoveredFits
    <2> DEFINE s == Twos[k]
    <2>2. s \in Nat /\ s > 0 /\ k \in 0..MaxExponent /\ k + 1 \in 1..MaxExponent
          /\ Half \in Nat /\ MaxSafe \in Nat
      BY <2>1, TwosPositive, HalfOf, Int64Assumption
    <2>3. 2 * (o - d) <= s /\ 2 * (d - o) <= s
      BY <1>1, <2>1, DoubleFits
    <2>4. Fits(d, k) \/ /\ Fits(d, k + 1)
                        /\ d = Half * Twos[k + 1] \/ d = (-Half) * Twos[k + 1]
      BY <1>1, <2>1, DoubleTwice
    <2>5. Magnitude(d) > MaxSafe
      <3> HIDE DEF d
      <3> QED
        BY <1>2, <2>4, FitsLarge
    <2>6. ASSUME 2 * (x - d) <= s, 2 * (d - x) <= s
          PROVE  Magnitude(x - o) <= s
      <3> HIDE DEF d, x, s
      <3> QED
        BY <1>1, <1>2, <1>3, <2>2, <2>3, <2>6 DEF Magnitude
    <2>7. PICK j \in 1..MaxExponent : Fits(x, j)
      <3>1. ~(Magnitude(x) <= MaxSafe)
        <4> HIDE DEF x, d
        <4> QED
          BY <1>2, <1>3, <2>2, <2>5, SmallDouble, MagnitudeOf
      <3>2. Magnitude(x) > MaxSafe
        <4> HIDE DEF x
        <4> QED
          BY <1>3, <2>2, <3>1, MagnitudeOf
      <3> HIDE DEF x
      <3> QED
        BY <1>3, <3>2, SpacingFits
    <2>8. PICK q \in Int :
            /\ d = q * Twos[j]
            /\ 2 * (x - d) <= Twos[j] /\ 2 * (d - x) <= Twos[j]
            /\ x > 0 => Half <= q /\ q <= 2 * Half
            /\ x <= 0 => -(2 * Half) <= q /\ q <= -Half
      <3> HIDE DEF x, d
      <3> QED
        BY <1>3, <2>7, DoubleFits
    <2>9. Twos[j] \in Nat /\ j \in 0..MaxExponent
      BY <2>7, TwosPositive, Int64Assumption
    <2>10. CASE j <= k
      <3>1. Twos[j] <= s
        <4>1. j < k => 2 * Twos[j] <= s
          BY <2>2, <2>9, TwosGrow
        <4>2. j = k => Twos[j] = s
          OBVIOUS
        <4> HIDE DEF s
        <4> QED
          BY <2>1, <2>2, <2>7, <2>9, <2>10, <4>1, <4>2
      <3>2. 2 * (x - d) <= s /\ 2 * (d - x) <= s
        <4> HIDE DEF x, d, s
        <4> QED
          BY <1>2, <1>3, <2>2, <2>8, <2>9, <3>1
      <3> QED
        BY <1>3, <2>1, <2>2, <2>6, <3>2
    <2>11. CASE k < j
      <3>1. ~Fits(d, k)
        <4> SUFFICES ASSUME Fits(d, k) PROVE FALSE
          OBVIOUS
        <4>1. 2 * s <= Twos[j]
          BY <2>2, <2>9, <2>11, TwosGrow
        <4>2. Half <= Magnitude(q)
          <5> HIDE DEF x
          <5> QED
            BY <1>3, <2>2, <2>8 DEF Magnitude
        <4>3. Magnitude(d) = Magnitude(q) * Twos[j]
          <5>1. (-q) * Twos[j] = -(q * Twos[j]) /\ q * Twos[j] \in Int
                /\ 0 * Twos[j] = 0 /\ -q \in Int
            BY <2>9, Product
          <5>2. q >= 0 => 0 * Twos[j] <= q * Twos[j]
            BY <2>9, Product
          <5>3. q < 0 => 0 * Twos[j] <= (-q) * Twos[j]
            BY <2>9, <5>1, Product
          <5> DEFINE y == q * Twos[j]
          <5>4. /\ y \in Int /\ (-q) * Twos[j] = -y
                /\ q >= 0 => 0 <= y
                /\ q < 0 => 0 <= -y
            BY <5>1, <5>2, <5>3
          <5>5. q >= 0 => Magnitude(y) = y /\ Magnitude(q) = q
            <6> HIDE DEF y
            <6> QED
              BY <5>4 DEF Magnitude
          <5>6. q < 0 => Magnitude(y) = -y /\ Magnitude(q) = -q
            <6> HIDE DEF y
            <6> QED
              BY <5>4 DEF Magnitude
          <5>7. Magnitude(y) = Magnitude(q) * Twos[j]
            <6>1. CASE q >= 0
              BY <5>5, <6>1
            <6>2. CASE q < 0
              <7>1. Magnitude(q) * Twos[j] = (-q) * Twos[j]
                BY <5>6, <6>2
              <7> HIDE DEF y
              <7> QED
                BY <5>4, <5>6, <6>2, <7>1
            <6> QED
              BY <6>1, <6>2
          <5> HIDE DEF d
          <5> QED
            BY <2>8, <5>7
        <4>4. Half * Twos[j] <= Magnitude(d) /\ Half * Twos[j] \in Int
          <5>1. Magnitude(q) \in Int
            BY MagnitudeOf
          <5>2. Half * Twos[j] <= Magnitude(q) * Twos[j] /\ Half * Twos[j] \in Int
            BY <2>2, <2>9, <4>2, <5>1, Product
          <5> HIDE DEF d
          <5> QED
            BY <4>3, <5>2
        <4>5. Half * (2 * s) <= Half * Twos[j]
          <5>1. (2 * s) * Half <= Twos[j] * Half
            <6>1. 2 * s \in Int
              BY <2>2
            <6> HIDE DEF s
            <6> QED
              BY <2>2, <2>9, <4>1, <6>1, Product
          <5>2. (2 * s) * Half = Half * (2 * s) /\ Twos[j] * Half = Half * Twos[j]
            <6>1. 2 * s \in Nat
              BY <2>2
            <6> HIDE DEF s
            <6> QED
              BY <2>2, <2>9, <6>1, Product
          <5> QED
            BY <5>1, <5>2
        <4>6. Half * (2 * s) = 2 * (s * Half) /\ s * Half \in Int
          <5> HIDE DEF s
          <5>1. Half * (2 * s) = 2 * (Half * s) /\ Half * s = s * Half
            BY <2>2, Product
          <5> QED
            BY <2>2, <5>1, Product
        <4>7. Magnitude(d) < 2 * (s * Half)
          BY DEF Fits
        <4> DEFINE u == s * Half
                   v == Half * Twos[j]
        <4>8. u \in Int /\ v \in Int /\ 2 * u <= v /\ v <= Magnitude(d)
              /\ Magnitude(d) < 2 * u
          BY <4>4, <4>5, <4>6, <4>7
        <4>9. Magnitude(d) \in Int
          <5> HIDE DEF d
          <5> QED
            BY <1>2, MagnitudeOf
        <4> HIDE DEF u, v, d
        <4> QED
          BY <4>8, <4>9
      <3> DEFINE e == s * (MaxSafe + 1)
      <3>2. d = e \/ d = -e
        <4>1. /\ (2 * Half) * Twos[k] = Half * Twos[k + 1]
              /\ (-(2 * Half)) * Twos[k] = (-Half) * Twos[k + 1]
          BY <2>1, NextSize
        <4>2. MaxSafe + 1 = 2 * Half /\ 2 * Half \in Int
          BY HalfOf
        <4>3. (2 * Half) * s = s * (2 * Half)
              /\ (-(2 * Half)) * s = -((2 * Half) * s)
          <5> HIDE DEF s
          <5> QED
            BY <2>2, <4>2, Product
        <4>4. Half * Twos[k + 1] = e /\ (-Half) * Twos[k + 1] = -e
          BY <4>1, <4>2, <4>3
        <4> HIDE DEF e, d
        <4> QED
          BY <2>4, <3>1, <4>4
      <3>3. e \in Nat
        <4>1. MaxSafe + 1 \in Nat
          BY <2>2
        <4>2. 0 * (MaxSafe + 1) <= s * (MaxSafe + 1) /\ s * (MaxSafe + 1) \in Int
              /\ 0 * (MaxSafe + 1) = 0
          <5> HIDE DEF s
          <5> QED
            BY <2>2, <4>1, Product
        <4> QED
          BY <4>2
      <3>4. e <= 4 * MaxInt + 4
        <4>1. s <= 2 * Magnitude(o) /\ Magnitude(o) \in Int /\ MaxInt \in Int
          <5>1. s * Half <= Magnitude(o) /\ Half >= 1
            BY <2>1, HalfOf DEF Fits
          <5>2. 1 * s <= Half * s /\ Half * s = s * Half /\ s * Half \in Int
            <6> HIDE DEF s
            <6> QED
              BY <2>2, <5>1, Product
          <5>3. Magnitude(o) \in Int /\ 1 * s = s
            BY <1>1, <2>2, MagnitudeOf
          <5> DEFINE y == s * Half
          <5>4. s <= y /\ y <= Magnitude(o) /\ y \in Int
            BY <5>1, <5>2, <5>3
          <5> HIDE DEF y, s
          <5> QED
            BY <2>2, <5>3, <5>4, Int64Assumption
        <4>2. e <= Magnitude(o) + Magnitude(o)
          <5>1. Magnitude(d) = e
            <6> HIDE DEF d, e
            <6> QED
              BY <3>2, <3>3 DEF Magnitude
          <5>2. 2 * Magnitude(d) <= 2 * Magnitude(o) + s
            <6> HIDE DEF d, s
            <6> QED
              BY <1>1, <1>2, <2>2, <2>3 DEF Magnitude
          <5> HIDE DEF d, e, s
          <5> QED
            BY <2>2, <3>3, <4>1, <5>1, <5>2
        <4> HIDE DEF e
        <4> QED
          BY <3>3, <4>1, <4>2
      <3>5. 2 * Magnitude(Text(e) - e) <= s /\ 2 * Magnitude(Text(-e) + e) <= s
        BY <2>1, <3>4, NumbersAssumption
      <3>6. 2 * Magnitude(x - d) <= s
        <4>1. CASE d = e
          <5> HIDE DEF d, e, s
          <5> QED
            BY <3>5, <4>1
        <4>2. CASE d = -e
          <5>1. Text(-e) + e = x - d
            <6>1. x = Text(-e) /\ x \in Int
              <7> HIDE DEF d, e
              <7> QED
                BY <1>3, <4>2
            <6> HIDE DEF x, d, e
            <6> QED
              BY <3>3, <4>2, <6>1
          <5> QED
            BY <3>5, <5>1
        <4> QED
          BY <3>2, <4>1, <4>2
      <3>7. 2 * (x - d) <= s /\ 2 * (d - x) <= s
        <4> HIDE DEF x, d, s
        <4> QED
          BY <1>2, <1>3, <2>2, <3>6 DEF Magnitude
      <3> QED
        BY <1>3, <2>1, <2>2, <2>6, <3>7
    <2> QED
      BY <2>1, <2>7, <2>10, <2>11
  <1> QED
    BY <1>1, <1>4, <1>5, MagnitudeOf, Int64Assumption

---------------------------------------------------------------------
(* Reading. *)

\* Every integer of a sample is covered.
LEMMA RangeCovered ==
  ASSUME NEW t \in Types, NEW n \in Integers64(t)
  PROVE  n \in Int /\ Covered(n) /\ Magnitude(n) <= 2 * MaxInt + 1
  <1>1. n \in Int /\ Least(t) <= n /\ n <= Most(t) /\ MaxInt \in Nat
    BY Int64Assumption DEF Types, Integers64, Least, Most
  <1>2. Magnitude(n) <= 2 * MaxInt + 1
    BY <1>1 DEF Types, Least, Most, Magnitude
  <1>3. 2 * MaxInt + 2 <= Cover /\ Cover \in Nat
    BY CoverOf
  <1>4. Magnitude(n) \in Int
    BY <1>1, MagnitudeOf
  <1> QED
    BY <1>1, <1>2, <1>3, <1>4 DEF Covered

\* So is what a program passes.
LEMMA GivenCovered ==
  ASSUME NEW n \in (-MaxGiven)..MaxGiven
  PROVE  n \in Int /\ Covered(n)
  <1>1. n \in Int /\ -MaxGiven <= n /\ n <= MaxGiven /\ MaxGiven \in Nat
    BY Int64Assumption
  <1>2. MaxGiven <= Cover /\ Cover \in Nat
    BY CoverOf
  <1> QED
    BY <1>1, <1>2 DEF Covered, Magnitude

\* What is read is an integer of the type.
LEMMA WrappedInRange ==
  ASSUME NEW t \in Types, NEW n \in Int
  PROVE  Wrapped(t, n) \in Integers64(t)
  <1> DEFINE w == 2 * MaxInt + 2
             r == (n - Least(t)) % w
  <1>1. w \in Nat /\ w > 0 /\ MaxInt \in Nat /\ Least(t) \in Int /\ Most(t) \in Int
    BY Ranges, Int64Assumption
  <1>2. r \in 0..(w - 1)
    <2>1. n - Least(t) \in Int
      BY <1>1
    <2> HIDE DEF w
    <2> QED
      BY <1>1, <2>1, Quotient
  <1>3. Least(t) + (w - 1) = Most(t)
    BY <1>1 DEF Types, Least, Most
  <1>4. r + Least(t) \in Integers64(t)
    <2> HIDE DEF r, w
    <2> QED
      BY <1>1, <1>2, <1>3 DEF Integers64
  <1> QED
    BY <1>4 DEF Wrapped

\* So is what is scanned.
LEMMA ScannedInRange ==
  ASSUME NEW t \in Types, NEW n \in Int
  PROVE  Scanned(t, n) \in Integers64(t)
  <1>1. Least(t) \in Integers64(t) /\ Most(t) \in Integers64(t)
    BY Int64Assumption DEF Types, Least, Most, Integers64
  <1> QED
    BY <1>1, WrappedInRange DEF Scanned

\* An integer beyond the range is scanned as the end of it.
LEMMA ScannedBetween ==
  ASSUME NEW t \in Types, NEW o \in Integers64(t), NEW x \in Int,
         t = "uint64" => x >= 0
  PROVE  /\ Scanned(t, x) \in Int
         /\ \/ x <= Scanned(t, x) /\ Scanned(t, x) <= o
            \/ o <= Scanned(t, x) /\ Scanned(t, x) <= x
  <1>1. o \in Int /\ Least(t) <= o /\ o <= Most(t)
        /\ Least(t) \in Int /\ Most(t) \in Int /\ MaxInt \in Nat
    BY Ranges, Int64Assumption DEF Integers64
  <1>2. Scanned(t, x) = IF x < Least(t) /\ t = "int64" THEN Least(t)
                        ELSE IF x \in Integers64(t) THEN x ELSE Most(t)
    BY DEF Scanned
  <1>3. CASE x < Least(t)
    <2>1. t = "int64"
      BY <1>3 DEF Types, Least
    <2> QED
      BY <1>1, <1>2, <1>3, <2>1
  <1>4. CASE x \in Integers64(t)
    BY <1>1, <1>2, <1>4 DEF Integers64
  <1>5. CASE x > Most(t)
    <2>1. ~(x < Least(t)) /\ x \notin Integers64(t)
      BY <1>1, <1>5 DEF Integers64
    <2> QED
      BY <1>1, <1>2, <1>5, <2>1
  <1> QED
    BY <1>1, <1>3, <1>4, <1>5 DEF Integers64

\* An integer of a sample that went through a Number and back.
Through(t, o) == Scanned(t, Text(Double(o)))

\* It is still rounded to the same double, and near what it was.
LEMMA ThroughOf ==
  ASSUME NEW t \in Types, NEW o \in Integers64(t)
  PROVE  /\ Through(t, o) \in Integers64(t)
         /\ Double(Through(t, o)) = Double(o)
         /\ Spacing(o) \in Nat
         /\ Magnitude(Through(t, o) - o) <= Spacing(o)
  <1> DEFINE x == Text(Double(o))
             y == Through(t, o)
  <1>1. /\ o \in Int /\ Covered(o) /\ Magnitude(o) <= 2 * MaxInt + 1
        /\ Sized(o) /\ Double(o) \in Int
    BY RangeCovered, CoveredFits, DoubleSide
  <1>2. x \in Int /\ Sized(x) /\ Double(x) = Double(o)
    BY <1>1, DoubleStays, TextOf
  <1>3. t = "uint64" => x >= 0
    <2> SUFFICES ASSUME t = "uint64", x < 0 PROVE FALSE
      BY <1>2
    <2>1. o >= 0
      BY <1>1 DEF Integers64, Least, Most
    <2>2. PICK m \in Int : m + 1 = 0
      OBVIOUS
    <2>3. Magnitude(m) = 1 /\ Magnitude(0) = 0
      BY <2>2 DEF Magnitude
    <2>4. MaxSafe >= 1 /\ MaxSafe \in Nat
      BY HalfOf, Int64Assumption
    <2>5. Double(m) = m /\ Double(0) = 0
      BY <2>3, <2>4, SmallDouble
    <2>6. Sized(m) /\ Sized(0)
      <3>1. Covered(m) /\ Covered(0)
        BY <2>3, CoverFits DEF Covered
      <3> QED
        BY <3>1, CoveredFits
    <2>7. x <= m
      <3> HIDE DEF x
      <3> QED
        BY <1>2, <2>2
    <2>8. Double(x) <= Double(m)
      <3> HIDE DEF x
      <3> QED
        BY <1>2, <2>2, <2>6, <2>7, DoubleGrows
    <2>9. Double(0) <= Double(o)
      BY <1>1, <2>1, <2>6, DoubleGrows
    <2> HIDE DEF x
    <2> QED
      BY <1>1, <1>2, <2>2, <2>5, <2>8, <2>9
  <1>4. y = Scanned(t, x)
    BY DEF Through
  <1>5. y \in Integers64(t)
    <2> HIDE DEF x, y
    <2> QED
      BY <1>2, <1>4, ScannedInRange
  <1>6. y \in Int /\ ((x <= y /\ y <= o) \/ (o <= y /\ y <= x))
    <2> HIDE DEF x, y
    <2> QED
      BY <1>2, <1>3, <1>4, ScannedBetween
  <1>7. Sized(y) /\ Double(y) \in Int
    <2> HIDE DEF x, y
    <2> QED
      BY <1>5, RangeCovered, CoveredFits, DoubleSide
  <1>8. Double(y) = Double(o)
    <2>1. CASE x <= y /\ y <= o
      <3> HIDE DEF x, y
      <3>1. Double(x) <= Double(y) /\ Double(y) <= Double(o)
        BY <1>1, <1>2, <1>6, <1>7, <2>1, DoubleGrows
      <3> QED
        BY <1>1, <1>2, <1>7, <3>1
    <2>2. CASE o <= y /\ y <= x
      <3> HIDE DEF x, y
      <3>1. Double(o) <= Double(y) /\ Double(y) <= Double(x)
        BY <1>1, <1>2, <1>6, <1>7, <2>2, DoubleGrows
      <3> QED
        BY <1>1, <1>2, <1>7, <3>1
    <2> QED
      BY <1>6, <2>1, <2>2
  <1>9. Spacing(o) \in Nat /\ Magnitude(x - o) <= Spacing(o)
    BY <1>1, TextNear
  <1>10. Magnitude(y - o) <= Spacing(o)
    <2> HIDE DEF x, y
    <2> QED
      BY <1>1, <1>2, <1>6, <1>9 DEF Magnitude
  <1> QED
    BY <1>5, <1>8, <1>9, <1>10

\* How a sample is written and read back.
LEMMA ReadWritten ==
  ASSUME NEW t \in Types, NEW n \in Integers64(t), NEW b \in BOOLEAN
  PROVE  /\ n > MaxSafe => Read(t, Written(n, b)) = n
         /\ n <= MaxSafe => Read(t, Written(n, b)) = Through(t, n)
  <1>1. n \in Int /\ MaxSafe \in Nat
    BY Ranges, Int64Assumption
  <1>2. CASE n > MaxSafe
    <2>1. Written(n, b).n = n /\ Written(n, b).kind # "Number"
      BY <1>2 DEF Written, Unsafe
    <2> QED
      BY <1>1, <1>2, <2>1, InRangeIsRead DEF Read
  <1>3. CASE n <= MaxSafe
    <2>1. Written(n, b) = [kind |-> "Number", n |-> Double(n)]
      BY <1>1, <1>3 DEF Written, Unsafe
    <2> QED
      BY <1>1, <1>3, <2>1 DEF Read, Through
  <1> QED
    BY <1>1, <1>2, <1>3

\* The second time it stays what it became the first time.
LEMMA RoundTrip ==
  ASSUME NEW t \in Types, NEW n \in Integers64(t), NEW b \in BOOLEAN
  PROVE  /\ Read(t, Written(n, b)) \in Integers64(t)
         /\ Settled(t, Read(t, Written(n, b)))
  <1>1. n \in Int /\ MaxSafe \in Nat
    BY Ranges, Int64Assumption
  <1>2. CASE n > MaxSafe
    BY <1>1, <1>2, ReadWritten DEF Settled
  <1>3. CASE n <= MaxSafe
    <2> DEFINE r == Through(t, n)
    <2>1. r \in Integers64(t) /\ Double(r) = Double(n)
      BY ThroughOf
    <2>2. r \in Int
      <3> HIDE DEF r
      <3> QED
        BY <2>1, Ranges
    <2>3. r <= MaxSafe
      <3> HIDE DEF r
      <3> SUFFICES ASSUME r > MaxSafe PROVE FALSE
        BY <1>1, <2>2
      <3>1. Sized(r) /\ Sized(n) /\ Sized(MaxSafe) /\ Double(MaxSafe) = MaxSafe
        <4>1. Covered(r) /\ Covered(n)
          BY <2>1, RangeCovered
        <4>2. Magnitude(MaxSafe) = MaxSafe
          BY <1>1 DEF Magnitude
        <4>3. MaxSafe <= Cover
          BY <1>1, CoverOf, Int64Assumption
        <4>4. Covered(MaxSafe)
          BY <1>1, <4>2, <4>3 DEF Covered
        <4> QED
          BY <1>1, <4>1, <4>2, <4>4, CoveredFits, SmallDouble
      <3>2. Double(r) > MaxSafe /\ Double(r) \in Int
        BY <2>2, <3>1, DoubleSide
      <3>3. Double(n) <= MaxSafe
        BY <1>1, <1>3, <3>1, DoubleGrows
      <3> QED
        BY <1>1, <2>1, <3>2, <3>3
    <2>4. ASSUME NEW c \in BOOLEAN PROVE Read(t, Written(r, c)) = r
      <3>1. Read(t, Written(r, c)) = Through(t, r)
        <4> HIDE DEF r
        <4> QED
          BY <2>1, <2>3, ReadWritten
      <3>2. Through(t, r) = Through(t, n)
        BY <2>1 DEF Through
      <3> QED
        BY <3>1, <3>2
    <2>5. Read(t, Written(n, b)) = r
      BY <1>3, ReadWritten
    <2> HIDE DEF r
    <2> QED
      BY <2>1, <2>4, <2>5 DEF Settled
  <1> QED
    BY <1>1, <1>2, <1>3

---------------------------------------------------------------------
(* The relay. *)

\* A Number is a double, and no greater than what is converted.
Sound(v) ==
    /\ v.n \in Int
    /\ v.kind = "Number" => Covered(v.n) /\ Double(v.n) = v.n

TypeInv == TypeOK /\ Sound(js)

\* An integer of the range is on the way as itself, as its double or as what
\* that is read as, and what was once written and read stays the same.
DriftInv ==
    /\ at \in {"start", "javascript", "sample"}
    /\ at = "start" => relays = 0
    /\ origin.n \in Integers64(type) =>
         /\ at = "sample" => sample \in {origin.n, Through(type, origin.n)}
         /\ at = "javascript" =>
               IF js.kind = "Number" THEN js.n = Double(origin.n)
               ELSE js.n \in {origin.n, Through(type, origin.n)}
    /\ relays > 0 \/ origin.kind = "sample" =>
         /\ at = "sample" => Settled(type, sample)
         /\ at = "javascript" => Settled(type, Read(type, js))

\* Writing gives a sound value.
LEMMA WrittenIsSound ==
  ASSUME NEW t \in Types, NEW n \in Integers64(t), NEW b \in BOOLEAN
  PROVE  /\ Written(n, b) \in JavaScript /\ Sound(Written(n, b))
         /\ IF Written(n, b).kind = "Number"
            THEN n <= MaxSafe /\ Written(n, b).n = Double(n)
            ELSE Written(n, b).n = n
  <1>1. n \in Int /\ Covered(n) /\ MaxSafe \in Int
    BY RangeCovered, Int64Assumption
  <1>2. Covered(Double(n)) /\ Double(Double(n)) = Double(n) /\ Double(n) \in Int
    BY <1>1, DoubleStays, CoveredFits
  <1>3. CASE Unsafe(n)
    BY <1>1, <1>3 DEF Written, Sound, JavaScript
  <1>4. CASE ~Unsafe(n)
    <2>1. Written(n, b) = [kind |-> "Number", n |-> Double(n)] /\ n <= MaxSafe
      BY <1>1, <1>4 DEF Written, Unsafe
    <2> QED
      BY <1>2, <2>1 DEF Sound, JavaScript
  <1> QED
    BY <1>3, <1>4

\* Reading gives an integer of the type.
LEMMA ReadInRange ==
  ASSUME NEW t \in Types, NEW v, Sound(v)
  PROVE  Read(t, v) \in Integers64(t)
  <1>1. CASE v.kind = "Number"
    <2>1. Text(v.n) \in Int
      BY <1>1, TextOf DEF Sound
    <2> QED
      BY <1>1, <2>1, ScannedInRange DEF Read
  <1>2. CASE v.kind # "Number"
    BY <1>2, WrappedInRange DEF Read, AsBigInt, Sound
  <1> QED
    BY <1>1, <1>2

\* A sample arrives: it is written, and what it is read as is settled.
LEMMA ReceiveTyped ==
  ASSUME TypeInv, DriftInv, Receive
  PROVE  (TypeInv /\ DriftInv)'
  <1>1. PICK n \in Integers64(type), b \in BOOLEAN :
            /\ sample' = n /\ js' = Written(n, b)
            /\ origin' = [kind |-> "sample", n |-> n]
    BY DEF Receive
  <1>2. /\ at = "start" /\ at' = "javascript" /\ type' = type /\ relays' = relays
        /\ type \in Types /\ relays \in 0..MaxRelays
    BY DEF Receive, TypeInv, TypeOK
  <1>3. n \in Int
    BY <1>2, Ranges
  <1>4. js' \in JavaScript /\ Sound(js)'
    BY <1>1, <1>2, WrittenIsSound DEF Sound
  <1>5. TypeInv'
    BY <1>1, <1>2, <1>3, <1>4 DEF TypeInv, TypeOK
  <1>6. IF js'.kind = "Number" THEN js'.n = Double(n) ELSE js'.n = n
    BY <1>1, <1>2, WrittenIsSound
  <1>7. Settled(type, Read(type, js'))
    BY <1>1, <1>2, RoundTrip
  <1>8. DriftInv'
    <2>1. origin'.n = n /\ at' # "sample" /\ at' # "start"
      BY <1>1, <1>2
    <2>2. IF js'.kind = "Number" THEN js'.n = Double(origin'.n)
          ELSE js'.n \in {origin'.n, Through(type', origin'.n)}
      BY <1>6, <2>1
    <2>3. Settled(type', Read(type', js'))
      BY <1>2, <1>7
    <2> QED
      BY <1>2, <2>1, <2>2, <2>3 DEF DriftInv
  <1> QED
    BY <1>5, <1>8

\* A program passes a value, which no sample has been yet.
LEMMA GiveTyped ==
  ASSUME TypeInv, DriftInv, Give
  PROVE  (TypeInv /\ DriftInv)'
  <1>1. PICK n \in (-MaxGiven)..MaxGiven :
            \E k \in {"Number", "BigInt", "String"} :
               js' = [kind |-> k, n |-> IF k = "Number" THEN Double(n) ELSE n]
    BY DEF Give
  <1>2. PICK k \in {"Number", "BigInt", "String"} :
               js' = [kind |-> k, n |-> IF k = "Number" THEN Double(n) ELSE n]
    BY <1>1
  <1>3. /\ at = "start" /\ at' = "javascript" /\ origin' = js'
        /\ type' = type /\ sample' = sample /\ relays' = relays
        /\ type \in Types /\ relays \in 0..MaxRelays
        /\ sample \in Integers64(type)
    BY DEF Give, TypeInv, TypeOK
  <1>4. n \in Int /\ Covered(n)
    BY GivenCovered
  <1>5. Covered(Double(n)) /\ Double(Double(n)) = Double(n) /\ Double(n) \in Int
    BY <1>4, DoubleStays, CoveredFits
  <1>6. js'.kind = k /\ js'.n = (IF k = "Number" THEN Double(n) ELSE n)
        /\ js' \in JavaScript
    BY <1>2, <1>4, <1>5 DEF JavaScript
  <1>7. Sound(js')
    BY <1>4, <1>5, <1>6 DEF Sound
  <1>8. js' \in [kind : {"sample", "Number", "BigInt", "String"}, n : Int]
    BY <1>2, <1>4, <1>5
  <1>9. TypeInv'
    BY <1>3, <1>6, <1>7, <1>8 DEF TypeInv, TypeOK, Sound
  <1>10. k = "Number" => js'.n = Double(js'.n)
    BY <1>5, <1>6
  <1>11. DriftInv'
    <2>1. relays' = 0 /\ js'.kind # "sample"
      BY <1>3, <1>6 DEF DriftInv
    <2> QED
      BY <1>3, <1>6, <1>10, <2>1 DEF DriftInv
  <1> QED
    BY <1>9, <1>11

\* A value is read: its double is what Through is read from.
LEMMA SendTyped ==
  ASSUME TypeInv, DriftInv, Send
  PROVE  (TypeInv /\ DriftInv)'
  <1>1. /\ at = "javascript" /\ at' = "sample" /\ sample' = Read(type, js)
        /\ type' = type /\ js' = js /\ origin' = origin /\ relays' = relays
        /\ type \in Types
    BY DEF Send, TypeInv, TypeOK
  <1>2. sample' \in Integers64(type)
    BY <1>1, ReadInRange DEF TypeInv
  <1>3. TypeInv'
    BY <1>1, <1>2 DEF TypeInv, TypeOK, Sound
  <1>4. ASSUME origin.n \in Integers64(type)
        PROVE  sample' \in {origin.n, Through(type, origin.n)}
    <2>1. CASE js.kind = "Number"
      <3>1. js.n = Double(origin.n)
        BY <1>1, <1>4, <2>1 DEF DriftInv
      <3> QED
        BY <1>1, <2>1, <3>1 DEF Read, Through
    <2>2. CASE js.kind # "Number"
      <3>1. js.n \in {origin.n, Through(type, origin.n)}
        BY <1>1, <1>4, <2>2 DEF DriftInv
      <3>2. js.n \in Integers64(type)
        BY <1>1, <1>4, <3>1, ThroughOf
      <3>3. sample' = js.n
        BY <1>1, <2>2, <3>2, InRangeIsRead DEF Read
      <3> QED
        BY <3>1, <3>3
    <2> QED
      BY <2>1, <2>2
  <1>5. relays > 0 \/ origin.kind = "sample" => Settled(type, sample')
    BY <1>1 DEF DriftInv
  <1>6. DriftInv'
    BY <1>1, <1>4, <1>5 DEF DriftInv
  <1> QED
    BY <1>3, <1>6

\* A sample comes back: both integers it may be have the same double.
LEMMA RelayTyped ==
  ASSUME TypeInv, DriftInv, Relay
  PROVE  (TypeInv /\ DriftInv)'
  <1>1. /\ at = "sample" /\ at' = "javascript"
        /\ relays < MaxRelays /\ relays' = relays + 1
        /\ type' = type /\ sample' = sample /\ origin' = origin
        /\ type \in Types /\ sample \in Integers64(type)
        /\ relays \in 0..MaxRelays
        /\ origin \in [kind : {"sample", "Number", "BigInt", "String"}, n : Int]
    BY DEF Relay, TypeInv, TypeOK
  <1>2. PICK b \in BOOLEAN : js' = Written(sample, b)
    BY DEF Relay
  <1>3. js' \in JavaScript /\ Sound(js')
    BY <1>1, <1>2, WrittenIsSound
  <1>4. relays' \in 0..MaxRelays
    BY <1>1, Int64Assumption
  <1>5. TypeInv'
    BY <1>1, <1>3, <1>4 DEF TypeInv, TypeOK, Sound
  <1>6. Settled(type, Read(type, js'))
    BY <1>1, <1>2, RoundTrip
  <1>7. ASSUME origin.n \in Integers64(type)
        PROVE  IF js'.kind = "Number" THEN js'.n = Double(origin.n)
               ELSE js'.n \in {origin.n, Through(type, origin.n)}
    <2>1. sample \in {origin.n, Through(type, origin.n)}
      BY <1>1, <1>7 DEF DriftInv
    <2>2. Double(sample) = Double(origin.n)
      BY <1>1, <1>7, <2>1, ThroughOf
    <2>3. IF js'.kind = "Number" THEN js'.n = Double(sample) ELSE js'.n = sample
      BY <1>1, <1>2, WrittenIsSound
    <2> QED
      BY <2>1, <2>2, <2>3
  <1>8. DriftInv'
    BY <1>1, <1>6, <1>7 DEF DriftInv
  <1> QED
    BY <1>5, <1>8

\* At the start there is only 0.
LEMMA InitTyped == Init => TypeInv /\ DriftInv
  <1> SUFFICES ASSUME Init PROVE TypeInv /\ DriftInv
    OBVIOUS
  <1>1. /\ type \in Types /\ at = "start" /\ sample = 0 /\ relays = 0
        /\ js = [kind |-> "Number", n |-> 0]
        /\ origin = [kind |-> "sample", n |-> 0]
    BY DEF Init
  <1>2. 0 \in Integers64(type) /\ 0 \in 0..MaxRelays
    BY <1>1, Int64Assumption DEF Types, Integers64, Least, Most
  <1>3. Magnitude(0) = 0
    BY DEF Magnitude
  <1>4. Covered(0) /\ Double(0) = 0
    BY <1>3, CoverFits, SmallDouble, Int64Assumption DEF Covered
  <1>5. TypeInv
    BY <1>1, <1>2, <1>4 DEF TypeInv, TypeOK, Sound, JavaScript
  <1>6. DriftInv
    BY <1>1 DEF DriftInv
  <1> QED
    BY <1>5, <1>6

\* Together they are inductive.
LEMMA RelayInvariance == Spec => [](TypeInv /\ DriftInv)
  <1>1. TypeInv /\ DriftInv /\ [Next]_vars => (TypeInv /\ DriftInv)'
    <2> SUFFICES ASSUME TypeInv, DriftInv, [Next]_vars
                 PROVE  (TypeInv /\ DriftInv)'
      OBVIOUS
    <2>1. CASE UNCHANGED vars
      BY <2>1 DEF vars, TypeInv, DriftInv, TypeOK, Sound
    <2> QED
      BY <2>1, ReceiveTyped, GiveTyped, SendTyped, RelayTyped DEF Next
  <1> QED
    BY <1>1, InitTyped, PTL DEF Spec

\* What reaches a sample is an integer of its type, however it was written:
\* read_int64 and read_uint64 leave nothing out of range.
THEOREM TypesOfIntegers == Spec => []TypeOK
  <1>1. TypeInv => TypeOK
    BY DEF TypeInv
  <1> QED
    BY <1>1, RelayInvariance, PTL

\* Where an integer is too large for a Number, writing and reading it takes it
\* to a neighbouring double at most, and doing so again changes nothing.
THEOREM RelayingDoesNotDrift == Spec => []NoDrift
  <1>1. TypeInv /\ DriftInv => NoDrift
    <2> SUFFICES ASSUME TypeInv, DriftInv, at = "sample" PROVE NoDrift
      BY DEF NoDrift
    <2>1. ASSUME origin.n \in Integers64(type)
          PROVE  Magnitude(sample - origin.n) <= Spacing(origin.n)
      <3>1. type \in Types
        BY DEF TypeInv, TypeOK
      <3>2. sample \in {origin.n, Through(type, origin.n)}
        BY <2>1 DEF DriftInv
      <3>3. /\ origin.n \in Int /\ Spacing(origin.n) \in Nat
            /\ Magnitude(Through(type, origin.n) - origin.n) <= Spacing(origin.n)
        BY <2>1, <3>1, ThroughOf, RangeCovered
      <3>4. Magnitude(origin.n - origin.n) = 0
        BY <3>3 DEF Magnitude
      <3> QED
        BY <3>2, <3>3, <3>4
    <2>2. relays > 0 \/ origin.kind = "sample" => Settled(type, sample)
      BY DEF DriftInv
    <2> QED
      BY <2>1, <2>2 DEF NoDrift
  <1> QED
    BY <1>1, RelayInvariance, PTL
=============================================================================
