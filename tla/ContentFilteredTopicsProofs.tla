-------------------- MODULE ContentFilteredTopicsProofs --------------------
(***************************************************************************)
(* For any number of digits: increment() keeps names to one digit that is  *)
(* not zero, and a name comes back after exactly 9 * Digits uses and no    *)
(* earlier. Names are ordered by Rank, which increment() advances by one   *)
(* modulo Period.                                                          *)
(***************************************************************************)
EXTENDS ContentFilteredTopics, TLAPS

Rank(i, d) == 9 * (Digits - i) + d - 1

Nonzero == 1..9

\* Where a topic of rank r and the next name of rank n stand when age names
\* were handed out between them.
Apart(r, age, n) == n = r + age \/ n + Period = r + age

Ages ==
    \E k \in Positions, e \in Nonzero :
        /\ cft_name = SingleDigit(k, e)
        /\ \A topic \in live :
               \E i \in Positions, d \in Nonzero :
                   /\ topic.name = SingleDigit(i, d)
                   /\ topic.age \in 1..Period
                   /\ topic.age < Period =>
                          Apart(Rank(i, d), topic.age, Rank(k, e))

\* Two positions or digits give two names.
LEMMA SingleDigitInjective ==
  ASSUME NEW i \in Positions, NEW d \in Nonzero,
         NEW k \in Positions, NEW e \in Nonzero,
         SingleDigit(i, d) = SingleDigit(k, e)
  PROVE  i = k /\ d = e
  <1>1. SingleDigit(i, d)[i] = d
    BY DEF SingleDigit
  <1>2. SingleDigit(k, e)[i] = IF i = k THEN e ELSE 0
    BY DEF SingleDigit
  <1>3. QED
    BY <1>1, <1>2 DEF Nonzero

\* increment() finds the digit that is not zero.
LEMMA FindsTheDigit ==
  ASSUME NEW i \in Positions, NEW d \in Nonzero
  PROVE  FirstNonZero(SingleDigit(i, d)) = i
  <1>1. IsFirstNonZero(SingleDigit(i, d), i)
    <2>1. \A j \in 1..(i - 1) : j \in Positions /\ j # i
      BY DigitsAssumption DEF Positions
    <2>2. d # 0
      BY DEF Nonzero
    <2>3. QED
      BY <2>1, <2>2 DEF IsFirstNonZero, SingleDigit
  <1>2. ASSUME NEW j \in Positions, IsFirstNonZero(SingleDigit(i, d), j)
        PROVE  j = i
    BY <1>2 DEF IsFirstNonZero, SingleDigit
  <1>3. QED
    BY <1>1, <1>2 DEF FirstNonZero

\* What increment() makes of a name.
LEMMA IncrementIs ==
  ASSUME NEW i \in Positions, NEW d \in Nonzero
  PROVE  increment(SingleDigit(i, d)) =
           IF d # 9 THEN SingleDigit(i, d + 1)
           ELSE IF i = 1 THEN SingleDigit(Digits, 1)
           ELSE SingleDigit(i - 1, 1)
  <1>1. FirstNonZero(SingleDigit(i, d)) = i /\ SingleDigit(i, d)[i] = d
    BY FindsTheDigit DEF SingleDigit
  <1>2. [SingleDigit(i, d) EXCEPT ![i] = d + 1] = SingleDigit(i, d + 1)
    BY DEF SingleDigit
  <1>3. ASSUME i # 1 PROVE Carry(SingleDigit(i, d), i) = SingleDigit(i - 1, 1)
    <2>1. i - 1 \in Positions /\ i - 1 # i
      BY <1>3, DigitsAssumption DEF Positions
    <2>2. QED
      BY <2>1 DEF SingleDigit, Carry
  <1>4. QED
    BY <1>1, <1>2, <1>3 DEF increment, InitialName

\* increment() advances the rank of a name by one, modulo Period.
LEMMA IncrementAdvances ==
  ASSUME NEW i \in Positions, NEW d \in Nonzero
  PROVE  \E k \in Positions, e \in Nonzero :
             /\ increment(SingleDigit(i, d)) = SingleDigit(k, e)
             /\ Rank(i, d) \in 0..(Period - 1)
             /\ \/ Rank(k, e) = Rank(i, d) + 1
                \/ Rank(i, d) = Period - 1 /\ Rank(k, e) = 0
  <1>1. Rank(i, d) \in 0..(Period - 1)
    BY DigitsAssumption DEF Rank, Period, Positions, Nonzero
  <1>2. CASE d # 9
    <2>1. d + 1 \in Nonzero /\ Rank(i, d + 1) = Rank(i, d) + 1
      BY <1>2, DigitsAssumption DEF Nonzero, Rank, Positions
    <2>2. QED
      BY <1>1, <1>2, <2>1, IncrementIs
  <1>3. CASE d = 9 /\ i = 1
    <2>1. /\ Digits \in Positions /\ 1 \in Nonzero
          /\ Rank(i, d) = Period - 1 /\ Rank(Digits, 1) = 0
      BY <1>3, DigitsAssumption DEF Nonzero, Rank, Positions, Period
    <2>2. QED
      BY <1>1, <1>3, <2>1, IncrementIs
  <1>4. CASE d = 9 /\ i # 1
    <2>1. /\ i - 1 \in Positions /\ 1 \in Nonzero
          /\ Rank(i - 1, 1) = Rank(i, d) + 1
      BY <1>4, DigitsAssumption DEF Nonzero, Rank, Positions
    <2>2. QED
      BY <1>1, <1>4, <2>1, IncrementIs
  <1>5. QED
    BY <1>2, <1>3, <1>4

-----------------------------------------------------------------------------

\* One more name handed out sets ranks one further apart.
LEMMA ApartAdvances ==
  ASSUME NEW r \in 0..(Period - 1), NEW age \in 0..(Period - 1),
         NEW n \in 0..(Period - 1), NEW m \in 0..(Period - 1),
         Apart(r, age, n),
         m = n + 1 \/ (n = Period - 1 /\ m = 0)
  PROVE  Apart(r, age + 1, m)
  BY DigitsAssumption DEF Apart, Period

\* A name is at distance 0 from itself.
LEMMA ApartSelf ==
  ASSUME NEW r \in 0..(Period - 1), NEW age \in 1..Period, Apart(r, age, r)
  PROVE  age = Period
  BY DigitsAssumption DEF Apart, Period

\* A single digit makes a name.
LEMMA SingleDigitIsName ==
  ASSUME NEW i \in Positions, NEW d \in Nonzero
  PROVE  SingleDigit(i, d) \in Names
  BY DEF SingleDigit, Names, Nonzero

LEMMA InitAges == Init => TypeOK /\ Ages
  <1>1. Digits \in Positions /\ 1 \in Nonzero
    BY DigitsAssumption DEF Positions, Nonzero
  <1>2. QED
    BY <1>1, SingleDigitIsName DEF Init, TypeOK, Ages, InitialName

\* A filtered subscribe() keeps topics and names the right distance apart.
LEMMA CreateAges ==
  ASSUME TypeOK, Ages, Create
  PROVE  TypeOK' /\ Ages'
  <1>1. PICK k \in Positions, e \in Nonzero :
          /\ cft_name = SingleDigit(k, e)
          /\ \A topic \in live :
                 \E i \in Positions, d \in Nonzero :
                     /\ topic.name = SingleDigit(i, d)
                     /\ topic.age \in 1..Period
                     /\ topic.age < Period =>
                            Apart(Rank(i, d), topic.age, Rank(k, e))
    BY DEF Ages
  <1>2. PICK l \in Positions, f \in Nonzero :
          /\ cft_name' = SingleDigit(l, f)
          /\ Rank(k, e) \in 0..(Period - 1)
          /\ \/ Rank(l, f) = Rank(k, e) + 1
             \/ Rank(k, e) = Period - 1 /\ Rank(l, f) = 0
    BY <1>1, IncrementAdvances DEF Create
  <1>3. \A i \in Positions, d \in Nonzero : Rank(i, d) \in 0..(Period - 1)
    BY IncrementAdvances
  <1>4. ASSUME NEW old, NEW i \in Positions, NEW d \in Nonzero,
               old.name = SingleDigit(i, d),
               old.age \in 0..Period,
               old.age < Period => Apart(Rank(i, d), old.age, Rank(k, e)),
               NEW topic, topic.name = old.name,
               topic.age = IF old.age < Period THEN old.age + 1 ELSE old.age
        PROVE  /\ topic.name = SingleDigit(i, d)
               /\ topic.age \in 1..Period
               /\ topic.age < Period =>
                      Apart(Rank(i, d), topic.age, Rank(l, f))
    <2>1. Period \in Nat \ {0}
      BY DigitsAssumption DEF Period
    <2>2. CASE old.age < Period
      <3>1. topic.age = old.age + 1 /\ old.age \in 0..(Period - 1)
        BY <1>4, <2>1, <2>2
      <3>2. Apart(Rank(i, d), old.age + 1, Rank(l, f))
        BY <1>2, <1>3, <1>4, <2>2, <3>1, ApartAdvances
      <3>3. QED
        BY <1>4, <2>1, <3>1, <3>2
    <2>3. CASE ~(old.age < Period)
      BY <1>4, <2>1, <2>3
    <2>4. QED
      BY <2>2, <2>3
  <1>5. Apart(Rank(k, e), 0, Rank(k, e))
    BY <1>3, DigitsAssumption DEF Apart, Period
  <1>6. live \cup {[name |-> cft_name, age |-> 0]}
            \subseteq [name : Names, age : 0..Period]
    <2>1. 0 \in 0..Period
      BY DigitsAssumption DEF Period
    <2>2. QED
      BY <2>1 DEF TypeOK
  <1>7. TypeOK'
    <2>1. ASSUME NEW old \in [name : Names, age : 0..Period]
          PROVE  Older(old) \in [name : Names, age : 0..Period]
      <3>1. old.age < Period => old.age + 1 \in 0..Period
        BY DigitsAssumption DEF Period
      <3>2. QED
        BY <3>1 DEF Older
    <2>2. live' \subseteq [name : Names, age : 0..Period]
      BY <1>6, <2>1 DEF Create
    <2>3. cft_name' \in Names
      BY <1>2, SingleDigitIsName
    <2>4. QED
      BY <2>2, <2>3 DEF TypeOK
  <1>8. ASSUME NEW topic \in live'
        PROVE  \E i \in Positions, d \in Nonzero :
                   /\ topic.name = SingleDigit(i, d)
                   /\ topic.age \in 1..Period
                   /\ topic.age < Period =>
                          Apart(Rank(i, d), topic.age, Rank(l, f))
    <2>1. PICK old \in live \cup {[name |-> cft_name, age |-> 0]} :
            topic = Older(old)
      BY <1>8 DEF Create
    <2>2. PICK i \in Positions, d \in Nonzero :
            /\ old.name = SingleDigit(i, d)
            /\ old.age \in 0..Period
            /\ old.age < Period => Apart(Rank(i, d), old.age, Rank(k, e))
      <3>1. CASE old \in live
        <4>1. \A age \in 1..Period : age \in 0..Period
          BY DigitsAssumption DEF Period
        <4>2. QED
          BY <1>1, <3>1, <4>1
      <3>2. CASE old = [name |-> cft_name, age |-> 0]
        <4>1. 0 \in 0..Period
          BY DigitsAssumption DEF Period
        <4>2. QED
          BY <1>1, <1>5, <3>2, <4>1
      <3>3. QED
        BY <2>1, <3>1, <3>2
    <2>3. /\ topic.name = old.name
          /\ topic.age = IF old.age < Period THEN old.age + 1 ELSE old.age
      <3>1. old \in [name : Names, age : 0..Period]
        BY <1>6, <2>1
      <3>2. QED
        BY <2>1, <3>1 DEF Older
    <2>4. QED
      BY <1>4, <2>2, <2>3
  <1>9. QED
    BY <1>2, <1>8, <1>7 DEF Ages

\* Names and topics keep their types and their distance throughout every
\* execution.
THEOREM AgesInvariant == Spec => [](TypeOK /\ Ages)
  <1>1. ASSUME TypeOK, Ages, [Next]_vars PROVE TypeOK' /\ Ages'
    <2>1. CASE Create
      BY <1>1, <2>1, CreateAges
    <2>2. ASSUME NEW topic \in live, Delete(topic) PROVE TypeOK' /\ Ages'
      BY <1>1, <2>2 DEF TypeOK, Ages, Delete
    <2>3. CASE UNCHANGED vars
      BY <1>1, <2>3 DEF TypeOK, Ages, vars
    <2>4. QED
      BY <1>1, <2>1, <2>2, <2>3 DEF Next
  <1>2. QED
    BY <1>1, InitAges, PTL DEF Spec

\* The next name and the topics always have their types.
THEOREM TypeCorrect == Spec => []TypeOK
  BY AgesInvariant, PTL

\* However many digits a name has, one of them is not zero: increment() only
\* ever makes 9 * Digits of the 10^Digits names.
THEOREM NamesHaveOneDigit == Spec => []OneDigit
  <1>1. Ages => OneDigit
    BY DEF Ages, OneDigit, Nonzero
  <1>2. QED
    BY <1>1, AgesInvariant, PTL

\* A name handed out meets the topic it was given to before only after all
\* 9 * Digits names were handed out in between.
THEOREM NamesReturnLate == Spec => []NoEarlyReuse
  <1>1. ASSUME Ages, NEW topic \in live, topic.name = cft_name
        PROVE  topic.age >= Period
    <2>1. PICK k \in Positions, e \in Nonzero :
            /\ cft_name = SingleDigit(k, e)
            /\ \E i \in Positions, d \in Nonzero :
                   /\ topic.name = SingleDigit(i, d)
                   /\ topic.age \in 1..Period
                   /\ topic.age < Period =>
                          Apart(Rank(i, d), topic.age, Rank(k, e))
      BY <1>1 DEF Ages
    <2>2. /\ topic.age \in 1..Period
          /\ topic.age < Period => Apart(Rank(k, e), topic.age, Rank(k, e))
      BY <1>1, <2>1, SingleDigitInjective
    <2>3. Rank(k, e) \in 0..(Period - 1)
      BY IncrementAdvances
    <2>4. CASE topic.age < Period
      BY <2>2, <2>3, <2>4, ApartSelf
    <2>5. CASE ~(topic.age < Period)
      BY <2>2, <2>5, DigitsAssumption DEF Period
    <2>6. QED
      BY <2>4, <2>5
  <1>2. Ages => NoEarlyReuse
    BY <1>1 DEF NoEarlyReuse
  <1>3. QED
    BY <1>2, AgesInvariant, PTL
=============================================================================
