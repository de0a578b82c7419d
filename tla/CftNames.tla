------------------------------ MODULE CftNames ------------------------------
(***************************************************************************)
(* The names subscribe() gives to ContentFilteredTopics: "CFT" and Digits  *)
(* decimal digits (6 in the code), advanced by increment() after each use. *)
(* A name is the function from positions, leftmost first, to its digits.   *)
(***************************************************************************)
EXTENDS Naturals

CONSTANT Digits

ASSUME DigitsAssumption == Digits \in Nat \ {0}

Positions == 1..Digits
Names == [Positions -> 0..9]

\* The name with digit d at position i and zeros elsewhere.
SingleDigit(i, d) == [j \in Positions |-> IF j = i THEN d ELSE 0]

InitialName == SingleDigit(Digits, 1)

\* The position that increment() works on: the first digit that is not zero.
IsFirstNonZero(name, i) ==
    /\ i \in Positions
    /\ name[i] # 0
    /\ \A j \in 1..(i - 1) : name[j] = 0

FirstNonZero(name) == CHOOSE i \in Positions : IsFirstNonZero(name, i)

Carry_Bug(name, i) == [name EXCEPT ![i - 1] = 1]        \* no name[i] = '0'
Carry(name, i) == [name EXCEPT ![i] = 0, ![i - 1] = 1]

increment_Bug(name) ==                                  \* no carry
    LET i == FirstNonZero(name)
    IN  IF name[i] = 9 THEN InitialName ELSE [name EXCEPT ![i] = @ + 1]

increment(name) ==
    LET i == FirstNonZero(name)
    IN  IF name[i] # 9 THEN [name EXCEPT ![i] = @ + 1]
        ELSE IF i = 1 THEN InitialName
        ELSE Carry(name, i)
=============================================================================
