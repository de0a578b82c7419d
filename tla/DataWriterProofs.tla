-------------------------- MODULE DataWriterProofs --------------------------
(***************************************************************************)
(* Proofs about the calls on a DataWriter, for any number and nesting of   *)
(* them. The invariant says that each call has an id of its own (Ids), so  *)
(* that what becomes of one says nothing of another, and what is known of  *)
(* the calls that are over (Told).                                         *)
(***************************************************************************)
EXTENDS DataWriter, FiniteSetTheorems, SequenceTheorems, TLAPS

Shape ==
    /\ open \in Seq(Calls)
    /\ log \subseteq Ends /\ IsFiniteSet(log)
    /\ handles \in Seq(Keys)
    /\ values = Len(open)
    /\ pending \in BOOLEAN

Ids ==
    /\ \A i \in 1..Len(open) : open[i].id <= Made
    /\ \A i, j \in 1..Len(open) : open[i].id = open[j].id => i = j
    /\ \A e \in log : e.call.id <= Made
    /\ \A e \in log : \A i \in 1..Len(open) : e.call.id # open[i].id

Told ==
    /\ \A c \in accepted : \E e \in log : e.call = c
    /\ \A e \in log : e.threw <=> e.excepted \/ e.call \notin accepted
    /\ \A e \in log : e.call.op = "register_instance" /\ ~e.threw =>
           e.result \in DOMAIN handles /\ handles[e.result] = e.call.key
    /\ \A i \in 1..Len(open) :
           open[i].op = "register_instance" => open[i].handle = Nil

IInv == Shape /\ Ids /\ Told

-----------------------------------------------------------------------------

LEMMA InitInv == Init => IInv
  <1> SUFFICES ASSUME Init PROVE IInv
    OBVIOUS
  <1>1. open = <<>> /\ log = {} /\ handles = <<>> /\ values = 0 /\ accepted = {}
    BY DEF Init
  <1>2. /\ open \in Seq(Calls) /\ Len(open) = 0 /\ handles \in Seq(Keys)
        /\ IsFiniteSet(log) /\ pending = FALSE
    BY <1>1, FS_EmptySet DEF Init
  <1>3. Shape
    BY <1>1, <1>2 DEF Shape
  <1>4. Ids /\ Told
    BY <1>1, <1>2 DEF Ids, Told
  <1> QED
    BY <1>3, <1>4 DEF IInv

\* How many calls were made.
LEMMA MadeNat ==
  ASSUME Shape
  PROVE  /\ Made \in Nat /\ Len(open) \in Nat
         /\ Made = Len(open) + Cardinality(log) /\ Cardinality(log) \in Nat
  BY FS_CardinalityType DEF Shape, Made

\* A call begins.
LEMMA BeginInv ==
  ASSUME IInv, NEW op \in Ops, Begin(op)
  PROVE  IInv'
  <1> USE DEF IInv
  <1>1. PICK key \in Keys, handle \in {Nil} \cup DOMAIN handles :
            /\ handle # Nil => op # "register_instance"
            /\ open' = Append(open, [id |-> Made + 1, op |-> op, key |-> key,
                                     handle |-> handle])
    BY DEF Begin
  <1> DEFINE c == [id |-> Made + 1, op |-> op, key |-> key, handle |-> handle]
             n == Len(open)
  <1>2. /\ values' = values + 1 /\ Made < MaxCalls
        /\ UNCHANGED <<pending, handles, accepted, log>>
    BY DEF Begin
  <1>3. Made \in Nat /\ n \in Nat /\ Made = n + Cardinality(log)
    BY MadeNat
  <1>4. c \in Calls /\ c.id = Made + 1 /\ c.op = op /\ c.handle = handle
    <2>1. handle \in Nat
      BY DEF Shape, Nil
    <2> QED
      BY <1>2, <1>3, <2>1, DataWriterBounds DEF Calls
  <1>5. /\ open' \in Seq(Calls) /\ Len(open') = n + 1
        /\ \A i \in 1..n : open'[i] = open[i]
        /\ open'[n + 1] = c
    BY <1>1, <1>4 DEF Shape
  <1>6. Made' = Made + 1
    BY <1>2, <1>3, <1>5, FS_CardinalityType DEF Shape, Made
  <1>7. \A i \in 1..(n + 1) : i \in 1..n \/ i = n + 1
    BY <1>3
  <1>8. Shape'
    BY <1>2, <1>5 DEF Shape
  <1>9. ASSUME NEW i \in 1..n PROVE open[i].id \in Nat /\ open[i].id <= Made
    <2>1. open[i] \in Calls
      BY DEF Shape
    <2> QED
      BY <2>1, DataWriterBounds DEF Ids, Calls
  <1>10. ASSUME NEW e \in log PROVE e.call.id \in Nat /\ e.call.id <= Made
    BY DEF Shape, Ids, Ends, Calls
  <1>11. Ids'
    <2>1. \A i \in 1..Len(open') : open'[i].id <= Made'
      BY <1>3, <1>4, <1>5, <1>6, <1>7, <1>9
    <2>2. \A i, j \in 1..Len(open') : open'[i].id = open'[j].id => i = j
      <3> SUFFICES ASSUME NEW i \in 1..(n + 1), NEW j \in 1..(n + 1),
                          open'[i].id = open'[j].id
                   PROVE  i = j
        BY <1>5
      <3>1. CASE i \in 1..n /\ j \in 1..n
        BY <1>5, <3>1 DEF Ids
      <3>2. CASE i = n + 1 /\ j \in 1..n
        BY <1>3, <1>4, <1>5, <1>9, <3>2
      <3>3. CASE j = n + 1 /\ i \in 1..n
        BY <1>3, <1>4, <1>5, <1>9, <3>3
      <3> QED
        BY <1>7, <3>1, <3>2, <3>3
    <2>3. \A e \in log' : e.call.id <= Made'
      BY <1>2, <1>3, <1>6, <1>10
    <2>4. \A e \in log' : \A i \in 1..Len(open') : e.call.id # open'[i].id
      <3> SUFFICES ASSUME NEW e \in log, NEW i \in 1..(n + 1)
                   PROVE  e.call.id # open'[i].id
        BY <1>2, <1>5
      <3>1. CASE i \in 1..n
        BY <1>5, <3>1 DEF Ids
      <3>2. CASE i = n + 1
        BY <1>3, <1>4, <1>5, <1>10, <3>2
      <3> QED
        BY <1>7, <3>1, <3>2
    <2> QED
      BY <2>1, <2>2, <2>3, <2>4 DEF Ids
  <1>12. Told'
    <2>1. \A i \in 1..Len(open') :
              open'[i].op = "register_instance" => open'[i].handle = Nil
      BY <1>1, <1>4, <1>5, <1>7 DEF Told
    <2> QED
      BY <1>2, <2>1 DEF Told
  <1> QED
    BY <1>8, <1>11, <1>12

\* The innermost call.
LEMMA Innermost ==
  ASSUME IInv, open # <<>>
  PROVE  /\ Len(open) \in Nat \ {0} /\ Call = open[Len(open)]
         /\ Call \in Calls
         /\ Call \notin accepted
         /\ \A e \in log : e.call # Call
  <1>1. /\ Len(open) \in Nat \ {0} /\ Call = open[Len(open)] /\ Call \in Calls
    BY DEF IInv, Shape, Call
  <1>2. \A e \in log : e.call # Call
    BY <1>1 DEF IInv, Ids
  <1>3. Call \notin accepted
    BY <1>2 DEF IInv, Told
  <1> QED
    BY <1>1, <1>2, <1>3

\* The length of a sequence without its last element.
LEMMA OneLess ==
  ASSUME NEW n \in Nat \ {0}
  PROVE  (IF 1 <= n - 1 THEN n - 1 - 1 + 1 ELSE 0) = n - 1
  OBVIOUS

\* It ends, in whichever way.
LEMMA EndedInv ==
  ASSUME IInv, open # <<>>, NEW threw \in BOOLEAN, NEW result \in Nat,
         Ended(threw, result),
         values' = values - 1, handles' \in Seq(Keys)
  PROVE  /\ Shape' /\ Ids'
         /\ log' = log \cup {[call |-> Call, threw |-> threw,
                              result |-> result, excepted |-> pending]}
         /\ \A i \in 1..Len(open') : i \in 1..Len(open) /\ open'[i] = open[i]
  <1> DEFINE n == Len(open)
             e == [call |-> Call, threw |-> threw, result |-> result,
                   excepted |-> pending]
  <1>1. n \in Nat \ {0} /\ Call = open[n] /\ Call \in Calls
    BY Innermost
  <1>2. /\ open' \in Seq(Calls) /\ Len(open') = n - 1
        /\ \A i \in 1..(n - 1) : open'[i] = open[i]
    <2>1. open' = SubSeq(open, 1, n - 1) /\ open \in Seq(Calls)
      BY DEF Ended, IInv, Shape
    <2>2. n - 1 + 1 - 1 = n - 1 /\ n - 1 - 1 + 1 = n - 1
      BY <1>1
    <2>3. \A i \in 1..(n - 1) : open[i] \in Calls
      BY <1>1, <2>1
    <2>4. /\ open' \in Seq(Calls)
          /\ Len(open') = IF 1 <= n - 1 THEN n - 1 - 1 + 1 ELSE 0
          /\ \A i \in 1..(n - 1 - 1 + 1) : open'[i] = open[1 + i - 1]
      BY <1>1, <2>1, <2>3, SubSeqProperties
    <2>5. (IF 1 <= n - 1 THEN n - 1 - 1 + 1 ELSE 0) = n - 1
      BY <1>1, OneLess
    <2>6. \A i \in 1..(n - 1) : open'[i] = open[i]
      <3> TAKE i \in 1..(n - 1)
      <3>1. 1 + i - 1 = i /\ i \in 1..(n - 1 - 1 + 1)
        BY <1>1
      <3> QED
        BY <2>4, <3>1, Zenon
    <2> QED
      BY <2>4, <2>5, <2>6
  <1>3. log' = log \cup {e} /\ e \in Ends /\ e \notin log /\ e.call = Call
    <2>1. e \in Ends /\ e.call = Call
      BY <1>1 DEF Ends, IInv, Shape
    <2>2. e \notin log
      BY <2>1, Innermost
    <2> QED
      BY <2>1, <2>2 DEF Ended
  <1>4. /\ log' \subseteq Ends /\ IsFiniteSet(log')
        /\ Cardinality(log') = Cardinality(log) + 1
    BY <1>3, FS_AddElement DEF IInv, Shape
  <1>5. Made' = Made
    BY <1>1, <1>2, <1>4, MadeNat DEF IInv, Made
  <1>6. \A i \in 1..(n - 1) : i \in 1..n /\ i # n
    BY <1>1
  <1>7. Shape'
    BY <1>2, <1>4 DEF IInv, Shape, Ended
  <1>8. Ids'
    <2>1. \A i \in 1..Len(open') : open'[i].id <= Made'
      BY <1>2, <1>5, <1>6 DEF IInv, Ids
    <2>2. \A i, j \in 1..Len(open') : open'[i].id = open'[j].id => i = j
      BY <1>2, <1>6 DEF IInv, Ids
    <2>3. \A f \in log' : f.call.id <= Made'
      BY <1>1, <1>3, <1>5 DEF IInv, Ids
    <2>4. ASSUME NEW f \in log', NEW i \in 1..(n - 1)
          PROVE  f.call.id # open'[i].id
      <3>1. i \in 1..n /\ i # n /\ n \in 1..n
        BY <1>1
      <3>2. CASE f \in log
        BY <1>2, <3>1, <3>2 DEF IInv, Ids
      <3>3. CASE f = e
        BY <1>1, <1>2, <1>3, <3>1, <3>3 DEF IInv, Ids
      <3> QED
        BY <1>3, <3>2, <3>3
    <2> QED
      BY <1>2, <2>1, <2>2, <2>3, <2>4 DEF Ids
  <1> QED
    BY <1>2, <1>3, <1>6, <1>7, <1>8

\* The arguments do not pass.
LEMMA BadArgumentsInv ==
  ASSUME IInv, NEW op \in Ops, BadArguments(op)
  PROVE  IInv'
  <1>1. PICK key \in Keys :
            log' = log \cup {[call |-> [id |-> Made + 1, op |-> op, key |-> key,
                                       handle |-> Nil],
                             threw |-> TRUE, result |-> Nil,
                             excepted |-> FALSE]}
    BY DEF BadArguments
  <1> DEFINE c == [id |-> Made + 1, op |-> op, key |-> key, handle |-> Nil]
             e == [call |-> c, threw |-> TRUE, result |-> Nil,
                   excepted |-> FALSE]
  <1>2. Made < MaxCalls /\ UNCHANGED <<open, values, pending, handles, accepted>>
    BY DEF BadArguments
  <1>3. /\ Made \in Nat /\ Len(open) \in Nat
        /\ Made = Len(open) + Cardinality(log) /\ Cardinality(log) \in Nat
    BY MadeNat DEF IInv
  <1>4. e \in Ends /\ e.call = c /\ c.id = Made + 1 /\ e.threw /\ ~e.excepted
    BY <1>2, <1>3, DataWriterBounds DEF Ends, Calls, Nil
  <1>5. \A f \in log : f.call.id \in Nat /\ f.call.id <= Made
    BY DEF IInv, Shape, Ids, Ends, Calls
  <1>6. e \notin log /\ \A f \in log : f.call # c
    BY <1>3, <1>4, <1>5
  <1>7. IsFiniteSet(log') /\ Cardinality(log') = Cardinality(log) + 1
    BY <1>1, <1>6, FS_AddElement DEF IInv, Shape
  <1>8. Made' = Made + 1
    BY <1>2, <1>3, <1>7 DEF Made
  <1>9. Shape'
    BY <1>1, <1>2, <1>4, <1>7 DEF IInv, Shape
  <1>10. ASSUME NEW i \in 1..Len(open)
         PROVE  open[i].id \in Nat /\ open[i].id <= Made
    <2>1. open[i] \in Calls
      BY DEF IInv, Shape
    <2> QED
      BY <2>1, DataWriterBounds DEF IInv, Ids, Calls
  <1>11. Ids'
    <2>1. \A i \in 1..Len(open') : open'[i].id <= Made'
      BY <1>2, <1>3, <1>8, <1>10
    <2>2. \A i, j \in 1..Len(open') : open'[i].id = open'[j].id => i = j
      BY <1>2 DEF IInv, Ids
    <2>3. \A f \in log' : f.call.id <= Made'
      BY <1>1, <1>3, <1>4, <1>5, <1>8
    <2>4. ASSUME NEW f \in log', NEW i \in 1..Len(open')
          PROVE  f.call.id # open'[i].id
      <3>1. CASE f \in log
        BY <1>2, <3>1 DEF IInv, Ids
      <3>2. CASE f = e
        BY <1>2, <1>3, <1>4, <1>10, <3>2
      <3> QED
        BY <1>1, <3>1, <3>2
    <2> QED
      BY <2>1, <2>2, <2>3, <2>4 DEF Ids
  <1>12. c \notin accepted
    BY <1>6 DEF IInv, Told
  <1>13. Told'
    <2>1. \A f \in log' : f.threw <=> f.excepted \/ f.call \notin accepted'
      BY <1>1, <1>2, <1>4, <1>12 DEF IInv, Told
    <2>2. \A f \in log' : f.call.op = "register_instance" /\ ~f.threw =>
              f.result \in DOMAIN handles' /\ handles'[f.result] = f.call.key
      BY <1>1, <1>2, <1>4 DEF IInv, Told
    <2>3. \A d \in accepted' : \E f \in log' : f.call = d
      BY <1>1, <1>2 DEF IInv, Told
    <2> QED
      BY <1>2, <2>1, <2>2, <2>3 DEF IInv, Told
  <1> QED
    BY <1>9, <1>11, <1>13 DEF IInv

\* The sample cannot be read.
LEMMA ReadFailsInv ==
  ASSUME IInv, ReadFails
  PROVE  IInv'
  <1> DEFINE e == [call |-> Call, threw |-> TRUE, result |-> Nil,
                   excepted |-> pending]
  <1>1. /\ open # <<>> /\ Ended(TRUE, Nil) /\ values' = values - 1
        /\ UNCHANGED <<handles, accepted>> /\ handles' \in Seq(Keys)
        /\ Nil \in Nat
    BY DEF IInv, Shape, ReadFails, DeletesUnread, Nil
  <1>2. /\ Shape' /\ Ids' /\ log' = log \cup {e}
        /\ \A i \in 1..Len(open') : i \in 1..Len(open) /\ open'[i] = open[i]
    BY <1>1, EndedInv
  <1>3. Call \notin accepted /\ e.call = Call
    BY <1>1, Innermost
  <1>4. Told'
    <2>1. \A f \in log' : f.threw <=> f.excepted \/ f.call \notin accepted'
      BY <1>1, <1>2, <1>3 DEF IInv, Told
    <2>2. \A f \in log' : f.call.op = "register_instance" /\ ~f.threw =>
              f.result \in DOMAIN handles' /\ handles'[f.result] = f.call.key
      BY <1>1, <1>2 DEF IInv, Told
    <2>3. \A d \in accepted' : \E f \in log' : f.call = d
      BY <1>1, <1>2 DEF IInv, Told
    <2> QED
      BY <1>1, <1>2, <2>1, <2>2, <2>3 DEF IInv, Told
  <1> QED
    BY <1>2, <1>4 DEF IInv

\* The handle of a key's instance, and what is known of it once it is made.
LEMMA Handle ==
  ASSUME NEW key \in Keys, handles \in Seq(Keys)
  PROVE  /\ HandleOf(key) \in Nat
         /\ HandleOf(key) \in DOMAIN handles => handles[HandleOf(key)] = key
         /\ HandleOf(key) \notin DOMAIN handles =>
                HandleOf(key) = Len(handles) + 1
  <1>1. DOMAIN handles = 1..Len(handles) /\ Len(handles) \in Nat
    OBVIOUS
  <1>2. CASE \E h \in DOMAIN handles : handles[h] = key
    BY <1>1, <1>2 DEF HandleOf
  <1>3. CASE ~\E h \in DOMAIN handles : handles[h] = key
    BY <1>1, <1>3 DEF HandleOf
  <1> QED
    BY <1>2, <1>3

\* The sample was read.
LEMMA FinishInv ==
  ASSUME IInv, Finish
  PROVE  IInv'
  <1> DEFINE key == Call.key
             registers == Call.op = "register_instance"
             c == Call
  <1>1. PICK done \in BOOLEAN :
            /\ accepted' = IF done THEN accepted \cup {c} ELSE accepted
            /\ handles' = IF /\ done /\ c.handle = Nil
                             /\ HandleOf(key) \notin DOMAIN handles
                          THEN Append(handles, key) ELSE handles
            /\ values' = values - 1
            /\ Ended(~done \/ pending,
                     IF done /\ registers THEN HandleOf(key) ELSE Nil)
    BY DEF Finish, Throws
  <1> DEFINE result == IF done /\ registers THEN HandleOf(key) ELSE Nil
             threw == ~done \/ pending
             e == [call |-> c, threw |-> threw, result |-> result,
                   excepted |-> pending]
  <1>2. open # <<>>
    BY DEF Finish
  <1>3. /\ c \in Calls /\ c \notin accepted
        /\ \A f \in log : f.call # c
        /\ Len(open) \in Nat \ {0} /\ c = open[Len(open)]
    BY <1>2, Innermost
  <1>4. key \in Keys /\ handles \in Seq(Keys) /\ result \in Nat
    BY <1>3, Handle DEF IInv, Shape, Calls, Nil
  <1>5. /\ handles' \in Seq(Keys)
        /\ \A h \in DOMAIN handles : h \in DOMAIN handles'
                                       /\ handles'[h] = handles[h]
    BY <1>1, <1>4
  <1>6. /\ Shape' /\ Ids' /\ log' = log \cup {e}
        /\ \A i \in 1..Len(open') : i \in 1..Len(open) /\ open'[i] = open[i]
    <2>1. threw \in BOOLEAN /\ Ended(threw, result)
      BY <1>1 DEF IInv, Shape
    <2> HIDE DEF threw, result
    <2> QED
      BY <1>1, <1>2, <1>4, <1>5, <2>1, EndedInv
  <1>7. /\ e.call = c /\ e.threw = threw /\ e.result = result
        /\ e.excepted = pending
    OBVIOUS
  <1>8. registers /\ done => /\ result \in DOMAIN handles'
                             /\ handles'[result] = key
    <2> SUFFICES ASSUME registers, done
                 PROVE  result \in DOMAIN handles' /\ handles'[result] = key
      OBVIOUS
    <2>1. c.handle = Nil
      BY <1>3 DEF IInv, Told
    <2>2. result = HandleOf(key)
      OBVIOUS
    <2>3. CASE HandleOf(key) \in DOMAIN handles
      BY <1>4, <1>5, <2>2, <2>3, Handle
    <2>4. CASE HandleOf(key) \notin DOMAIN handles
      <3>1. handles' = Append(handles, key)
        BY <1>1, <2>1, <2>4
      <3>2. result = Len(handles) + 1
        BY <1>4, <2>2, <2>4, Handle
      <3> QED
        BY <1>4, <3>1, <3>2
    <2> QED
      BY <2>3, <2>4
  <1>9. Told'
    <2> HIDE DEF result, threw, e, c, key, registers
    <2>1. ASSUME NEW f \in log'
          PROVE  f.threw <=> f.excepted \/ f.call \notin accepted'
      <3>1. CASE f \in log
        <4>1. f.call # c
          BY <1>3, <3>1
        <4> QED
          BY <1>1, <3>1, <4>1 DEF IInv, Told
      <3>2. CASE f = e
        <4>1. c \in accepted' <=> done
          BY <1>1, <1>3
        <4> QED
          BY <1>7, <3>2, <4>1 DEF threw
      <3> QED
        BY <1>6, <3>1, <3>2
    <2>2. \A f \in log' : f.call.op = "register_instance" /\ ~f.threw =>
              f.result \in DOMAIN handles' /\ handles'[f.result] = f.call.key
      BY <1>5, <1>6, <1>7, <1>8 DEF IInv, Told, threw, registers, key, c
    <2>3. \A d \in accepted' : \E f \in log' : f.call = d
      BY <1>1, <1>6, <1>7 DEF IInv, Told
    <2>4. \A i \in 1..Len(open') :
              open'[i].op = "register_instance" => open'[i].handle = Nil
      BY <1>6 DEF IInv, Told
    <2> QED
      BY <2>1, <2>2, <2>3, <2>4 DEF Told
  <1> QED
    BY <1>6, <1>9 DEF IInv

\* Every step.
LEMMA NextInv == IInv /\ [Next]_vars => IInv'
  <1> SUFFICES ASSUME IInv, [Next]_vars PROVE IInv'
    OBVIOUS
  <1>1. ASSUME NEW op \in Ops, Begin(op) PROVE IInv'
    BY <1>1, BeginInv
  <1>2. ASSUME NEW op \in Ops, BadArguments(op) PROVE IInv'
    BY <1>2, BadArgumentsInv
  <1>3. ASSUME UNCHANGED <<open, values, handles, accepted, log>>,
               pending' \in BOOLEAN
        PROVE  IInv'
    BY <1>3 DEF IInv, Shape, Ids, Told, Made
  <1>4. CASE DeleteParticipant
    BY <1>3, <1>4 DEF DeleteParticipant, IInv, Shape
  <1>5. CASE UsesDeleted \/ LeavesPending
    BY <1>3, <1>5 DEF UsesDeleted, LeavesPending, IInv, Shape
  <1>6. CASE UNCHANGED vars
    BY <1>3, <1>6 DEF vars, IInv, Shape
  <1> QED
    BY <1>1, <1>2, <1>4, <1>5, <1>6, ReadFailsInv, FinishInv DEF Next

LEMMA Invariance == Spec => []IInv
  BY InitInv, NextInv, PTL DEF Spec

-----------------------------------------------------------------------------
(* The theorems.                                                           *)

\* The variables keep their types: what IInv does not say, and what it does.
THEOREM TypeCorrect == Spec => []TypeOK
  <1> DEFINE Rest == /\ writer \in {"live", "deleted"} /\ fault \in BOOLEAN
                     /\ accepted \subseteq Calls
  <1>1. Init => Rest
    BY DEF Init
  <1>2. IInv /\ Rest /\ [Next]_vars => Rest'
    <2> SUFFICES ASSUME IInv, Rest, [Next]_vars PROVE Rest'
      OBVIOUS
    <2>1. CASE \E op \in Ops : Begin(op) \/ BadArguments(op)
      BY <2>1 DEF Begin, BadArguments
    <2>2. CASE \/ DeleteParticipant \/ LeavesPending \/ ReadFails
               \/ UsesDeleted
      BY <2>2 DEF DeleteParticipant, LeavesPending, ReadFails, UsesDeleted
    <2>3. CASE Finish
      <3>1. UNCHANGED <<writer, fault>> /\ open # <<>>
        BY <2>3 DEF Finish
      <3>2. accepted' = accepted \cup {Call} \/ accepted' = accepted
        BY <2>3 DEF Finish
      <3>3. Call \in Calls
        BY <3>1, Innermost
      <3> QED
        BY <3>1, <3>2, <3>3
    <2>4. CASE UNCHANGED vars
      BY <2>4 DEF vars
    <2> QED
      BY <2>1, <2>2, <2>3, <2>4 DEF Next
  <1>3. IInv /\ Rest => TypeOK
    <2> SUFFICES ASSUME IInv, Rest PROVE TypeOK
      OBVIOUS
    <2>1. Len(open) \in Nat
      BY DEF IInv, Shape
    <2> QED
      BY <2>1 DEF IInv, Shape, TypeOK
  <1> QED
    BY <1>1, <1>2, <1>3, Invariance, PTL DEF Spec

\* However many calls the getters of samples make, and however each call ends
\* (src/node-opendds.cpp:485, 492 and their like), there are as many C++
\* values as calls that still read.
THEOREM NoValueLeaks == Spec => []ValuesFreed
  <1>1. IInv => ValuesFreed
    BY DEF IInv, Shape, ValuesFreed
  <1> QED
    BY <1>1, Invariance, PTL

\* A call that returns was done, one that throws was not or had an exception
\* pending from its read (src/node-opendds.cpp:484-499 and their like), and a
\* handle is that of its sample's instance.
THEOREM ToldTheTruth == Spec => []ProgramIsTold
  <1>1. IInv => ProgramIsTold
    <2> SUFFICES ASSUME IInv, NEW e \in log, e.call.op = "register_instance",
                        ~e.threw
                 PROVE  e.result # Nil /\ handles[e.result] = e.call.key
      BY DEF IInv, Told, ProgramIsTold
    <2>1. e.result \in 1..Len(handles) /\ handles[e.result] = e.call.key
      BY DEF IInv, Shape, Told
    <2> QED
      BY <2>1 DEF Nil
  <1> QED
    BY <1>1, Invariance, PTL
=============================================================================
