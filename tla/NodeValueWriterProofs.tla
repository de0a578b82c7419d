----------------------- MODULE NodeValueWriterProofs -----------------------
(***************************************************************************)
(* Theorems of NodeValueWriter, for samples of any width, depth and size   *)
(* and any number of them. What a failed write leaves behind needs only    *)
(* the depths of the two stacks (IInv); that the stack follows the walk    *)
(* needs which object is at each depth (LinkInv); that the result is the   *)
(* sample needs the whole tree of objects (TreeInv).                       *)
(***************************************************************************)
EXTENDS NodeValueWriter, SequenceTheorems, WellFoundedInduction, TLAPS

Frames == [kind : Containers, key : Int]

Shape ==
    /\ isArray \in Seq(BOOLEAN)
    /\ object_stack_ \in Seq(Nat \ {0})
    /\ walk \in Seq(Frames)
    /\ failed \in BOOLEAN
    /\ at \in {"idle", "inside", "value", "done", "fault"}

\* The writer's stack is deeper than the walk by what failed writes left.
Depths ==
    /\ Len(object_stack_) >= Len(walk)
    /\ failed <=> Len(object_stack_) > Len(walk)
    /\ at \in {"idle", "done", "fault"} <=> Len(walk) = 0

Results ==
    /\ at = "done" => (failed <=> result_ = None)
    /\ at # "done" => result_ = None

\* Once written to its end a sample leaves an empty stack.
Stale ==
    /\ stale => failed
    /\ at = "fault" => stale

IInv == Shape /\ Depths /\ Results /\ Stale

\* Arithmetic that the provers find harder when the numbers are lengths.
LEMMA OneLess ==
  ASSUME NEW n \in Nat \ {0}
  PROVE  (IF 1 <= n - 1 THEN n - 1 - 1 + 1 ELSE 0) = n - 1
  OBVIOUS

LEMMA Deeper ==
  ASSUME NEW m \in Nat, NEW n \in Nat, n >= m, m = 1
  PROVE  n > m <=> n # 1
  OBVIOUS

\* What Append and Pop do to a sequence and its length.
LEMMA Appended ==
  ASSUME NEW S, NEW s \in Seq(S), NEW e \in S
  PROVE  Append(s, e) \in Seq(S) /\ Len(Append(s, e)) = Len(s) + 1
  OBVIOUS

LEMMA PoppedOff ==
  ASSUME NEW S, NEW s \in Seq(S), Len(s) > 0
  PROVE  /\ Pop(s) \in Seq(S) /\ Len(Pop(s)) = Len(s) - 1
         /\ Top(s) \in S
  <1>1. Len(s) \in Nat \ {0}
    OBVIOUS
  <1>2. Top(s) \in S
    BY <1>1 DEF Top
  <1>3. \A i \in 1..(Len(s) - 1) : s[i] \in S
    BY <1>1
  <1>4. /\ Pop(s) \in Seq(S)
        /\ Len(Pop(s)) = IF 1 <= Len(s) - 1 THEN Len(s) - 1 - 1 + 1 ELSE 0
    BY <1>1, <1>3, SubSeqProperties DEF Pop
  <1>5. Len(Pop(s)) = Len(s) - 1
    BY <1>1, <1>4, OneLess
  <1> QED
    BY <1>2, <1>4, <1>5

LEMMA PoppedEntries ==
  ASSUME NEW S, NEW s \in Seq(S), Len(s) > 0
  PROVE  /\ Len(Pop(s)) = Len(s) - 1
         /\ \A i \in 1..(Len(s) - 1) : Pop(s)[i] = s[i]
  <1>1. Len(s) \in Nat \ {0} /\ Len(Pop(s)) = Len(s) - 1
    BY PoppedOff
  <1>2. \A i \in 1..(Len(s) - 1) : s[i] \in S
    BY <1>1
  <1>3. \A i \in 1..(Len(s) - 1) : Pop(s)[i] = s[1 + i - 1]
    BY <1>1, <1>2, SubSeqProperties DEF Pop
  <1> QED
    BY <1>1, <1>3

\* The walk moves on within its innermost container.
LEMMA Moved ==
  ASSUME NEW s \in Seq(Frames), Len(s) > 0, NEW k \in Int
  PROVE  /\ [s EXCEPT ![Len(s)].key = k] \in Seq(Frames)
         /\ Len([s EXCEPT ![Len(s)].key = k]) = Len(s)
  <1>1. s[Len(s)] \in Frames
    OBVIOUS
  <1>2. [s[Len(s)] EXCEPT !.key = k] \in Frames
    BY <1>1 DEF Frames
  <1> QED
    BY <1>2

LEMMA InitInv == Init => IInv
  <1> SUFFICES ASSUME Init PROVE IInv
    OBVIOUS
  <1>1. /\ isArray = <<>> /\ object_stack_ = <<>> /\ walk = <<>>
        /\ failed = FALSE /\ at = "idle" /\ result_ = None
        /\ stale = FALSE
    BY DEF Init
  <1>2. Len(object_stack_) = 0 /\ Len(walk) = 0
    BY <1>1
  <1>3. /\ isArray \in Seq(BOOLEAN)
        /\ object_stack_ \in Seq(Nat \ {0})
        /\ walk \in Seq(Frames)
    BY <1>1, EmptySeq
  <1>4. Shape
    BY <1>1, <1>3 DEF Shape
  <1> QED
    BY <1>1, <1>2, <1>4 DEF IInv, Depths, Results, Stale

\* A container is opened on both stacks.
LEMMA Begins ==
  ASSUME IInv, NEW kind \in Containers, begin_container(kind)
  PROVE  IInv'
  <1> USE DEF IInv
  <1>1. /\ at \in {"idle", "value"} /\ at' = "inside"
        /\ result_' = result_ /\ failed' = failed /\ stale' = stale
        /\ walk' = Append(walk, [kind |-> kind, key |-> NoKey])
        /\ isArray' = Append(isArray, kind = "array")
        /\ object_stack_' = Append(object_stack_, Len(isArray) + 1)
    BY DEF begin_container, object_helper, AtMember
  <1>2. [kind |-> kind, key |-> NoKey] \in Frames
    BY DEF Frames, NoKey
  <1>3. (kind = "array") \in BOOLEAN /\ Len(isArray) + 1 \in Nat \ {0}
    BY DEF Shape
  <1>4. walk' \in Seq(Frames) /\ Len(walk') = Len(walk) + 1
    BY <1>1, <1>2, Appended DEF Shape
  <1>5. isArray' \in Seq(BOOLEAN)
    BY <1>1, <1>3, Appended DEF Shape
  <1>6. /\ object_stack_' \in Seq(Nat \ {0})
        /\ Len(object_stack_') = Len(object_stack_) + 1
    BY <1>1, <1>3, Appended DEF Shape
  <1>7. Len(walk) \in Nat /\ Len(object_stack_) \in Nat
    BY DEF Shape
  <1>8. Shape'
    BY <1>1, <1>4, <1>5, <1>6 DEF Shape
  <1>9. Depths'
    BY <1>1, <1>4, <1>6, <1>7 DEF Depths
  <1>10. Results' /\ Stale'
    BY <1>1 DEF Results, Stale
  <1> QED
    BY <1>8, <1>9, <1>10

\* Moving to a member or element changes no depth.
LEMMA Moves ==
  ASSUME IInv, NEW k \in Int, at = "inside", MovesTo(k)
  PROVE  IInv'
  <1> USE DEF IInv
  <1>1. /\ at' = "value" /\ walk' = [walk EXCEPT ![Len(walk)].key = k]
        /\ UNCHANGED <<isArray, object_stack_, result_, failed, stale>>
    BY DEF MovesTo, v8Vars
  <1>2. walk \in Seq(Frames) /\ Len(walk) > 0
    BY DEF Shape, Depths
  <1>3. walk' \in Seq(Frames) /\ Len(walk') = Len(walk)
    BY <1>1, <1>2, Moved
  <1> QED
    BY <1>1, <1>3 DEF Shape, Depths, Results, Stale

\* A value changes no depth.
LEMMA Sends ==
  ASSUME IInv, NEW leaf, at = "value", Sent(leaf)
  PROVE  IInv'
  BY DEF IInv, Sent, writerVars, Shape, Depths, Results, Stale

\* A failed write leaves what it had begun on the writer's stack.
LEMMA Fails ==
  ASSUME IInv, write_fails
  PROVE  IInv'
  <1> USE DEF IInv
  <1>1. /\ at = "value" /\ at' = "idle" /\ walk' = <<>> /\ failed' = TRUE
        /\ UNCHANGED <<isArray, object_stack_, result_, stale>>
    BY DEF write_fails, v8Vars, writerVars
  <1>2. Len(object_stack_) > 0
    BY <1>1 DEF Shape, Depths
  <1>3. walk' \in Seq(Frames) /\ Len(walk') = 0
    BY <1>1
  <1> QED
    BY <1>1, <1>2, <1>3 DEF Shape, Depths, Results, Stale

\* The end of a container: a result is made at depth 1 of the writer's stack,
\* which is the end of the sample exactly if nothing lies beneath.
LEMMA Ends ==
  ASSUME IInv, end_container
  PROVE  IInv'
  <1> USE DEF IInv
  <1>1. /\ at = "inside" /\ at' = IF Len(walk) = 1 THEN "done" ELSE "inside"
        /\ walk' = Pop(walk) /\ object_stack_' = Pop(object_stack_)
        /\ result_' = IF Len(object_stack_) = 1 THEN Top(object_stack_)
                      ELSE result_
        /\ UNCHANGED <<isArray, failed, stale>>
    BY DEF end_container, IsResult, Popped, v8Vars
  <1>2. /\ Len(walk) \in Nat /\ Len(walk) > 0
        /\ Len(object_stack_) \in Nat /\ Len(object_stack_) >= Len(walk)
    BY <1>1 DEF Shape, Depths
  <1>3. walk' \in Seq(Frames) /\ Len(walk') = Len(walk) - 1
    BY <1>1, <1>2, PoppedOff DEF Shape
  <1>4. /\ object_stack_' \in Seq(Nat \ {0})
        /\ Len(object_stack_') = Len(object_stack_) - 1
        /\ Top(object_stack_) \in Nat \ {0}
    BY <1>1, <1>2, PoppedOff DEF Shape
  <1>5. Shape'
    BY <1>1, <1>3, <1>4 DEF Shape
  <1>6. Depths'
    BY <1>1, <1>2, <1>3, <1>4 DEF Depths
  <1>7. Results'
    <2>1. CASE Len(walk) = 1
      <3>1. Len(object_stack_) > Len(walk) <=> Len(object_stack_) # 1
        BY <1>2, <2>1, Deeper
      <3>2. failed <=> Len(object_stack_) # 1
        BY <3>1 DEF Depths
      <3>3. result_ = None
        BY <1>1 DEF Results
      <3> QED
        BY <1>1, <1>4, <2>1, <3>2, <3>3 DEF Results, None
    <2>2. CASE Len(walk) # 1
      BY <1>1, <1>2, <2>2 DEF Results
    <2> QED
      BY <2>1, <2>2
  <1>8. Stale'
    BY <1>1 DEF Stale
  <1> QED
    BY <1>5, <1>6, <1>7, <1>8

\* Taking the result away ends the sample.
LEMMA ResultIsTaken ==
  ASSUME IInv, get_result
  PROVE  IInv'
  <1> USE DEF IInv
  <1>1. /\ at = "done" /\ at' = "idle" /\ result_' = None
        /\ UNCHANGED <<object_stack_, walk, failed, stale>>
        /\ isArray' = <<>> \/ isArray' = isArray
    BY DEF get_result, v8Vars
  <1>2. isArray' \in Seq(BOOLEAN)
    <2>1. CASE isArray' = <<>>
      BY <2>1
    <2>2. CASE isArray' = isArray
      BY <2>2 DEF Shape
    <2> QED
      BY <1>1, <2>1, <2>2
  <1> QED
    BY <1>1, <1>2 DEF Shape, Depths, Results, Stale

\* The scope ends between two samples: what is on the stack then was left
\* there by a failed write.
LEMMA ScopeEnds ==
  ASSUME IInv, scope_ends
  PROVE  IInv'
  <1> USE DEF IInv
  <1>1. /\ at = "idle" /\ stale' = (object_stack_ # <<>>)
        /\ UNCHANGED <<isArray, object_stack_, result_, walk, at, failed>>
    BY DEF scope_ends, v8Vars, writerVars, walkVars
  <1>2. stale' => failed
    <2>1. ASSUME object_stack_ # <<>> PROVE Len(object_stack_) > 0
      BY <2>1 DEF Shape
    <2>2. Len(walk) = 0
      BY <1>1 DEF Depths
    <2> QED
      BY <1>1, <2>1, <2>2 DEF Depths
  <1> QED
    BY <1>1, <1>2 DEF Shape, Depths, Results, Stale

\* A stale handle is used.
LEMMA StaleUse ==
  ASSUME IInv, begin_stale
  PROVE  IInv'
  BY DEF IInv, begin_stale, v8Vars, writerVars, Shape, Depths, Results, Stale

\* Every step preserves the invariant.
LEMMA NextInv == IInv /\ [Next]_vars => IInv'
  <1> SUFFICES ASSUME IInv, [Next]_vars PROVE IInv'
    OBVIOUS
  <1> USE ValueWriterAssumption
  <1>1. CASE \E kind \in Containers : begin_container(kind)
    BY <1>1, Begins
  <1>2. CASE \E m \in 1..Width : begin_struct_member(m) \/ begin_union_member(m)
    BY <1>2, Moves DEF begin_struct_member, begin_union_member, Inside
  <1>3. CASE begin_discriminator
    BY <1>3, Moves DEF begin_discriminator, Inside, Discriminator
  <1>4. CASE \E idx \in 0..(Width - 1) : begin_element(idx)
    BY <1>4, Moves DEF begin_element, Inside
  <1>5. CASE write_value
    BY <1>5, Sends DEF write_value
  <1>6. CASE write_absent_value
    BY <1>6, Sends DEF write_absent_value
  <1>7. CASE write_fixed
    BY <1>7, Sends DEF write_fixed, AtMember
  <1>8. CASE write_fails
    BY <1>8, Fails
  <1>9. CASE end_container
    BY <1>9, Ends
  <1>10. CASE get_result
    BY <1>10, ResultIsTaken
  <1>11. CASE begin_stale
    BY <1>11, StaleUse
  <1>12. CASE scope_ends
    BY <1>12, ScopeEnds
  <1>13. CASE UNCHANGED vars
    BY <1>13 DEF vars, v8Vars, writerVars, walkVars, IInv, Shape, Depths,
                 Results, Stale
  <1> QED
    BY <1>1, <1>2, <1>3, <1>4, <1>5, <1>6, <1>7, <1>8, <1>9, <1>10, <1>11,
       <1>12, <1>13
       DEF Next

\* The invariant holds in every reachable state.
THEOREM Invariance == Spec => []IInv
  BY InitInv, NextInv, PTL DEF Spec

\* What the invariant does not say of the variables' types.
PropTypes(n, ps) ==
    \A e \in ps : /\ e[1] \in 1..n /\ e[2] \in Keys
                  /\ e[3] \in (Leaves \X {None}) \cup ({"object"} \X (1..n))
Numbers ==
    /\ next_key_ \in Keys /\ next_index_ \in 0..(Width - 1)
    /\ walk \in Seq([kind : Containers, key : Keys])
    /\ samples \in 0..MaxSamples /\ stale \in BOOLEAN
Handles ==
    /\ object_stack_ \in Seq(Objects)
    /\ result_ \in Objects \cup {None}
    /\ PropTypes(Len(isArray), props)

\* The property for the next value is a key.
LEMMA NextPropertyType ==
  ASSUME Numbers
  PROVE  NextProperty \in Keys
  BY ValueWriterAssumption DEF Numbers, NextProperty, Keys, Discriminator

\* A property is set.
LEMMA SetTypes ==
  ASSUME NEW n \in Nat, PropTypes(n, props), NEW o \in 1..n, NEW k \in Keys,
         NEW v \in (Leaves \X {None}) \cup ({"object"} \X (1..n))
  PROVE  PropTypes(n, Set(o, k, v))
  BY DEF PropTypes, Set

\* With one object more the old ones are still objects.
LEMMA MoreObjects ==
  ASSUME NEW n \in Nat, PropTypes(n, props)
  PROVE  1..n \subseteq 1..(n + 1) /\ PropTypes(n + 1, props)
  <1>1. 1..n \subseteq 1..(n + 1)
    OBVIOUS
  <1> QED
    BY <1>1 DEF PropTypes

\* The innermost container is an object.
LEMMA InnermostIsObject ==
  ASSUME Handles, object_stack_ # <<>>
  PROVE  Top(object_stack_) \in Objects /\ Len(object_stack_) > 0
  <1>1. Len(object_stack_) > 0
    BY DEF Handles
  <1> QED
    BY <1>1, PoppedOff DEF Handles

LEMMA NumbersStep ==
  ASSUME IInv, Numbers, Next
  PROVE  Numbers'
  <1> USE ValueWriterAssumption
  <1> DEFINE F == [kind : Containers, key : Keys]
  <1>1. NoKey \in Keys /\ Discriminator \in Keys /\ 1..Width \subseteq Keys
        /\ 0..(Width - 1) \subseteq Keys
    BY DEF Keys, NoKey, Discriminator
  <1>2. ASSUME NEW kind \in Containers, begin_container(kind) PROVE Numbers'
    <2>1. walk' \in Seq(F)
      BY <1>1, <1>2, Appended DEF begin_container, Numbers
    <2>2. samples' \in 0..MaxSamples
      BY <1>2 DEF begin_container, Numbers
    <2> QED
      BY <1>2, <2>1, <2>2 DEF begin_container, Numbers, Keys
  <1>3. ASSUME NEW k \in Keys, MovesTo(k), next_key_' \in Keys,
               next_index_' \in 0..(Width - 1), at = "inside"
        PROVE  Numbers'
    <2>1. Len(walk) > 0
      BY <1>3 DEF IInv, Shape, Depths
    <2>2. walk \in Seq(F) /\ Top(walk) \in F
      BY <2>1, PoppedOff DEF Numbers
    <2>3. [walk[Len(walk)] EXCEPT !.key = k] \in F
      BY <1>3, <2>2 DEF Top
    <2>4. walk' \in Seq(F)
      BY <1>3, <2>1, <2>2, <2>3 DEF MovesTo
    <2> QED
      BY <1>3, <2>4 DEF MovesTo, Numbers, Keys
  <1>4. ASSUME NEW m \in 1..Width, begin_struct_member(m) \/ begin_union_member(m)
        PROVE  Numbers'
    BY <1>1, <1>3, <1>4
       DEF begin_struct_member, begin_union_member, Inside, Numbers
  <1>5. CASE begin_discriminator
    BY <1>1, <1>3, <1>5 DEF begin_discriminator, Inside, Numbers
  <1>6. ASSUME NEW idx \in 0..(Width - 1), begin_element(idx) PROVE Numbers'
    BY <1>1, <1>3, <1>6 DEF begin_element, Inside, Numbers
  <1>7. CASE \/ write_value \/ write_absent_value \/ write_fixed \/ begin_stale
             \/ get_result
    BY <1>7 DEF write_value, write_absent_value, write_fixed, Sent, begin_stale,
                get_result, writerVars, v8Vars, Numbers, Keys
  <1>8. CASE write_fails
    <2>1. <<>> \in Seq(F)
      OBVIOUS
    <2> QED
      BY <1>8, <2>1 DEF write_fails, writerVars, Numbers, Keys
  <1>9. CASE end_container
    <2>1. Len(walk) > 0
      BY <1>9 DEF end_container, IInv, Shape, Depths
    <2>2. walk' \in Seq(F)
      BY <1>9, <2>1, PoppedOff DEF end_container, Numbers
    <2> QED
      BY <1>9, <2>2 DEF end_container, Numbers, Keys
  <1>10. CASE scope_ends
    BY <1>10 DEF scope_ends, writerVars, walkVars, Numbers, Keys
  <1> QED
    BY <1>2, <1>4, <1>5, <1>6, <1>7, <1>8, <1>9, <1>10 DEF Next

LEMMA HandlesStep ==
  ASSUME IInv, Numbers, Handles, Next
  PROVE  Handles'
  <1> USE ValueWriterAssumption
  <1> DEFINE n == Len(isArray)
  <1>1. n \in Nat /\ Objects = 1..n
    BY DEF IInv, Shape, Objects
  <1>2. ASSUME UNCHANGED <<isArray, object_stack_, result_>>,
               PropTypes(n, props')
        PROVE  Handles'
    BY <1>2 DEF Handles, Objects, PropTypes, Keys
  <1>3. ASSUME NEW k \in Keys, NEW leaf \in Leaves, at = "value",
               props' = Set(Top(object_stack_), k, <<leaf, None>>),
               UNCHANGED <<isArray, writerVars>>
        PROVE  Handles'
    <2>1. object_stack_ # <<>>
      BY <1>3 DEF IInv, Shape, Depths
    <2>2. Top(object_stack_) \in 1..n
      BY <1>1, <2>1, InnermostIsObject
    <2>3. PropTypes(n, props')
      BY <1>1, <1>3, <2>2, SetTypes DEF Handles
    <2> QED
      BY <1>2, <1>3, <2>3 DEF writerVars
  <1>4. ASSUME NEW kind \in Containers, begin_container(kind) PROVE Handles'
    <2> DEFINE array == kind = "array"
    <2>1. /\ isArray' = Append(isArray, array)
          /\ props' = IF object_stack_ = <<>> THEN props
                      ELSE Set(Top(object_stack_), NextProperty,
                               <<"object", n + 1>>)
          /\ object_stack_' = Append(object_stack_, n + 1)
          /\ result_' = result_
      BY <1>4 DEF begin_container, object_helper
    <2>2. Len(isArray') = n + 1 /\ Objects' = 1..(n + 1) /\ n + 1 \in 1..(n + 1)
      BY <1>1, <2>1, Appended DEF IInv, Shape, Objects
    <2>3. 1..n \subseteq 1..(n + 1) /\ PropTypes(n + 1, props)
      BY <1>1, MoreObjects DEF Handles
    <2>4. object_stack_ \in Seq(1..(n + 1))
      BY <1>1, <2>3 DEF Handles
    <2>5. object_stack_' \in Seq(Objects')
      BY <2>1, <2>2, <2>4, Appended
    <2>6. PropTypes(n + 1, props')
      <3>1. CASE object_stack_ = <<>>
        BY <2>1, <2>3, <3>1
      <3>2. CASE object_stack_ # <<>>
        <4>1. Top(object_stack_) \in 1..(n + 1)
          BY <1>1, <2>3, <3>2, InnermostIsObject
        <4>2. NextProperty \in Keys /\ n + 1 \in Nat
          BY <1>1, NextPropertyType
        <4>3. <<"object", n + 1>> \in {"object"} \X (1..(n + 1))
          BY <2>2
        <4>4. props' = Set(Top(object_stack_), NextProperty, <<"object", n + 1>>)
          BY <2>1, <3>2
        <4>5. PropTypes(n + 1, Set(Top(object_stack_), NextProperty,
                                   <<"object", n + 1>>))
          BY <2>3, <4>1, <4>2, <4>3, SetTypes
        <4> QED
          BY <4>4, <4>5
      <3> QED
        BY <3>1, <3>2
    <2> QED
      BY <1>1, <2>1, <2>2, <2>3, <2>5, <2>6 DEF Handles, PropTypes, Keys
  <1>5. CASE write_value
    BY <1>3, <1>5, NextPropertyType DEF write_value, Sent, Leaves
  <1>6. CASE write_absent_value
    BY <1>3, <1>6 DEF write_absent_value, Sent, Leaves, Numbers
  <1>7. ASSUME UNCHANGED <<v8Vars, writerVars>> PROVE Handles'
    BY <1>2, <1>7 DEF v8Vars, writerVars, Handles
  <1>8. CASE write_fixed
    BY <1>7, <1>8 DEF write_fixed, Sent, v8Vars, writerVars
  <1>9. CASE write_fails \/ begin_stale \/ scope_ends
    BY <1>7, <1>9 DEF write_fails, begin_stale, scope_ends
  <1>10. CASE \/ \E m \in 1..Width : begin_struct_member(m) \/ begin_union_member(m)
              \/ begin_discriminator
              \/ \E idx \in 0..(Width - 1) : begin_element(idx)
    BY <1>2, <1>10
       DEF begin_struct_member, begin_union_member, begin_discriminator,
           begin_element, MovesTo, v8Vars, Handles
  <1>11. CASE end_container
    <2>1. object_stack_ # <<>>
      BY <1>11 DEF end_container, IInv, Shape, Depths
    <2>2. Top(object_stack_) \in Objects /\ Len(object_stack_) > 0
      BY <2>1, InnermostIsObject
    <2>3. Pop(object_stack_) \in Seq(Objects)
      BY <2>2, PoppedOff DEF Handles
    <2> QED
      BY <1>11, <2>2, <2>3
         DEF end_container, Popped, v8Vars, Handles, Objects, PropTypes, Keys
  <1>12. CASE get_result
    <2>1. CASE object_stack_ = <<>> /\ isArray' = <<>> /\ props' = {}
      BY <1>12, <2>1, EmptySeq DEF get_result, Handles, PropTypes
    <2>2. CASE UNCHANGED v8Vars
      BY <1>12, <2>2 DEF get_result, v8Vars, Handles, Objects, PropTypes, Keys
    <2> QED
      BY <1>12, <2>1, <2>2 DEF get_result
  <1> QED
    BY <1>4, <1>5, <1>6, <1>8, <1>9, <1>10, <1>11, <1>12 DEF Next

LEMMA TypeInvariance == Spec => [](Numbers /\ Handles)
  <1> USE ValueWriterAssumption
  <1>1. Init => Numbers /\ Handles
    <2> SUFFICES ASSUME Init PROVE Numbers /\ Handles
      OBVIOUS
    <2>1. <<>> \in Seq([kind : Containers, key : Keys])
      BY EmptySeq
    <2>2. NoKey \in Keys /\ 0 \in 0..(Width - 1) /\ 0 \in 0..MaxSamples
      BY DEF Keys, NoKey, Discriminator
    <2>3. Numbers
      BY <2>1, <2>2 DEF Init, Numbers
    <2>4. Handles
      BY EmptySeq DEF Init, Handles, PropTypes
    <2> QED
      BY <2>3, <2>4
  <1>2. IInv /\ Numbers /\ Handles /\ [Next]_vars => (Numbers /\ Handles)'
    <2>1. CASE UNCHANGED vars
      BY <2>1 DEF vars, v8Vars, writerVars, walkVars, Numbers, Handles, Keys,
                  Objects, PropTypes
    <2> QED
      BY <2>1, NumbersStep, HandlesStep
  <1> QED
    BY <1>1, <1>2, Invariance, PTL DEF Spec

\* The variables keep their types: every handle the writer keeps, and every
\* property of an object, is one of an object that was made.
THEOREM TypeCorrect == Spec => []TypeOK
  <1>1. IInv /\ Numbers /\ Handles => TypeOK
    BY DEF IInv, Shape, Numbers, Handles, TypeOK, PropTypes, Objects
  <1> QED
    BY <1>1, TypeInvariance, Invariance, PTL

\* push_back() is given a value at the end of a sample exactly as long as no
\* write of the subscription has failed: one failure silences it for good.
THEOREM FailureIsForEver == Spec => []NoResultAfterFailure
  <1>1. IInv => NoResultAfterFailure
    BY DEF IInv, Results, NoResultAfterFailure
  <1> QED
    BY <1>1, Invariance, PTL

\* A handle whose scope has ended is used only once a write has failed.
THEOREM StaleOnlyAfterFailure == Spec => []StaleHandlesExplained
  <1>1. IInv => StaleHandlesExplained
    BY DEF IInv, Stale, StaleHandlesExplained
  <1> QED
    BY <1>1, Invariance, PTL

-----------------------------------------------------------------------------
(* The stack follows the walk. An object is put into the one beneath when  *)
(* it is begun, and the link has to last until both are finished: no later *)
(* value may be set at the same key of the same object. It is not, because *)
(* the objects on the stack are different ones (Newer) and only the        *)
(* innermost is written to, and at the walk's key because the writer       *)
(* chooses between next_key_ and next_index_ as the walk does (KindsMatch, *)
(* AtKey).                                                                 *)

\* What failed writes left beneath the containers of the walk.
Extra == Len(object_stack_) - Len(walk)

Links ==
    \A i \in 1..(Len(walk) - 1) :
        <<object_stack_[Extra + i], walk[i].key,
          <<"object", object_stack_[Extra + i + 1]>>>> \in props
Newer ==
    \A i, j \in 1..Len(object_stack_) :
        i < j => object_stack_[i] < object_stack_[j]
KindsMatch ==
    \A i \in 1..Len(walk) :
        isArray[object_stack_[Extra + i]] <=> walk[i].kind = "array"
AtKey ==
    at = "value" =>
        Top(walk).key = IF Top(walk).kind = "array" THEN next_index_
                        ELSE next_key_

LinkInv == Links /\ Newer /\ KindsMatch /\ AtKey
WriterInv == IInv /\ Numbers /\ Handles /\ LinkInv

\* Types and depths as one needs them below.
LEMMA Sizes ==
  ASSUME IInv, Handles
  PROVE  /\ Len(walk) \in Nat /\ Len(object_stack_) \in Nat /\ Extra \in Nat
         /\ Len(object_stack_) = Extra + Len(walk)
         /\ Len(isArray) \in Nat
         /\ \A i \in 1..Len(object_stack_) :
                object_stack_[i] \in 1..Len(isArray)
         /\ at = "value" => Len(walk) > 0
         /\ at = "inside" => Len(walk) > 0
         /\ at \in {"idle", "done", "fault"} => Len(walk) = 0
  <1>1. Len(walk) \in Nat /\ Len(object_stack_) \in Nat /\ Len(isArray) \in Nat
    BY DEF IInv, Shape
  <1>2. \A i \in 1..Len(object_stack_) : object_stack_[i] \in 1..Len(isArray)
    BY DEF Handles, Objects
  <1> QED
    BY <1>1, <1>2 DEF IInv, Depths, Extra

\* The value is written at the key of the walk, and to an object that is not
\* one of the others on the stack.
LEMMA AtTheKey ==
  ASSUME IInv, Handles, LinkInv, at = "value"
  PROVE  NextProperty = Top(walk).key
  <1>1. /\ Len(walk) \in 1..Len(walk)
        /\ object_stack_[Extra + Len(walk)] = Top(object_stack_)
    BY Sizes DEF Top
  <1>2. isArray[Top(object_stack_)] <=> Top(walk).kind = "array"
    BY <1>1 DEF LinkInv, KindsMatch, Top
  <1> QED
    BY <1>2 DEF LinkInv, AtKey, NextProperty

\* Setting a property of the innermost object breaks no link of the others.
LEMMA OuterLinksLast ==
  ASSUME IInv, Handles, LinkInv, NEW k, NEW v,
         NEW i \in 1..(Len(walk) - 1)
  PROVE  <<object_stack_[Extra + i], walk[i].key,
           <<"object", object_stack_[Extra + i + 1]>>>>
           \in Set(Top(object_stack_), k, v)
  <1> DEFINE link == <<object_stack_[Extra + i], walk[i].key,
                       <<"object", object_stack_[Extra + i + 1]>>>>
  <1>1. link \in props
    BY DEF LinkInv, Links
  <1>2. /\ Extra + i \in 1..Len(object_stack_)
        /\ Len(object_stack_) \in 1..Len(object_stack_)
        /\ Extra + i < Len(object_stack_)
    BY Sizes
  <1>3. object_stack_[Extra + i] < Top(object_stack_)
    BY <1>2 DEF LinkInv, Newer, Top
  <1>4. object_stack_[Extra + i] \in Nat
    BY <1>2, Sizes
  <1>5. object_stack_[Extra + i] # Top(object_stack_)
    BY <1>3, <1>4
  <1>6. <<link[1], link[2]>> # <<Top(object_stack_), k>>
    BY <1>5
  <1> QED
    BY <1>1, <1>6 DEF Set

\* A container is begun: within another one it is linked to that at the key of
\* the walk.
LEMMA BeginLinks ==
  ASSUME WriterInv, NEW kind \in Containers, begin_container(kind)
  PROVE  LinkInv'
  <1> USE DEF WriterInv
  <1> DEFINE n == Len(isArray)
             d == Len(object_stack_)
             frame == [kind |-> kind, key |-> NoKey]
  <1>1. /\ at = "idle" \/ at = "value"
        /\ at' = "inside"
        /\ walk' = Append(walk, frame)
        /\ isArray' = Append(isArray, kind = "array")
        /\ object_stack_' = Append(object_stack_, n + 1)
        /\ props' = IF object_stack_ = <<>> THEN props
                    ELSE Set(Top(object_stack_), NextProperty,
                             <<"object", n + 1>>)
    BY DEF begin_container, object_helper, AtMember
  <1>2. /\ walk \in Seq(Frames) /\ isArray \in Seq(BOOLEAN)
        /\ object_stack_ \in Seq(Nat \ {0})
    BY DEF IInv, Shape
  <1>3. n \in Nat /\ d \in Nat /\ Len(walk) \in Nat /\ Extra \in Nat
        /\ d = Extra + Len(walk)
    BY Sizes
  <1>4. /\ Len(walk') = Len(walk) + 1
        /\ \A i \in 1..Len(walk) : walk'[i] = walk[i]
        /\ walk'[Len(walk) + 1] = frame
    BY <1>1, <1>2
  <1>5. /\ Len(object_stack_') = d + 1
        /\ \A i \in 1..d : object_stack_'[i] = object_stack_[i]
        /\ object_stack_'[d + 1] = n + 1
    BY <1>1, <1>2
  <1>6. /\ \A o \in 1..n : isArray'[o] = isArray[o]
        /\ isArray'[n + 1] = (kind = "array")
    BY <1>1, <1>2
  <1>7. Extra' = Extra
    BY <1>3, <1>4, <1>5 DEF Extra
  <1>8. Links'
    <2> SUFFICES ASSUME NEW i \in 1..Len(walk)
                 PROVE  <<object_stack_'[Extra + i], walk'[i].key,
                          <<"object", object_stack_'[Extra + i + 1]>>>>
                          \in props'
      BY <1>3, <1>4, <1>7 DEF Links
    <2>1. /\ Len(walk) > 0 /\ at = "value"
          /\ walk'[i] = walk[i]
          /\ object_stack_'[Extra + i] = object_stack_[Extra + i]
      BY <1>1, <1>3, <1>4, <1>5, Sizes
    <2>2. props' = Set(Top(object_stack_), NextProperty, <<"object", n + 1>>)
      <3>1. object_stack_ # <<>>
        BY <1>3, <2>1
      <3> QED
        BY <1>1, <3>1
    <2>3. CASE i = Len(walk)
      <3>1. /\ object_stack_[Extra + i] = Top(object_stack_)
            /\ walk[i] = Top(walk)
            /\ object_stack_'[Extra + i + 1] = n + 1
        BY <1>3, <1>5, <2>3 DEF Top
      <3>2. NextProperty = Top(walk).key
        BY <2>1, AtTheKey
      <3>3. <<Top(object_stack_), NextProperty, <<"object", n + 1>>>> \in props'
        BY <2>2 DEF Set
      <3> QED
        BY <2>1, <3>1, <3>2, <3>3
    <2>4. CASE i \in 1..(Len(walk) - 1)
      <3>1. object_stack_'[Extra + i + 1] = object_stack_[Extra + i + 1]
        BY <1>3, <1>5, <2>4
      <3> QED
        BY <2>1, <2>2, <2>4, <3>1, OuterLinksLast
    <2> QED
      BY <1>3, <2>3, <2>4
  <1>9. Newer'
    <2> SUFFICES ASSUME NEW i \in 1..(d + 1), NEW j \in 1..(d + 1), i < j
                 PROVE  object_stack_'[i] < object_stack_'[j]
      BY <1>5 DEF Newer
    <2>1. i \in 1..d /\ object_stack_'[i] = object_stack_[i]
      BY <1>3, <1>5
    <2>2. CASE j \in 1..d
      BY <1>5, <2>1, <2>2 DEF LinkInv, Newer
    <2>3. CASE j = d + 1
      <3>1. object_stack_[i] \in 1..n
        BY <2>1, Sizes
      <3> QED
        BY <1>3, <1>5, <2>1, <2>3, <3>1
    <2> QED
      BY <1>3, <2>2, <2>3
  <1>10. KindsMatch'
    <2> SUFFICES ASSUME NEW i \in 1..(Len(walk) + 1)
                 PROVE  isArray'[object_stack_'[Extra + i]]
                          <=> walk'[i].kind = "array"
      BY <1>4, <1>7 DEF KindsMatch
    <2>1. CASE i = Len(walk) + 1
      <3>1. object_stack_'[Extra + i] = n + 1
        BY <1>3, <1>5, <2>1
      <3>2. isArray'[object_stack_'[Extra + i]] = (kind = "array")
        BY <1>6, <3>1
      <3>3. walk'[i].kind = kind
        BY <1>4, <2>1
      <3> QED
        BY <3>2, <3>3
    <2>2. CASE i \in 1..Len(walk)
      <3>1. Extra + i \in 1..d
        BY <1>3, <2>2
      <3>2. /\ object_stack_'[Extra + i] = object_stack_[Extra + i]
            /\ object_stack_[Extra + i] \in 1..n
            /\ walk'[i] = walk[i]
        BY <1>4, <1>5, <2>2, <3>1, Sizes
      <3>3. isArray'[object_stack_[Extra + i]] = isArray[object_stack_[Extra + i]]
        BY <1>6, <3>2
      <3> QED
        BY <2>2, <3>2, <3>3 DEF LinkInv, KindsMatch
    <2> QED
      BY <1>3, <2>1, <2>2
  <1> QED
    BY <1>1, <1>8, <1>9, <1>10 DEF LinkInv, AtKey

\* A member or element is begun, and the writer told of its key.
LEMMA MoveLinks ==
  ASSUME WriterInv, NEW k \in Keys, MovesTo(k), at = "inside",
         k = IF Top(walk).kind = "array" THEN next_index_' ELSE next_key_'
  PROVE  LinkInv'
  <1> USE DEF WriterInv
  <1>1. /\ at' = "value" /\ walk' = [walk EXCEPT ![Len(walk)].key = k]
        /\ UNCHANGED <<isArray, props, object_stack_>>
    BY DEF MovesTo, v8Vars
  <1>2. walk \in Seq(Frames) /\ Len(walk) \in Nat /\ Len(walk) > 0
    BY Sizes DEF IInv, Shape
  <1>3. /\ Len(walk') = Len(walk)
        /\ \A i \in 1..(Len(walk) - 1) : walk'[i] = walk[i]
        /\ \A i \in 1..Len(walk) : walk'[i].kind = walk[i].kind
        /\ walk'[Len(walk)].key = k
    <2>1. walk[Len(walk)] \in Frames
      BY <1>2
    <2>2. walk'[Len(walk)] = [walk[Len(walk)] EXCEPT !.key = k]
      BY <1>1, <1>2
    <2>3. walk'[Len(walk)].key = k /\ walk'[Len(walk)].kind = walk[Len(walk)].kind
      BY <2>1, <2>2 DEF Frames
    <2>4. Len(walk') = Len(walk) /\ \A i \in 1..(Len(walk) - 1) : walk'[i] = walk[i]
      BY <1>1, <1>2
    <2> QED
      BY <1>2, <2>3, <2>4
  <1>4. Extra' = Extra
    BY <1>1, <1>3 DEF Extra
  <1>5. Links'
    BY <1>1, <1>3, <1>4 DEF LinkInv, Links
  <1>6. Newer'
    BY <1>1 DEF LinkInv, Newer
  <1>7. KindsMatch'
    BY <1>1, <1>3, <1>4 DEF LinkInv, KindsMatch
  <1>8. AtKey'
    BY <1>2, <1>3 DEF AtKey, Top
  <1> QED
    BY <1>5, <1>6, <1>7, <1>8 DEF LinkInv

\* A value is set, or none is: the walk and the stack stay.
LEMMA ValueLinks ==
  ASSUME WriterInv, at' # "value",
         UNCHANGED <<isArray, object_stack_, walk>>,
         \/ props' = props
         \/ \E k, v : props' = Set(Top(object_stack_), k, v)
  PROVE  LinkInv'
  <1> USE DEF WriterInv
  <1>1. Extra' = Extra
    BY DEF Extra
  <1>2. Links'
    <2> SUFFICES ASSUME NEW i \in 1..(Len(walk) - 1)
                 PROVE  <<object_stack_[Extra + i], walk[i].key,
                          <<"object", object_stack_[Extra + i + 1]>>>>
                          \in props'
      BY <1>1 DEF Links
    <2>1. CASE props' = props
      BY <2>1 DEF LinkInv, Links
    <2>2. CASE \E k, v : props' = Set(Top(object_stack_), k, v)
      BY <2>2, OuterLinksLast
    <2> QED
      BY <2>1, <2>2
  <1>3. Newer'
    BY DEF LinkInv, Newer
  <1>4. KindsMatch'
    BY <1>1 DEF LinkInv, KindsMatch
  <1> QED
    BY <1>2, <1>3, <1>4 DEF LinkInv, AtKey

\* A container ends, on the stack and in the walk.
LEMMA EndLinks ==
  ASSUME WriterInv, end_container
  PROVE  LinkInv'
  <1> USE DEF WriterInv
  <1>1. /\ at = "inside" /\ at' # "value"
        /\ walk' = Pop(walk) /\ object_stack_' = Pop(object_stack_)
        /\ UNCHANGED <<isArray, props>>
    BY DEF end_container, Popped, v8Vars
  <1>2. /\ walk \in Seq(Frames) /\ object_stack_ \in Seq(Nat \ {0})
        /\ Len(walk) \in Nat \ {0} /\ Len(object_stack_) \in Nat \ {0}
        /\ Extra \in Nat /\ Len(object_stack_) = Extra + Len(walk)
    BY <1>1, Sizes DEF IInv, Shape
  <1>3. /\ Len(walk') = Len(walk) - 1
        /\ \A i \in 1..(Len(walk) - 1) : walk'[i] = walk[i]
    BY <1>1, <1>2, PoppedEntries
  <1>4. /\ Len(object_stack_') = Len(object_stack_) - 1
        /\ \A i \in 1..(Len(object_stack_) - 1) :
               object_stack_'[i] = object_stack_[i]
    <2> DEFINE S == Nat \ {0}
    <2>1. object_stack_ \in Seq(S) /\ Len(object_stack_) > 0
      BY <1>2
    <2> HIDE DEF S
    <2> QED
      BY <1>1, <2>1, PoppedEntries
  <1>5. Extra' = Extra
    BY <1>2, <1>3, <1>4 DEF Extra
  <1>6. Links'
    <2> SUFFICES ASSUME NEW i \in 1..(Len(walk) - 2)
                 PROVE  <<object_stack_'[Extra + i], walk'[i].key,
                          <<"object", object_stack_'[Extra + i + 1]>>>>
                          \in props
      <3>1. Len(walk') - 1 = Len(walk) - 2
        BY <1>2, <1>3
      <3> QED
        BY <1>1, <1>5, <3>1 DEF Links
    <2>1. /\ i \in 1..(Len(walk) - 1)
          /\ Extra + i \in 1..(Len(object_stack_) - 1)
          /\ Extra + i + 1 \in 1..(Len(object_stack_) - 1)
      BY <1>2
    <2> QED
      BY <1>3, <1>4, <2>1 DEF LinkInv, Links
  <1>7. Newer'
    BY <1>2, <1>4 DEF LinkInv, Newer
  <1>8. KindsMatch'
    <2> SUFFICES ASSUME NEW i \in 1..(Len(walk) - 1)
                 PROVE  isArray[object_stack_'[Extra + i]]
                          <=> walk'[i].kind = "array"
      BY <1>1, <1>3, <1>5 DEF KindsMatch
    <2>1. i \in 1..Len(walk) /\ Extra + i \in 1..(Len(object_stack_) - 1)
      BY <1>2
    <2> QED
      BY <1>3, <1>4, <2>1 DEF LinkInv, KindsMatch
  <1> QED
    BY <1>1, <1>6, <1>7, <1>8 DEF LinkInv, AtKey

\* A failed write leaves the stack and ends the walk.
LEMMA FailLinks ==
  ASSUME WriterInv, write_fails
  PROVE  LinkInv'
  <1>1. /\ at' = "idle" /\ walk' = <<>> /\ UNCHANGED object_stack_
    BY DEF write_fails, writerVars
  <1>2. Len(walk') = 0
    BY <1>1
  <1> QED
    BY <1>1, <1>2 DEF WriterInv, LinkInv, Links, Newer, KindsMatch, AtKey

\* The result is taken away: nothing is being walked, and the objects are
\* forgotten only if none is on the stack.
LEMMA TakeLinks ==
  ASSUME WriterInv, get_result
  PROVE  LinkInv'
  <1>1. at = "done" /\ at' = "idle" /\ UNCHANGED <<walk, object_stack_>>
    BY DEF get_result
  <1>2. Len(walk') = 0
    BY <1>1, Sizes DEF WriterInv
  <1> QED
    BY <1>1, <1>2 DEF WriterInv, LinkInv, Links, Newer, KindsMatch, AtKey

LEMMA LinkStep ==
  ASSUME WriterInv, [Next]_vars
  PROVE  LinkInv'
  <1> USE ValueWriterAssumption
  <1>1. NoKey \in Keys /\ Discriminator \in Keys /\ 1..Width \subseteq Keys
        /\ 0..(Width - 1) \subseteq Keys
    BY DEF Keys, NoKey, Discriminator
  <1>2. CASE \E kind \in Containers : begin_container(kind)
    BY <1>2, BeginLinks
  <1>3. ASSUME NEW m \in 1..Width, begin_struct_member(m) \/ begin_union_member(m)
        PROVE  LinkInv'
    BY <1>1, <1>3, MoveLinks DEF begin_struct_member, begin_union_member, Inside
  <1>4. CASE begin_discriminator
    BY <1>1, <1>4, MoveLinks DEF begin_discriminator, Inside
  <1>5. ASSUME NEW idx \in 0..(Width - 1), begin_element(idx) PROVE LinkInv'
    BY <1>1, <1>5, MoveLinks DEF begin_element, Inside
  <1>6. CASE write_value
    BY <1>6, ValueLinks DEF write_value, Sent, writerVars
  <1>7. CASE write_absent_value
    BY <1>7, ValueLinks DEF write_absent_value, Sent, writerVars
  <1>8. CASE write_fixed
    BY <1>8, ValueLinks DEF write_fixed, Sent, writerVars
  <1>9. CASE write_fails
    BY <1>9, FailLinks
  <1>10. CASE end_container
    BY <1>10, EndLinks
  <1>11. CASE get_result
    BY <1>11, TakeLinks
  <1>12. CASE begin_stale
    BY <1>12, ValueLinks DEF begin_stale, v8Vars, writerVars
  <1>13. CASE scope_ends
    BY <1>13, ValueLinks DEF scope_ends, v8Vars, writerVars, walkVars
  <1>14. CASE UNCHANGED vars
    BY <1>14 DEF vars, v8Vars, writerVars, walkVars, WriterInv, LinkInv, Links,
                 Newer, KindsMatch, AtKey, Extra
  <1> QED
    BY <1>2, <1>3, <1>4, <1>5, <1>6, <1>7, <1>8, <1>9, <1>10, <1>11, <1>12,
       <1>13, <1>14 DEF Next

\* All of the writer's invariants together.
THEOREM WriterInvariance == Spec => []WriterInv
  <1>1. Init => LinkInv
    <2> SUFFICES ASSUME Init PROVE LinkInv
      OBVIOUS
    <2>1. walk = <<>> /\ object_stack_ = <<>> /\ at = "idle"
      BY DEF Init
    <2>2. Len(walk) = 0 /\ Len(object_stack_) = 0
      BY <2>1
    <2> QED
      BY <2>1, <2>2 DEF LinkInv, Links, Newer, KindsMatch, AtKey
  <1>2. IInv /\ Numbers /\ Handles /\ LinkInv /\ [Next]_vars => LinkInv'
    BY LinkStep DEF WriterInv
  <1>3. IInv /\ Numbers /\ Handles /\ LinkInv => WriterInv
    BY DEF WriterInv
  <1> QED
    BY <1>1, <1>2, <1>3, TypeInvariance, Invariance, PTL DEF Spec

\* The innermost objects on object_stack_ are the containers OpenDDS has open,
\* each a property of the one beneath under the name or index OpenDDS is at;
\* others lie beneath them exactly if a write has failed.
THEOREM StackIsTheWalk == Spec => []StackFollowsWalk
  <1>1. WriterInv => StackFollowsWalk
    <2> SUFFICES ASSUME WriterInv PROVE StackFollowsWalk
      OBVIOUS
    <2>1. Extra >= 0 /\ (failed <=> Extra > 0)
      BY Sizes DEF WriterInv, IInv, Depths, Extra
    <2> QED
      BY <2>1 DEF WriterInv, LinkInv, Links, StackFollowsWalk, Extra
  <1> QED
    BY <1>1, WriterInvariance, PTL

-----------------------------------------------------------------------------
(* The value JavaScript receives is the sample. Three things are needed:   *)
(* that nothing is sent twice to the same place, because OpenDDS walks the *)
(* members in order (SentInOrder); that the objects are the tree that was  *)
(* sent, which has to be claimed of the unfinished tree too (Tree); and    *)
(* what Below makes of a tree.                                             *)

\* The order of the walk within a container: before the first key, then the
\* discriminator of a union, then members and elements as they are numbered.
Rank(k) == IF k = Discriminator THEN 0 ELSE k

\* Beginnings of a path.
FirstOf(p, j) == [l \in 1..j |-> p[l]]
Parent(p) == FirstOf(p, Len(p) - 1)
WalkedTo(j) == [l \in 1..j |-> walk[l].key]

\* The paths of the objects of a sample, <<>> that of the sample itself.
Nodes == {<<>>} \cup {s[1] : s \in {x \in sent : x[2] \in Containers}}

\* p lies in the walk's i-th container.
Under(p, i) == Len(p) >= i /\ \A l \in 1..(i - 1) : p[l] = walk[l].key

\* The walk is past p in every container it has in common with p, or at p.
Passed(p) ==
    \A i \in 1..Len(walk) :
        Under(p, i) =>
            /\ Rank(p[i]) <= Rank(walk[i].key)
            /\ i = Len(walk) /\ at = "value" => Rank(p[i]) < Rank(walk[i].key)

\* s was sent into an object that was sent before it.
Placed(s) ==
    /\ s[1] \in Seq(Keys) /\ Len(s[1]) \in 1..MaxDepth
    /\ \A j \in 0..(Len(s[1]) - 1) : FirstOf(s[1], j) \in Nodes
    /\ s[2] \in Containers \cup Leaves \cup {"fixed"}

\* What is sent is sent in the order of the walk, each into a container that
\* was sent before.
SentInOrder ==
    /\ Len(walk) <= MaxDepth
    /\ \A i \in 1..Len(walk) : WalkedTo(i - 1) \in Nodes
    /\ \A s \in sent : Placed(s) /\ Passed(s[1])
    /\ at = "idle" => sent = {}

\* The first j entries of a path.
LEMMA FirstOfSeq ==
  ASSUME NEW S, NEW p \in Seq(S), NEW j \in 0..Len(p)
  PROVE  /\ FirstOf(p, j) \in Seq(S) /\ Len(FirstOf(p, j)) = j
         /\ \A l \in 1..j : FirstOf(p, j)[l] = p[l]
  <1>1. \A l \in 1..j : p[l] \in S
    OBVIOUS
  <1> QED
    BY <1>1 DEF FirstOf

\* The path of the walk's containers, to the j-th.
LEMMA WalkedToSeq ==
  ASSUME Numbers, NEW j \in 0..Len(walk)
  PROVE  /\ WalkedTo(j) \in Seq(Keys) /\ Len(WalkedTo(j)) = j
         /\ \A l \in 1..j : WalkedTo(j)[l] = walk[l].key
  <1>1. \A l \in 1..j : walk[l].key \in Keys
    <2>1. \A l \in 1..Len(walk) : walk[l] \in [kind : Containers, key : Keys]
      BY ElementOfSeq DEF Numbers
    <2>2. Len(walk) \in Nat
      BY DEF Numbers
    <2> QED
      BY <2>1, <2>2
  <1> QED
    BY <1>1 DEF WalkedTo

\* The empty path, of the sample itself.
LEMMA NoSteps ==
  /\ WalkedTo(0) = <<>>
  /\ \A p : FirstOf(p, 0) = <<>>
  BY DEF WalkedTo, FirstOf

\* The path of the walk, and the paths that lead to it.
LEMMA PathIs ==
  ASSUME Numbers
  PROVE  /\ Path = WalkedTo(Len(walk))
         /\ Path \in Seq(Keys) /\ Len(Path) = Len(walk)
         /\ \A l \in 1..Len(walk) : Path[l] = walk[l].key
         /\ \A j \in 0..Len(walk) : FirstOf(Path, j) = WalkedTo(j)
  <1>1. Path = WalkedTo(Len(walk))
    BY DEF Path, WalkedTo
  <1>2. Len(walk) \in 0..Len(walk)
    BY DEF Numbers
  <1>3. /\ Path \in Seq(Keys) /\ Len(Path) = Len(walk)
        /\ \A l \in 1..Len(walk) : Path[l] = walk[l].key
    BY <1>1, <1>2, WalkedToSeq
  <1>4. ASSUME NEW j \in 0..Len(walk) PROVE FirstOf(Path, j) = WalkedTo(j)
    <2>1. \A l \in 1..j : Path[l] = walk[l].key
      BY <1>2, <1>3
    <2> QED
      BY <2>1 DEF FirstOf, WalkedTo
  <1> QED
    BY <1>1, <1>3, <1>4

\* The walk is at keys.
LEMMA WalkedKey ==
  ASSUME Numbers, NEW i \in 1..Len(walk)
  PROVE  walk[i].key \in Keys
  <1>1. walk[i] \in [kind : Containers, key : Keys]
    BY ElementOfSeq DEF Numbers
  <1> QED
    BY <1>1

\* Ranks are numbers.
LEMMA RankType == \A k \in Keys : Rank(k) \in Int
  BY ValueWriterAssumption DEF Rank, Keys, Discriminator

\* Where the walk is about to write, nothing has been sent.
LEMMA NewPath ==
  ASSUME Numbers, SentInOrder, at = "value", Len(walk) > 0
  PROVE  Path # <<>> /\ \A s \in sent : s[1] # Path
  <1>1. Path # <<>>
    BY PathIs
  <1>2. ASSUME NEW s \in sent, s[1] = Path PROVE FALSE
    <2>1. Len(walk) \in 1..Len(walk) /\ Under(s[1], Len(walk))
      BY <1>2, PathIs DEF Under, Numbers
    <2>2. Rank(s[1][Len(walk)]) < Rank(walk[Len(walk)].key)
      BY <2>1 DEF SentInOrder, Passed
    <2>3. s[1][Len(walk)] = walk[Len(walk)].key /\ s[1][Len(walk)] \in Keys
      BY <1>2, <2>1, PathIs
    <2> QED
      BY <2>2, <2>3, RankType
  <1> QED
    BY <1>1, <1>2

\* The walk moves on: to a key it has not been at.
LEMMA MoveOrder ==
  ASSUME WriterInv, SentInOrder, NEW k \in Keys, MovesTo(k), at = "inside",
         Rank(Top(walk).key) < Rank(k)
  PROVE  SentInOrder'
  <1> USE DEF WriterInv
  <1>1. /\ at' = "value" /\ walk' = [walk EXCEPT ![Len(walk)].key = k]
        /\ UNCHANGED sent
    BY DEF MovesTo
  <1>2. walk \in Seq(Frames) /\ Len(walk) \in Nat /\ Len(walk) > 0
    BY Sizes DEF IInv, Shape
  <1>3. /\ Len(walk') = Len(walk)
        /\ \A i \in 1..(Len(walk) - 1) : walk'[i] = walk[i]
        /\ walk'[Len(walk)].key = k
    <2>1. walk[Len(walk)] \in Frames
      BY <1>2
    <2>2. walk'[Len(walk)] = [walk[Len(walk)] EXCEPT !.key = k]
      BY <1>1, <1>2
    <2>3. walk'[Len(walk)].key = k
      BY <2>1, <2>2 DEF Frames
    <2> QED
      BY <1>1, <1>2, <2>3
  <1>4. Nodes' = Nodes
    BY <1>1 DEF Nodes
  <1>5. ASSUME NEW i \in 1..Len(walk) PROVE WalkedTo(i - 1)' \in Nodes'
    <2>1. WalkedTo(i - 1)' = WalkedTo(i - 1)
      BY <1>2, <1>3 DEF WalkedTo
    <2> QED
      BY <1>4, <2>1 DEF SentInOrder
  <1>6. ASSUME NEW s \in sent PROVE Placed(s)' /\ Passed(s[1])'
    <2>1. Placed(s)'
      BY <1>4 DEF Placed, SentInOrder
    <2>2. ASSUME NEW i \in 1..Len(walk), Under(s[1], i)'
          PROVE  /\ Rank(s[1][i]) <= Rank(walk'[i].key)
                 /\ i = Len(walk) => Rank(s[1][i]) < Rank(walk'[i].key)
      <3>1. Under(s[1], i)
        BY <1>2, <1>3, <2>2 DEF Under
      <3>2. Rank(s[1][i]) <= Rank(walk[i].key)
        BY <3>1 DEF SentInOrder, Passed
      <3>3. Rank(s[1][i]) \in Int /\ Rank(k) \in Int /\ Rank(walk[i].key) \in Int
        <4>1. i \in 1..Len(s[1]) /\ s[1] \in Seq(Keys)
          BY <1>2, <2>2, <3>1 DEF Under, SentInOrder, Placed
        <4>2. s[1][i] \in Keys /\ walk[i].key \in Keys
          BY <4>1, ElementOfSeq, WalkedKey
        <4> QED
          BY <4>2, RankType
      <3>4. CASE i = Len(walk)
        BY <1>3, <3>2, <3>3, <3>4 DEF Top
      <3>5. CASE i # Len(walk)
        BY <1>2, <1>3, <3>2, <3>5
      <3> QED
        BY <3>4, <3>5
    <2>3. Passed(s[1])'
      BY <1>1, <1>3, <2>2 DEF Passed
    <2> QED
      BY <2>1, <2>3
  <1> QED
    BY <1>1, <1>3, <1>5, <1>6 DEF SentInOrder

\* Where the walk was is where it is, when a value has been sent at its key.
LEMMA SentOrder ==
  ASSUME WriterInv, SentInOrder, NEW kind, at = "value", at' = "inside",
         sent' = sent \cup {<<Path, kind>>},
         kind \in Containers \cup Leaves \cup {"fixed"}
  PROVE  /\ \A p : p \in Nodes' <=>
                   p \in Nodes \/ (kind \in Containers /\ p = Path)
         /\ \A s \in sent' :
                /\ Placed(s)'
                /\ \A i \in 1..Len(walk) :
                       Under(s[1], i) => Rank(s[1][i]) <= Rank(walk[i].key)
         /\ ~ \E s \in sent : /\ Len(s[1]) > Len(walk)
                              /\ \A l \in 1..Len(walk) : s[1][l] = walk[l].key
  <1> USE DEF WriterInv
  <1>1. \A p : p \in Nodes' <=> p \in Nodes \/ (kind \in Containers /\ p = Path)
    <2>1. <<Path, kind>>[1] = Path /\ <<Path, kind>>[2] = kind
      OBVIOUS
    <2> QED
      BY <2>1 DEF Nodes
  <1>2. Len(walk) \in Nat /\ Len(walk) > 0
    BY Sizes
  <1>3. ASSUME NEW s \in sent'
        PROVE  /\ Placed(s)'
               /\ \A i \in 1..Len(walk) :
                      Under(s[1], i) => Rank(s[1][i]) <= Rank(walk[i].key)
    <2>1. CASE s \in sent
      BY <1>1, <2>1 DEF SentInOrder, Placed, Passed
    <2>2. CASE s = <<Path, kind>>
      <3>1. s[1] = Path /\ s[2] = kind
        BY <2>2
      <3>2. /\ Path \in Seq(Keys) /\ Len(Path) = Len(walk)
            /\ Len(Path) \in 1..MaxDepth
        BY <1>2, PathIs, ValueWriterAssumption DEF SentInOrder
      <3>3. \A j \in 0..(Len(Path) - 1) : FirstOf(Path, j) \in Nodes'
        <4> TAKE j \in 0..(Len(Path) - 1)
        <4>1. j + 1 \in 1..Len(walk) /\ j \in 0..Len(walk) /\ (j + 1) - 1 = j
          BY <1>2, <3>2
        <4>2. WalkedTo(j) \in Nodes
          BY <4>1 DEF SentInOrder
        <4>3. FirstOf(Path, j) = WalkedTo(j)
          BY <4>1, PathIs
        <4> QED
          BY <1>1, <4>2, <4>3
      <3>4. \A i \in 1..Len(walk) : Rank(Path[i]) <= Rank(walk[i].key)
        <4> TAKE i \in 1..Len(walk)
        <4>1. Path[i] = walk[i].key /\ walk[i].key \in Keys
          BY PathIs, WalkedKey
        <4>2. Rank(walk[i].key) \in Int
          BY <4>1, RankType
        <4> QED
          BY <4>1, <4>2
      <3>5. Placed(s)'
        BY <3>1, <3>2, <3>3 DEF Placed
      <3> QED
        BY <3>1, <3>4, <3>5
    <2> QED
      BY <2>1, <2>2
  <1>4. ASSUME NEW s \in sent, Len(s[1]) > Len(walk),
               \A l \in 1..Len(walk) : s[1][l] = walk[l].key
        PROVE  FALSE
    <2>1. Len(walk) \in 1..Len(walk) /\ Under(s[1], Len(walk))
      <3>1. Len(s[1]) \in Nat /\ Len(s[1]) >= Len(walk)
        BY <1>2, <1>4 DEF SentInOrder, Placed
      <3> QED
        BY <1>2, <1>4, <3>1 DEF Under
    <2>2. Rank(s[1][Len(walk)]) < Rank(walk[Len(walk)].key)
      BY <2>1 DEF SentInOrder, Passed
    <2>3. s[1][Len(walk)] = walk[Len(walk)].key /\ walk[Len(walk)].key \in Keys
      BY <1>4, <2>1, WalkedKey
    <2> QED
      BY <2>2, <2>3, RankType
  <1> QED
    BY <1>1, <1>3, <1>4

\* A value that is no container is sent.
LEMMA ValueOrder ==
  ASSUME WriterInv, SentInOrder, NEW leaf \in Leaves \cup {"fixed"},
         at = "value", Sent(leaf)
  PROVE  SentInOrder' /\ Nodes' = Nodes
  <1>1. /\ at' = "inside" /\ walk' = walk /\ sent' = sent \cup {<<Path, leaf>>}
    BY DEF Sent
  <1>2. leaf \notin Containers
    BY DEF Leaves, Containers
  <1>3. Nodes' = Nodes
    BY <1>1, <1>2, SentOrder
  <1>4. \A s \in sent' : Placed(s)' /\ Passed(s[1])'
    BY <1>1, SentOrder DEF Passed, Under
  <1>5. \A i \in 1..Len(walk) : WalkedTo(i - 1)' = WalkedTo(i - 1)
    BY <1>1 DEF WalkedTo
  <1> QED
    BY <1>1, <1>3, <1>4, <1>5 DEF SentInOrder

\* A container is begun: its members are still to come.
LEMMA BeginOrder ==
  ASSUME WriterInv, SentInOrder, NEW kind \in Containers, begin_container(kind)
  PROVE  SentInOrder'
  <1> USE DEF WriterInv
  <1> DEFINE frame == [kind |-> kind, key |-> NoKey]
  <1>1. at' = "inside" /\ walk' = Append(walk, frame)
    BY DEF begin_container
  <1>2. walk \in Seq(Frames) /\ Len(walk) \in Nat
    BY Sizes DEF IInv, Shape
  <1>3. /\ Len(walk') = Len(walk) + 1
        /\ \A i \in 1..Len(walk) : walk'[i] = walk[i]
    BY <1>1, <1>2
  <1>4. \A i \in 1..(Len(walk) + 1) : WalkedTo(i - 1)' = WalkedTo(i - 1)
    BY <1>2, <1>3 DEF WalkedTo
  <1>5. CASE at = "idle"
    <2>1. Len(walk) = 0 /\ sent = {} /\ sent' = {}
      BY <1>5, Sizes DEF begin_container, SentInOrder, AtMember
    <2>2. \A i \in 1..(Len(walk) + 1) : WalkedTo(i - 1)' \in Nodes'
      BY <1>4, <2>1, NoSteps DEF Nodes
    <2> QED
      BY <1>1, <1>3, <2>1, <2>2, ValueWriterAssumption DEF SentInOrder
  <1>6. CASE at = "value"
    <2>1. /\ Len(walk) > 0 /\ Len(walk) < MaxDepth
          /\ sent' = sent \cup {<<Path, kind>>}
      BY <1>6, Sizes DEF begin_container, AtMember
    <2>2. \A i \in 1..(Len(walk) + 1) : WalkedTo(i - 1)' \in Nodes'
      <3> TAKE i \in 1..(Len(walk) + 1)
      <3>1. CASE i \in 1..Len(walk)
        BY <1>1, <1>4, <1>6, <2>1, <3>1, SentOrder DEF SentInOrder
      <3>2. CASE i = Len(walk) + 1
        <4>1. WalkedTo(i - 1) = Path
          BY <1>2, <3>2, PathIs
        <4> QED
          BY <1>1, <1>4, <1>6, <2>1, <4>1, SentOrder
      <3> QED
        BY <1>2, <3>1, <3>2
    <2>3. ASSUME NEW s \in sent' PROVE Placed(s)' /\ Passed(s[1])'
      <3>1. Placed(s)'
        BY <1>1, <1>6, <2>1, SentOrder
      <3>2. ASSUME NEW i \in 1..(Len(walk) + 1), Under(s[1], i)'
            PROVE  Rank(s[1][i]) <= Rank(walk'[i].key)
        <4>1. CASE i \in 1..Len(walk)
          <5>1. Under(s[1], i)
            BY <1>2, <1>3, <3>2, <4>1 DEF Under
          <5> QED
            BY <1>1, <1>3, <1>6, <2>1, <4>1, <5>1, SentOrder
        <4>2. CASE i = Len(walk) + 1
          <5>1. Len(s[1]) >= i /\ \A l \in 1..Len(walk) : s[1][l] = walk[l].key
            BY <1>2, <1>3, <3>2, <4>2 DEF Under
          <5>2. s[1] \in Seq(Keys)
            BY <3>1 DEF Placed
          <5>3. Len(s[1]) \in Nat /\ Len(s[1]) > Len(walk)
            BY <1>2, <4>2, <5>1, <5>2
          <5>4. s \notin sent
            BY <1>1, <1>6, <2>1, <5>1, <5>3, SentOrder
          <5>5. s[1] = Path
            BY <2>1, <5>4
          <5> QED
            BY <5>3, <5>5, PathIs
        <4> QED
          BY <1>2, <4>1, <4>2
      <3>3. Passed(s[1])'
        BY <1>1, <1>3, <3>2 DEF Passed
      <3> QED
        BY <3>1, <3>3
    <2>4. Len(walk') <= MaxDepth
      BY <1>2, <1>3, <2>1, ValueWriterAssumption
    <2> QED
      BY <1>1, <1>3, <2>2, <2>3, <2>4 DEF SentInOrder
  <1> QED
    BY <1>5, <1>6 DEF begin_container, AtMember

\* A container ends: the walk goes on in the one around it.
LEMMA EndOrder ==
  ASSUME WriterInv, SentInOrder, end_container
  PROVE  SentInOrder' /\ Nodes' = Nodes
  <1> USE DEF WriterInv
  <1>1. /\ at = "inside" /\ at' # "value" /\ at' # "idle"
        /\ walk' = Pop(walk) /\ sent' = sent
    BY DEF end_container
  <1>2. walk \in Seq(Frames) /\ Len(walk) \in Nat /\ Len(walk) > 0
    BY <1>1, Sizes DEF IInv, Shape
  <1>3. /\ Len(walk') = Len(walk) - 1
        /\ \A i \in 1..(Len(walk) - 1) : walk'[i] = walk[i]
    BY <1>1, <1>2, PoppedEntries
  <1>4. Nodes' = Nodes
    BY <1>1 DEF Nodes
  <1>5. ASSUME NEW i \in 1..(Len(walk) - 1) PROVE WalkedTo(i - 1)' \in Nodes'
    <2>1. WalkedTo(i - 1)' = WalkedTo(i - 1)
      BY <1>2, <1>3 DEF WalkedTo
    <2> QED
      BY <1>2, <1>4, <2>1 DEF SentInOrder
  <1>6. ASSUME NEW s \in sent PROVE Placed(s)' /\ Passed(s[1])'
    <2>1. Placed(s)'
      BY <1>4 DEF Placed, SentInOrder
    <2>2. ASSUME NEW i \in 1..(Len(walk) - 1), Under(s[1], i)'
          PROVE  Rank(s[1][i]) <= Rank(walk'[i].key)
      <3>1. Under(s[1], i)
        BY <1>2, <1>3, <2>2 DEF Under
      <3> QED
        BY <1>2, <1>3, <3>1 DEF SentInOrder, Passed
    <2>3. Passed(s[1])'
      BY <1>1, <1>3, <2>2 DEF Passed
    <2> QED
      BY <2>1, <2>3
  <1>7. Len(walk') <= MaxDepth
    BY <1>2, <1>3, ValueWriterAssumption DEF SentInOrder
  <1> QED
    BY <1>1, <1>3, <1>4, <1>5, <1>6, <1>7 DEF SentInOrder

\* Between samples nothing has been sent.
LEMMA IdleOrder ==
  ASSUME WriterInv, SentInOrder, Len(walk') = 0, sent' = {}
  PROVE  SentInOrder'
  BY ValueWriterAssumption DEF SentInOrder

\* Every step keeps the order of the walk.
LEMMA OrderStep ==
  ASSUME WriterInv, SentInOrder, [Next]_vars
  PROVE  SentInOrder'
  <1> USE ValueWriterAssumption
  <1>1. NoKey \in Keys /\ Discriminator \in Keys /\ 1..Width \subseteq Keys
        /\ 0..(Width - 1) \subseteq Keys
    BY DEF Keys, NoKey, Discriminator
  <1>2. at = "inside" => Top(walk).key \in Keys
    BY Sizes, WalkedKey DEF WriterInv, Top
  <1>3. CASE \E kind \in Containers : begin_container(kind)
    BY <1>3, BeginOrder
  <1>4. ASSUME NEW m \in 1..Width, begin_struct_member(m) \/ begin_union_member(m)
        PROVE  SentInOrder'
    <2>1. Rank(Top(walk).key) < Rank(m)
      BY <1>2, <1>4 DEF begin_struct_member, begin_union_member, Inside, Rank,
                        Keys, Discriminator
    <2> QED
      BY <1>1, <1>4, <2>1, MoveOrder
         DEF begin_struct_member, begin_union_member, Inside
  <1>5. CASE begin_discriminator
    <2>1. Rank(Top(walk).key) < Rank(Discriminator)
      BY <1>5 DEF begin_discriminator, Rank, Discriminator, NoKey
    <2> QED
      BY <1>1, <1>5, <2>1, MoveOrder DEF begin_discriminator, Inside
  <1>6. ASSUME NEW idx \in 0..(Width - 1), begin_element(idx) PROVE SentInOrder'
    <2>1. Rank(Top(walk).key) < Rank(idx)
      BY <1>6 DEF begin_element, Rank, Discriminator
    <2> QED
      BY <1>1, <1>6, <2>1, MoveOrder DEF begin_element, Inside
  <1>7. CASE write_value \/ write_absent_value \/ write_fixed
    BY <1>7, ValueOrder DEF write_value, write_absent_value, write_fixed,
                            AtMember, Leaves
  <1>8. CASE write_fails
    BY <1>8, IdleOrder DEF write_fails
  <1>9. CASE end_container
    BY <1>9, EndOrder
  <1>10. CASE get_result
    BY <1>10, IdleOrder, Sizes DEF get_result, WriterInv
  <1>11. ASSUME UNCHANGED <<walk, sent>>, at' = at \/ at' = "fault"
         PROVE  SentInOrder'
    <2>1. /\ Nodes' = Nodes
          /\ \A i \in 1..Len(walk) : WalkedTo(i - 1)' = WalkedTo(i - 1)
      BY <1>11 DEF Nodes, WalkedTo
    <2>2. \A s \in sent : Placed(s)' /\ Passed(s[1])'
      BY <1>11, <2>1 DEF SentInOrder, Placed, Passed, Under
    <2> QED
      BY <1>11, <2>1, <2>2 DEF SentInOrder
  <1>12. CASE begin_stale
    BY <1>11, <1>12 DEF begin_stale
  <1>13. CASE scope_ends \/ UNCHANGED vars
    BY <1>11, <1>13 DEF scope_ends, vars, walkVars
  <1> QED
    BY <1>3, <1>4, <1>5, <1>6, <1>7, <1>8, <1>9, <1>10, <1>12, <1>13 DEF Next

-----------------------------------------------------------------------------
(* The objects form the tree that was sent. f names the object of every    *)
(* path that is one.                                                       *)

\* Every path of N has an object of its own, and every object a path.
Named(f, N, n) ==
    /\ f \in [N -> 1..n]
    /\ \A x, y \in N : f[x] = f[y] => x = y
    /\ \A o \in 1..n : \E x \in N : f[x] = o

\* What was sent, as a property of the object it belongs to.
ValueOf(f, s) ==
    IF s[2] \in Containers THEN <<"object", f[s[1]]>> ELSE <<s[2], None>>
Property(f, s) == <<f[Parent(s[1])], s[1][Len(s[1])], ValueOf(f, s)>>

\* Arrays are Arrays, structs and unions are not; the properties are what was
\* sent, but for what write_fixed leaves out; and the stack holds the objects
\* of the containers that are open.
Kinds(f) ==
    /\ ~isArray[f[<<>>]]
    /\ \A s \in sent : s[2] \in Containers =>
           (isArray[f[s[1]]] <=> s[2] = "array")
IsProperty(f, e) ==
    \E s \in sent : s[2] # "fixed" /\ e = Property(f, s)
AllSet(f) == \A e : e \in props <=> IsProperty(f, e)
Tree(f) ==
    /\ Named(f, Nodes, Len(isArray))
    /\ Kinds(f)
    /\ AllSet(f)
    /\ \A i \in 1..Len(walk) : f[WalkedTo(i - 1)] = object_stack_[i]
    /\ at = "done" => result_ = f[<<>>]

TreeInv ==
    ~failed =>
        /\ at = "idle" => props = {} /\ isArray = <<>>
        /\ at \in {"inside", "value", "done"} => \E f : Tree(f)

\* No property has been set at the key where the walk is.
LEMMA NothingThere ==
  ASSUME WriterInv, SentInOrder, at = "value", ~failed, NEW f, Tree(f),
         NEW s \in sent, f[Parent(s[1])] = Top(object_stack_),
         s[1][Len(s[1])] = Top(walk).key
  PROVE  FALSE
  <1> USE DEF WriterInv
  <1>1. /\ Len(walk) \in 1..Len(walk) /\ Len(walk) \in Nat
        /\ Len(object_stack_) = Len(walk)
    BY Sizes DEF IInv, Depths
  <1>2. s[1] \in Seq(Keys) /\ Len(s[1]) \in 1..MaxDepth /\ Len(s[1]) \in Nat
    BY ValueWriterAssumption DEF SentInOrder, Placed
  <1>3. Parent(s[1]) \in Nodes /\ WalkedTo(Len(walk) - 1) \in Nodes
    BY <1>1, <1>2 DEF SentInOrder, Placed, Parent
  <1>4. Parent(s[1]) = WalkedTo(Len(walk) - 1)
    BY <1>1, <1>3 DEF Tree, Named, Top
  <1>5. /\ Len(Parent(s[1])) = Len(s[1]) - 1
        /\ \A l \in 1..(Len(s[1]) - 1) : Parent(s[1])[l] = s[1][l]
    <2>1. Len(s[1]) - 1 \in 0..Len(s[1])
      BY <1>2
    <2> QED
      BY <1>2, <2>1, FirstOfSeq DEF Parent
  <1>6. /\ Len(WalkedTo(Len(walk) - 1)) = Len(walk) - 1
        /\ \A l \in 1..(Len(walk) - 1) : WalkedTo(Len(walk) - 1)[l] = walk[l].key
    <2>1. Len(walk) - 1 \in 0..Len(walk)
      BY <1>1
    <2> QED
      BY <1>1, <2>1, WalkedToSeq
  <1>7. Len(s[1]) = Len(walk)
    BY <1>1, <1>2, <1>4, <1>5, <1>6
  <1>8. ASSUME NEW l \in 1..Len(walk) PROVE s[1][l] = walk[l].key
    <2>1. CASE l = Len(walk)
      BY <1>7, <2>1 DEF Top
    <2>2. CASE l \in 1..(Len(walk) - 1)
      BY <1>4, <1>5, <1>6, <1>7, <2>2
    <2> QED
      BY <1>1, <2>1, <2>2
  <1>9. s[1] = Path
    BY <1>2, <1>7, <1>8, PathIs, SeqEqual
  <1> QED
    BY <1>1, <1>9, NewPath

\* One more property, of the innermost object at the key of the walk.
LEMMA OneMore ==
  ASSUME WriterInv, SentInOrder, at = "value", ~failed, NEW f, Tree(f),
         NEW v, NEW e
  PROVE  e \in Set(Top(object_stack_), Top(walk).key, v)
           <=> \/ e \in props
               \/ e = <<Top(object_stack_), Top(walk).key, v>>
  <1>1. ASSUME e \in props,
               <<e[1], e[2]>> = <<Top(object_stack_), Top(walk).key>>
        PROVE  FALSE
    <2>1. PICK s \in sent : e = Property(f, s)
      BY <1>1 DEF Tree, AllSet, IsProperty
    <2>2. e[1] = f[Parent(s[1])] /\ e[2] = s[1][Len(s[1])]
      BY <2>1 DEF Property
    <2>3. e[1] = Top(object_stack_) /\ e[2] = Top(walk).key
      BY <1>1
    <2> QED
      BY <2>2, <2>3, NothingThere
  <1> QED
    BY <1>1 DEF Set

\* The place of a value that is sent: below the innermost object.
LEMMA PlaceOfNext ==
  ASSUME WriterInv, SentInOrder, at = "value", ~failed, NEW f, Tree(f)
  PROVE  /\ Parent(Path) \in Nodes
         /\ f[Parent(Path)] = Top(object_stack_)
         /\ Path[Len(Path)] = Top(walk).key
  <1> USE DEF WriterInv
  <1>1. /\ Len(walk) \in 1..Len(walk) /\ Len(walk) \in Nat
        /\ Len(object_stack_) = Len(walk)
    BY Sizes DEF IInv, Depths
  <1>2. Parent(Path) = WalkedTo(Len(walk) - 1)
    BY <1>1, PathIs DEF Parent
  <1> QED
    BY <1>1, <1>2, PathIs DEF Tree, Top, SentInOrder

\* A value that is no container.
LEMMA LeafTree ==
  ASSUME WriterInv, SentInOrder, TreeInv, at = "value", NEW leaf \in Leaves,
         props' = Set(Top(object_stack_), NextProperty, <<leaf, None>>),
         Sent(leaf)
  PROVE  TreeInv'
  <1> USE DEF WriterInv
  <1> SUFFICES ASSUME ~failed PROVE \E f : Tree(f)'
    BY DEF TreeInv, Sent
  <1>1. PICK f : Tree(f)
    BY DEF TreeInv
  <1>2. /\ at' = "inside" /\ sent' = sent \cup {<<Path, leaf>>}
        /\ UNCHANGED <<isArray, object_stack_, walk>>
    BY DEF Sent, writerVars
  <1>3. leaf \notin Containers /\ leaf # "fixed"
    BY DEF Leaves, Containers
  <1>4. Nodes' = Nodes
    BY ValueOrder
  <1>5. NextProperty = Top(walk).key
    BY AtTheKey
  <1> DEFINE new == <<Path, leaf>>
  <1>6. Property(f, new) = <<Top(object_stack_), Top(walk).key, <<leaf, None>>>>
    BY <1>1, <1>3, PlaceOfNext DEF Property, ValueOf
  <1>7. AllSet(f)'
    <2> SUFFICES ASSUME NEW e PROVE e \in props' <=> IsProperty(f, e)'
      BY DEF AllSet
    <2>1. e \in props' <=> e \in props \/ e = Property(f, new)
      BY <1>1, <1>5, <1>6, OneMore
    <2>2. IsProperty(f, e)' <=> IsProperty(f, e) \/ e = Property(f, new)
      BY <1>2, <1>3 DEF IsProperty, Property, ValueOf
    <2> QED
      BY <1>1, <2>1, <2>2 DEF Tree, AllSet
  <1>8. Kinds(f)'
    BY <1>1, <1>2, <1>3 DEF Tree, Kinds
  <1>9. \A i \in 1..Len(walk) : WalkedTo(i - 1)' = WalkedTo(i - 1)
    BY <1>2 DEF WalkedTo
  <1>10. Tree(f)'
    BY <1>1, <1>2, <1>4, <1>7, <1>8, <1>9 DEF Tree
  <1> QED
    BY <1>10

\* A value of a type that is not written: nothing changes but the walk.
LEMMA FixedTree ==
  ASSUME WriterInv, SentInOrder, TreeInv, at = "value", write_fixed
  PROVE  TreeInv'
  <1> USE DEF WriterInv
  <1> SUFFICES ASSUME ~failed PROVE \E f : Tree(f)'
    BY DEF TreeInv, write_fixed, Sent
  <1>1. PICK f : Tree(f)
    BY DEF TreeInv
  <1>2. /\ at' = "inside" /\ sent' = sent \cup {<<Path, "fixed">>}
        /\ UNCHANGED <<isArray, props, object_stack_, walk>>
    BY DEF write_fixed, Sent, writerVars
  <1>3. "fixed" \notin Containers
    BY DEF Containers
  <1>4. Nodes' = Nodes
    BY ValueOrder DEF write_fixed
  <1>5. AllSet(f)'
    <2> SUFFICES ASSUME NEW e PROVE e \in props' <=> IsProperty(f, e)'
      BY DEF AllSet
    <2>1. IsProperty(f, e)' <=> IsProperty(f, e)
      BY <1>2 DEF IsProperty, Property, ValueOf
    <2> QED
      BY <1>1, <1>2, <2>1 DEF Tree, AllSet
  <1>6. Kinds(f)'
    BY <1>1, <1>2, <1>3 DEF Tree, Kinds
  <1>7. \A i \in 1..Len(walk) : WalkedTo(i - 1)' = WalkedTo(i - 1)
    BY <1>2 DEF WalkedTo
  <1>8. Tree(f)'
    BY <1>1, <1>2, <1>4, <1>5, <1>6, <1>7 DEF Tree
  <1> QED
    BY <1>8

\* M is N with one more path p; g is f on N.
Added(M, N, p) == p \notin N /\ \A x : x \in M <=> x \in N \/ x = p
Kept(g, f, N) == \A x \in N : g[x] = f[x]

\* The object of a path stays, and a new path gets the new object.
LEMMA NewNode ==
  ASSUME NEW N, NEW M, NEW p, Added(M, N, p),
         NEW n \in Nat, NEW f, Named(f, N, n)
  PROVE  \E g : Named(g, M, n + 1) /\ Kept(g, f, N) /\ g[p] = n + 1
  <1> USE DEF Named, Added, Kept
  <1> DEFINE g == [x \in M |-> IF x = p THEN n + 1 ELSE f[x]]
  <1>1. \A x \in N : g[x] = f[x] /\ f[x] \in 1..n
    OBVIOUS
  <1>2. g[p] = n + 1
    OBVIOUS
  <1>3. g \in [M -> 1..(n + 1)]
    <2>1. \A x \in M : (IF x = p THEN n + 1 ELSE f[x]) \in 1..(n + 1)
      <3> TAKE x \in M
      <3>1. CASE x = p
        BY <3>1
      <3>2. CASE x # p
        BY <1>1, <3>2
      <3> QED
        BY <3>1, <3>2
    <2> QED
      BY <2>1
  <1> HIDE DEF g
  <1>4. ASSUME NEW x \in M, NEW y \in M, g[x] = g[y] PROVE x = y
    <2>1. \A z \in N : g[z] # n + 1
      <3> TAKE z \in N
      <3>1. g[z] = f[z] /\ f[z] \in 1..n
        BY <1>1
      <3> QED
        BY <3>1
    <2>2. CASE x \in N /\ y \in N
      BY <1>1, <1>4, <2>2
    <2>3. CASE x = p \/ y = p
      BY <1>2, <1>4, <2>1, <2>3
    <2> QED
      BY <2>2, <2>3
  <1>5. ASSUME NEW o \in 1..(n + 1) PROVE \E x \in M : g[x] = o
    <2>1. CASE o = n + 1
      BY <1>2, <2>1
    <2>2. CASE o \in 1..n
      <3>1. PICK x \in N : f[x] = o
        BY <2>2
      <3> QED
        BY <1>1, <3>1
    <2> QED
      BY <2>1, <2>2
  <1> QED
    BY <1>1, <1>2, <1>3, <1>4, <1>5

\* The object of a new sample.
LEMMA RootTree ==
  ASSUME WriterInv, SentInOrder, TreeInv, NEW kind \in Containers,
         begin_container(kind), at = "idle"
  PROVE  TreeInv'
  <1> USE DEF WriterInv
  <1> SUFFICES ASSUME ~failed PROVE \E f : Tree(f)'
    BY DEF TreeInv, begin_container
  <1>1. /\ Len(walk) = 0 /\ Len(object_stack_) = 0 /\ sent = {}
        /\ props = {} /\ isArray = <<>> /\ kind # "array"
    BY Sizes DEF IInv, Depths, SentInOrder, TreeInv, begin_container, AtMember
  <1>2. object_stack_ = <<>>
    BY <1>1 DEF IInv, Shape
  <1>3. /\ at' = "inside" /\ sent' = {} /\ props' = {}
        /\ walk' = Append(walk, [kind |-> kind, key |-> NoKey])
        /\ isArray' = Append(isArray, FALSE)
        /\ object_stack_' = Append(<<>>, 1)
    <2>1. (kind = "array") = FALSE
      BY <1>1
    <2>2. Len(isArray) + 1 = 1
      BY <1>1
    <2> QED
      BY <1>1, <1>2, <2>1, <2>2 DEF begin_container, object_helper, AtMember
  <1>4. Len(walk') = 1
    BY <1>1, <1>3 DEF IInv, Shape
  <1>5. Len(isArray') = 1 /\ ~isArray'[1]
    BY <1>1, <1>3
  <1>6. object_stack_'[1] = 1
    BY <1>3
  <1> DEFINE f == [p \in {<<>>} |-> 1]
  <1>7. f[<<>>] = 1 /\ f \in [{<<>>} -> {1}]
    OBVIOUS
  <1> HIDE DEF f
  <1>8. Nodes' = {<<>>}
    BY <1>3 DEF Nodes
  <1>9. Named(f, Nodes, Len(isArray))'
    <2>1. Nodes' = {<<>>} /\ Len(isArray') = 1
      BY <1>5, <1>8
    <2>2. Named(f, {<<>>}, 1)
      BY <1>7 DEF Named
    <2> QED
      BY <2>1, <2>2
  <1>10. WalkedTo(0)' = <<>>
    BY DEF WalkedTo
  <1>11. AllSet(f)' /\ Kinds(f)'
    BY <1>3, <1>5, <1>7 DEF AllSet, IsProperty, Kinds
  <1>12. \A i \in 1..Len(walk') : f[WalkedTo(i - 1)'] = object_stack_'[i]
    <2> TAKE i \in 1..Len(walk')
    <2>1. i = 1 /\ i - 1 = 0
      BY <1>4
    <2> QED
      BY <1>6, <1>7, <1>10, <2>1
  <1>13. Tree(f)'
    BY <1>3, <1>9, <1>11, <1>12 DEF Tree
  <1> QED
    BY <1>13

\* A container within another one.
LEMMA NestedTree ==
  ASSUME WriterInv, SentInOrder, TreeInv, NEW kind \in Containers,
         begin_container(kind), at = "value"
  PROVE  TreeInv'
  <1> USE DEF WriterInv
  <1> SUFFICES ASSUME ~failed PROVE \E f : Tree(f)'
    BY DEF TreeInv, begin_container
  <1>1. PICK f : Tree(f)
    BY DEF TreeInv
  <1> DEFINE n == Len(isArray)
             d == Len(walk)
             frame == [kind |-> kind, key |-> NoKey]
             new == <<Path, kind>>
  <1>2. /\ n \in Nat /\ d \in Nat /\ d > 0 /\ Len(object_stack_) = d
        /\ walk \in Seq(Frames) /\ isArray \in Seq(BOOLEAN)
        /\ object_stack_ \in Seq(Nat \ {0})
    BY Sizes DEF IInv, Shape, Depths
  <1>3. /\ at' = "inside"
        /\ sent' = sent \cup {new}
        /\ walk' = Append(walk, frame)
        /\ isArray' = Append(isArray, kind = "array")
        /\ object_stack_' = Append(object_stack_, n + 1)
        /\ props' = Set(Top(object_stack_), NextProperty, <<"object", n + 1>>)
    <2>1. object_stack_ # <<>>
      BY <1>2
    <2> QED
      BY <2>1 DEF begin_container, object_helper, AtMember
  <1>4. /\ Len(isArray') = n + 1
        /\ \A o \in 1..n : isArray'[o] = isArray[o]
        /\ isArray'[n + 1] = (kind = "array")
    BY <1>2, <1>3
  <1>5. /\ Len(walk') = d + 1 /\ \A i \in 1..d : walk'[i] = walk[i]
    BY <1>2, <1>3
  <1>6. /\ \A i \in 1..d : object_stack_'[i] = object_stack_[i]
        /\ object_stack_'[d + 1] = n + 1
    BY <1>2, <1>3
  <1>7. \A p : p \in Nodes' <=> p \in Nodes \/ p = Path
    BY <1>3, SentOrder
  <1>8. Path \notin Nodes
    BY <1>2, NewPath DEF Nodes
  <1>9. Added(Nodes', Nodes, Path) /\ Named(f, Nodes, n)
    BY <1>1, <1>7, <1>8 DEF Added, Tree
  <1>10. PICK g : Named(g, Nodes', n + 1) /\ Kept(g, f, Nodes) /\ g[Path] = n + 1
    BY <1>2, <1>9, NewNode
  <1>11. ASSUME NEW s \in sent PROVE Property(g, s) = Property(f, s)
    <2>1. Parent(s[1]) \in Nodes
      BY ValueWriterAssumption DEF SentInOrder, Placed, Parent
    <2>2. s[2] \in Containers => s[1] \in Nodes
      BY DEF Nodes
    <2> QED
      BY <1>10, <2>1, <2>2 DEF Property, ValueOf, Kept
  <1>12. Property(g, new)
           = <<Top(object_stack_), Top(walk).key, <<"object", n + 1>>>>
    <2>1. g[Parent(Path)] = Top(object_stack_) /\ Path[Len(Path)] = Top(walk).key
      BY <1>1, <1>10, PlaceOfNext DEF Kept
    <2>2. ValueOf(g, new) = <<"object", n + 1>>
      BY <1>10 DEF ValueOf
    <2> QED
      BY <2>1, <2>2 DEF Property
  <1>13. kind # "fixed"
    BY DEF Containers
  <1>14. AllSet(g)'
    <2> SUFFICES ASSUME NEW e PROVE e \in props' <=> IsProperty(g, e)'
      BY DEF AllSet
    <2>1. e \in props' <=> e \in props \/ e = Property(g, new)
      <3>1. NextProperty = Top(walk).key
        BY AtTheKey
      <3> QED
        BY <1>1, <1>3, <1>12, <3>1, OneMore
    <2>2. IsProperty(g, e)' <=> IsProperty(f, e) \/ e = Property(g, new)
      BY <1>3, <1>11, <1>13 DEF IsProperty, Property, ValueOf
    <2> QED
      BY <1>1, <2>1, <2>2 DEF Tree, AllSet
  <1>15. Kinds(g)'
    <2>1. \A x \in Nodes : g[x] = f[x] /\ isArray'[g[x]] = isArray[f[x]]
      BY <1>4, <1>9, <1>10 DEF Kept, Named
    <2>2. <<>> \in Nodes /\ \A s \in sent : s[2] \in Containers => s[1] \in Nodes
      BY DEF Nodes
    <2>3. ~isArray'[g[<<>>]]
      BY <1>1, <2>1, <2>2 DEF Tree, Kinds
    <2>4. ASSUME NEW s \in sent', s[2] \in Containers
          PROVE  isArray'[g[s[1]]] <=> s[2] = "array"
      <3>1. CASE s \in sent
        BY <1>1, <2>1, <2>2, <2>4, <3>1 DEF Tree, Kinds
      <3>2. CASE s = new
        BY <1>4, <1>10, <3>2
      <3> QED
        BY <1>3, <3>1, <3>2
    <2> QED
      BY <2>3, <2>4 DEF Kinds
  <1>16. \A i \in 1..(d + 1) : g[WalkedTo(i - 1)'] = object_stack_'[i]
    <2> TAKE i \in 1..(d + 1)
    <2>1. WalkedTo(i - 1)' = WalkedTo(i - 1)
      BY <1>2, <1>5 DEF WalkedTo
    <2>2. CASE i \in 1..d
      <3>1. WalkedTo(i - 1) \in Nodes /\ f[WalkedTo(i - 1)] = object_stack_[i]
        BY <1>1, <2>2 DEF SentInOrder, Tree
      <3> QED
        BY <1>6, <1>10, <2>1, <2>2, <3>1 DEF Kept
    <2>3. CASE i = d + 1
      <3>1. WalkedTo(i - 1) = Path
        BY <1>2, <2>3, PathIs
      <3> QED
        BY <1>6, <1>10, <2>1, <2>3, <3>1
    <2> QED
      BY <1>2, <2>2, <2>3
  <1>17. Tree(g)'
    BY <1>3, <1>4, <1>5, <1>10, <1>14, <1>15, <1>16 DEF Tree
  <1> QED
    BY <1>17

\* The walk moves on, or a container ends: no object changes.
LEMMA SameTree ==
  ASSUME WriterInv, SentInOrder, TreeInv, at = "inside", at' # "idle",
         UNCHANGED <<isArray, props, sent, failed>>,
         Len(walk') <= Len(walk), Len(walk') \in Nat,
         \A i \in 1..(Len(walk') - 1) : walk'[i].key = walk[i].key,
         \A i \in 1..Len(walk') : object_stack_'[i] = object_stack_[i],
         at' = "done" /\ ~failed => result_' = object_stack_[1]
  PROVE  TreeInv'
  <1> USE DEF WriterInv
  <1> SUFFICES ASSUME ~failed PROVE \E f : Tree(f)'
    BY DEF TreeInv
  <1>1. PICK f : Tree(f)
    BY DEF TreeInv
  <1>2. Nodes' = Nodes
    BY DEF Nodes
  <1>3. Kinds(f)' /\ AllSet(f)'
    BY <1>1 DEF Tree, Kinds, AllSet, IsProperty, Property, ValueOf
  <1>4. \A i \in 1..Len(walk') : f[WalkedTo(i - 1)'] = object_stack_'[i]
    <2> TAKE i \in 1..Len(walk')
    <2>1. WalkedTo(i - 1)' = WalkedTo(i - 1)
      BY DEF WalkedTo
    <2>2. i \in 1..Len(walk)
      BY Sizes
    <2> QED
      BY <1>1, <2>1, <2>2 DEF Tree
  <1>5. f[<<>>] = object_stack_[1]
    <2>1. 1 \in 1..Len(walk)
      BY Sizes
    <2>2. WalkedTo(1 - 1) = <<>>
      BY NoSteps
    <2> QED
      BY <1>1, <2>1, <2>2 DEF Tree
  <1>6. Tree(f)'
    BY <1>1, <1>2, <1>3, <1>4, <1>5 DEF Tree
  <1> QED
    BY <1>6

\* A member or element is begun.
LEMMA MoveTree ==
  ASSUME WriterInv, SentInOrder, TreeInv, NEW k, MovesTo(k), at = "inside"
  PROVE  TreeInv'
  <1>1. /\ at' = "value" /\ walk' = [walk EXCEPT ![Len(walk)].key = k]
        /\ UNCHANGED <<isArray, props, object_stack_, sent, failed>>
    BY DEF MovesTo, v8Vars
  <1>2. walk \in Seq(Frames) /\ Len(walk) \in Nat /\ Len(walk) > 0
    BY Sizes DEF WriterInv, IInv, Shape
  <1>3. /\ Len(walk') = Len(walk)
        /\ \A i \in 1..(Len(walk) - 1) : walk'[i] = walk[i]
    BY <1>1, <1>2
  <1> QED
    BY <1>1, <1>2, <1>3, SameTree

\* A container ends; the outermost becomes the result.
LEMMA EndTree ==
  ASSUME WriterInv, SentInOrder, TreeInv, end_container
  PROVE  TreeInv'
  <1> USE DEF WriterInv
  <1>1. /\ at = "inside" /\ at' = IF Len(walk) = 1 THEN "done" ELSE "inside"
        /\ walk' = Pop(walk) /\ object_stack_' = Pop(object_stack_)
        /\ result_' = IF Len(object_stack_) = 1 THEN Top(object_stack_)
                      ELSE result_
        /\ UNCHANGED <<isArray, props, sent, failed>>
    BY DEF end_container, IsResult, Popped, v8Vars
  <1>2. /\ walk \in Seq(Frames) /\ object_stack_ \in Seq(Nat \ {0})
        /\ Len(walk) \in Nat \ {0} /\ Len(object_stack_) \in Nat \ {0}
        /\ Len(object_stack_) >= Len(walk)
    BY <1>1, Sizes DEF IInv, Shape
  <1>3. /\ Len(walk') = Len(walk) - 1
        /\ \A i \in 1..(Len(walk) - 1) : walk'[i] = walk[i]
    BY <1>1, <1>2, PoppedEntries
  <1>4. \A i \in 1..(Len(object_stack_) - 1) : object_stack_'[i] = object_stack_[i]
    <2> DEFINE S == Nat \ {0}
    <2>1. object_stack_ \in Seq(S) /\ Len(object_stack_) > 0
      BY <1>2
    <2> HIDE DEF S
    <2> QED
      BY <1>1, <2>1, PoppedEntries
  <1>5. at' = "done" /\ ~failed => result_' = object_stack_[1]
    <2> SUFFICES ASSUME at' = "done", ~failed PROVE result_' = object_stack_[1]
      OBVIOUS
    <2>1. Len(walk) = 1
      BY <1>1
    <2>2. Len(object_stack_) = 1
      BY <1>2, <2>1 DEF IInv, Depths
    <2> QED
      BY <1>1, <2>2 DEF Top
  <1>6. /\ Len(walk') \in Nat /\ Len(walk') <= Len(walk) /\ at' # "idle"
    BY <1>1, <1>2, <1>3
  <1>7. \A i \in 1..Len(walk') : /\ i \in 1..(Len(object_stack_) - 1)
                               /\ i \in 1..(Len(walk) - 1)
    BY <1>2, <1>3
  <1>8. /\ \A i \in 1..Len(walk') : object_stack_'[i] = object_stack_[i]
        /\ \A i \in 1..(Len(walk') - 1) : walk'[i].key = walk[i].key
    BY <1>3, <1>4, <1>7
  <1> QED
    BY <1>1, <1>5, <1>6, <1>8, SameTree

\* The result is taken away, and with it all of the objects.
LEMMA TakeTree ==
  ASSUME WriterInv, get_result
  PROVE  TreeInv'
  <1> SUFFICES ASSUME ~failed PROVE props' = {} /\ isArray' = <<>>
    BY DEF TreeInv, get_result
  <1>1. Len(object_stack_) = 0
    BY Sizes DEF WriterInv, IInv, Depths, get_result
  <1>2. object_stack_ = <<>>
    BY <1>1 DEF WriterInv, IInv, Shape
  <1> QED
    BY <1>2 DEF get_result

\* Every step keeps the tree, unless it fails.
LEMMA TreeStep ==
  ASSUME WriterInv, SentInOrder, TreeInv, [Next]_vars
  PROVE  TreeInv'
  <1>1. CASE \E kind \in Containers : begin_container(kind)
    BY <1>1, RootTree, NestedTree DEF begin_container, AtMember
  <1>2. CASE \/ \E m \in 1..Width : begin_struct_member(m) \/ begin_union_member(m)
             \/ begin_discriminator
             \/ \E idx \in 0..(Width - 1) : begin_element(idx)
    BY <1>2, MoveTree DEF begin_struct_member, begin_union_member,
                          begin_discriminator, begin_element, Inside
  <1>3. CASE write_value
    BY <1>3, LeafTree DEF write_value, Leaves
  <1>4. CASE write_absent_value
    <2>1. NextProperty = next_key_
      <3>1. Top(walk).kind # "array" /\ at = "value"
        BY <1>4 DEF write_absent_value
      <3>2. NextProperty = Top(walk).key
        BY <3>1, AtTheKey DEF WriterInv
      <3> QED
        BY <3>1, <3>2 DEF WriterInv, LinkInv, AtKey
    <2> QED
      BY <1>4, <2>1, LeafTree DEF write_absent_value, Leaves
  <1>5. CASE write_fixed
    BY <1>5, FixedTree DEF write_fixed, AtMember
  <1>6. CASE write_fails
    BY <1>6 DEF write_fails, TreeInv
  <1>7. CASE end_container
    BY <1>7, EndTree
  <1>8. CASE get_result
    BY <1>8, TakeTree
  <1>9. CASE begin_stale
    BY <1>9 DEF begin_stale, TreeInv
  <1>10. CASE scope_ends
    BY <1>10 DEF scope_ends, v8Vars, walkVars, TreeInv
  <1>11. CASE UNCHANGED vars
    <2>1. \A f : Tree(f)' <=> Tree(f)
      BY <1>11 DEF vars, v8Vars, writerVars, walkVars, Tree, Kinds, AllSet,
                   IsProperty, Property, ValueOf, Nodes, WalkedTo
    <2> QED
      BY <1>11, <2>1 DEF vars, v8Vars, walkVars, TreeInv
  <1> QED
    BY <1>1, <1>2, <1>3, <1>4, <1>5, <1>6, <1>7, <1>8, <1>9, <1>10, <1>11
       DEF Next

\* In every reachable state the objects are the tree sent so far.
LEMMA TreeInvariance == Spec => [](SentInOrder /\ TreeInv)
  <1>1. Init => SentInOrder /\ TreeInv
    <2> SUFFICES ASSUME Init PROVE SentInOrder /\ TreeInv
      OBVIOUS
    <2>1. walk = <<>> /\ sent = {} /\ at = "idle" /\ props = {} /\ isArray = <<>>
      BY DEF Init
    <2>2. Len(walk) = 0
      BY <2>1
    <2> QED
      BY <2>1, <2>2, ValueWriterAssumption DEF SentInOrder, TreeInv
  <1>2. WriterInv /\ SentInOrder /\ TreeInv /\ [Next]_vars
          => (SentInOrder /\ TreeInv)'
    BY OrderStep, TreeStep
  <1> QED
    BY <1>1, <1>2, WriterInvariance, PTL DEF Spec

---------------------------------------------------------------------
(* What is below an object. Below is recursive; the prover knows of it     *)
(* that it is some function that meets its equation, if there is one. The  *)
(* sample itself gives one (Reach), and by induction on the depth there is *)
(* no other.                                                               *)

\* Induction as the provers can use it: over a set, not over a predicate. The
\* least number missing from the set would be one too many.
LessThan == {p \in Nat \X Nat : p[1] < p[2]}

LEMMA Least ==
  ASSUME NEW T \in SUBSET Nat, T # {}
  PROVE  \E n \in T : \A m \in T : n <= m
  <1>1. IsWellFoundedOn(LessThan, Nat)
    BY NatLessThanWellFounded DEF OpToRel, LessThan
  <1>2. \A m, n \in Nat : <<m, n>> \in LessThan <=> m < n
    BY DEF LessThan
  <1>3. PICK n \in T : \A m \in T : ~ (<<m, n>> \in LessThan)
    BY <1>1, WFMin
  <1>4. \A m \in T : n <= m
    <2> TAKE m \in T
    <2>1. n \in Nat /\ m \in Nat
      OBVIOUS
    <2>2. ~ (<<m, n>> \in LessThan)
      BY <1>3
    <2>3. ~ (m < n)
      BY <1>2, <2>1, <2>2
    <2> QED
      BY <2>1, <2>3
  <1> QED
    BY <1>4

LEMMA UpTo ==
  ASSUME NEW N \in Nat, NEW T, 0 \in T,
         \A n \in 1..N : n - 1 \in T => n \in T
  PROVE  \A n \in 0..N : n \in T
  <1> DEFINE B == {n \in 0..N : n \notin T}
  <1> SUFFICES ASSUME B # {} PROVE FALSE
    OBVIOUS
  <1>1. B \in SUBSET Nat
    OBVIOUS
  <1>2. PICK n \in B : \A m \in B : n <= m
    <2> HIDE DEF B
    <2> QED
      BY <1>1, Least
  <1>3. n \in 1..N /\ n - 1 \in T
    <2>1. n # 0 /\ n \in 0..N
      BY <1>2
    <2>2. n - 1 \in 0..N /\ ~(n <= n - 1)
      BY <2>1
    <2>3. n - 1 \notin B
      BY <2>2, <1>2
    <2> QED
      BY <2>1, <2>2, <2>3
  <1> QED
    BY <1>2, <1>3

\* The equation of Below, one depth of it.
Part(g, n, e) ==
    IF e[3][1] # "object" THEN {<<<<e[2]>>, e[3][1]>>}
    ELSE {<<<<e[2]>>, IF isArray[e[3][2]] THEN "array" ELSE "object">>}
         \cup {<<<<e[2]>> \o b[1], b[2]>> : b \in g[n - 1][e[3][2]]}
Body(g, n, o) ==
    IF n = 0 THEN {} ELSE UNION {Part(g, n, e) : e \in {x \in props : x[1] = o}}
Meets(g) == g = [n \in 0..MaxDepth |-> [o \in Objects |-> Body(g, n, o)]]

\* Below is chosen among the functions that meet it.
LEMMA BelowMeets ==
  ASSUME NEW g, Meets(g)
  PROVE  Meets(Below)
  <1> DEFINE B == CHOOSE h : h =
        [n \in 0..MaxDepth |-> [o \in Objects |->
         IF n = 0 THEN {}
         ELSE UNION
           {IF e[3][1] # "object" THEN {<<<<e[2]>>, e[3][1]>>}
            ELSE {<<<<e[2]>>, IF isArray[e[3][2]] THEN "array" ELSE "object">>}
                 \cup {<<<<e[2]>> \o b[1], b[2]>> : b \in h[n - 1][e[3][2]]}
            : e \in {x \in props : x[1] = o}}]]
             C == CHOOSE h : Meets(h)
  <1>1. Below = B
    BY DEF Below
  <1>2. B = C
    BY DEF Meets, Body, Part
  <1>3. Meets(C)
    OBVIOUS
  <1> HIDE DEF B, C
  <1> QED
    BY <1>1, <1>2, <1>3

\* The kind of a value as JavaScript tells it.
Form(k) == IF k \in {"struct", "union"} THEN "object" ELSE k
Forms == {"object", "array"} \cup Leaves

\* s lies below the path p, at r.
Leads(p, r, s) == s[2] # "fixed" /\ s[1] = p \o r
Reached(f, n, o, x) ==
    /\ x \in Seq(Keys) \X Forms
    /\ Len(x[1]) \in 1..n
    /\ \E s \in sent, p \in Nodes :
           f[p] = o /\ Leads(p, x[1], s) /\ x[2] = Form(s[2])
Reach(f, n, o) == {x \in Seq(Keys) \X Forms : Reached(f, n, o, x)}
Reaches(f) == [n \in 0..MaxDepth |-> [o \in Objects |-> Reach(f, n, o)]]

\* A path is what comes before its last entry, and that entry.
LEMMA SplitLast ==
  ASSUME NEW S, NEW p \in Seq(S), Len(p) > 0
  PROVE  /\ Parent(p) \in Seq(S) /\ p[Len(p)] \in S
         /\ p = Parent(p) \o <<p[Len(p)]>>
  <1>1. Len(p) \in Nat \ {0} /\ Len(p) - 1 \in 0..Len(p) /\ p[Len(p)] \in S
    OBVIOUS
  <1>2. /\ Parent(p) \in Seq(S) /\ Len(Parent(p)) = Len(p) - 1
        /\ \A l \in 1..(Len(p) - 1) : Parent(p)[l] = p[l]
    BY <1>1, FirstOfSeq DEF Parent
  <1>3. <<p[Len(p)]>> \in Seq(S) /\ Len(<<p[Len(p)]>>) = 1
    BY <1>1
  <1> DEFINE q == Parent(p) \o <<p[Len(p)]>>
  <1>4. /\ q \in Seq(S) /\ Len(q) = Len(p)
        /\ \A i \in 1..Len(p) :
               q[i] = IF i <= Len(p) - 1 THEN Parent(p)[i]
                      ELSE <<p[Len(p)]>>[i - (Len(p) - 1)]
    BY <1>1, <1>2, <1>3, ConcatProperties
  <1>5. \A i \in 1..Len(p) : q[i] = p[i]
    <2> TAKE i \in 1..Len(p)
    <2>1. CASE i <= Len(p) - 1
      BY <1>1, <1>2, <1>4, <2>1
    <2>2. CASE i = Len(p)
      BY <1>1, <1>4, <2>2
    <2>3. i <= Len(p) - 1 \/ i = Len(p)
      BY <1>1
    <2> QED
      BY <2>1, <2>2, <2>3
  <1> HIDE DEF q
  <1>6. q = p
    BY <1>4, <1>5, SeqEqual
  <1> QED
    BY <1>1, <1>2, <1>6 DEF q

\* The same with the first entry.
LEMMA SplitFirst ==
  ASSUME NEW S, NEW p \in Seq(S), Len(p) > 0
  PROVE  \E r \in Seq(S) : p = <<p[1]>> \o r /\ Len(r) = Len(p) - 1
  <1> DEFINE r == [i \in 1..(Len(p) - 1) |-> p[i + 1]]
  <1>1. Len(p) \in Nat \ {0} /\ p[1] \in S
    OBVIOUS
  <1>2. \A i \in 1..(Len(p) - 1) : p[i + 1] \in S
    BY <1>1
  <1>3. /\ r \in Seq(S) /\ Len(r) = Len(p) - 1
        /\ \A i \in 1..(Len(p) - 1) : r[i] = p[i + 1]
    BY <1>1, <1>2
  <1>4. <<p[1]>> \in Seq(S) /\ Len(<<p[1]>>) = 1 /\ <<p[1]>>[1] = p[1]
    BY <1>1
  <1> HIDE DEF r
  <1> DEFINE q == <<p[1]>> \o r
  <1>5. /\ q \in Seq(S) /\ Len(q) = Len(p)
        /\ \A i \in 1..Len(p) : q[i] = IF i <= 1 THEN <<p[1]>>[i] ELSE r[i - 1]
    BY <1>1, <1>3, <1>4, ConcatProperties
  <1>6. \A i \in 1..Len(p) : q[i] = p[i]
    <2> TAKE i \in 1..Len(p)
    <2>1. CASE i = 1
      BY <1>1, <1>4, <1>5, <2>1
    <2>2. CASE i # 1
      BY <1>1, <1>3, <1>5, <2>2
    <2> QED
      BY <2>1, <2>2
  <1> HIDE DEF q
  <1>7. q = p
    BY <1>5, <1>6, SeqEqual
  <1> QED
    BY <1>3, <1>7 DEF q

\* A path begins with the one it continues.
LEMMA FirstOfConcat ==
  ASSUME NEW S, NEW p \in Seq(S), NEW r \in Seq(S)
  PROVE  FirstOf(p \o r, Len(p)) = p
  <1> DEFINE q == p \o r
  <1>1. /\ q \in Seq(S) /\ Len(p) \in 0..Len(q)
        /\ \A i \in 1..Len(p) : q[i] = p[i]
    BY ConcatProperties
  <1> HIDE DEF q
  <1>2. /\ FirstOf(q, Len(p)) \in Seq(S) /\ Len(FirstOf(q, Len(p))) = Len(p)
        /\ \A i \in 1..Len(p) : FirstOf(q, Len(p))[i] = p[i]
    BY <1>1, FirstOfSeq
  <1>3. FirstOf(q, Len(p)) = p
    BY <1>2, SeqEqual
  <1> QED
    BY <1>3 DEF q

\* The paths of objects are paths.
LEMMA NodesArePaths ==
  ASSUME SentInOrder
  PROVE  Nodes \subseteq Seq(Keys)
  BY EmptySeq DEF SentInOrder, Placed, Nodes

\* What lies below an object is what lies below its properties: one way ...
LEMMA FromProperty ==
  ASSUME WriterInv, SentInOrder, NEW f, Tree(f),
         NEW n \in 1..MaxDepth, NEW o \in Objects,
         NEW e \in props, e[1] = o, NEW x \in Part(Reaches(f), n, e)
  PROVE  Reached(f, n, o, x)
  <1> USE DEF WriterInv
  <1>1. PICK s \in sent : s[2] # "fixed" /\ e = Property(f, s)
    BY DEF Tree, AllSet, IsProperty
  <1> DEFINE p == Parent(s[1])
             k == s[1][Len(s[1])]
  <1>2. s[1] \in Seq(Keys) /\ Len(s[1]) \in Nat /\ Len(s[1]) > 0
    BY ValueWriterAssumption DEF SentInOrder, Placed
  <1>3. p \in Seq(Keys) /\ k \in Keys /\ s[1] = p \o <<k>>
    BY <1>2, SplitLast
  <1>4. p \in Nodes
    BY <1>2 DEF SentInOrder, Placed, Parent
  <1>5. e[1] = f[p] /\ e[2] = k /\ e[3] = ValueOf(f, s)
    BY <1>1 DEF Property
  <1>6. s[2] \in Containers \cup Leaves
    BY <1>1 DEF SentInOrder, Placed
  <1>7. <<k>> \in Seq(Keys) /\ Len(<<k>>) = 1
    BY <1>3
  <1> HIDE DEF p, k
  <1>8. ASSUME NEW y, y = <<<<k>>, Form(s[2])>>, Form(s[2]) \in Forms
        PROVE  Reached(f, n, o, y)
    <2>1. y[1] = <<k>> /\ y[2] = Form(s[2]) /\ y \in Seq(Keys) \X Forms
      BY <1>7, <1>8
    <2>2. Len(y[1]) \in 1..n
      BY <1>7, <2>1
    <2>3. Leads(p, y[1], s) /\ f[p] = o
      BY <1>1, <1>3, <1>5, <2>1 DEF Leads
    <2> QED
      BY <1>4, <2>1, <2>2, <2>3 DEF Reached
  <1>9. CASE s[2] \notin Containers
    <2>1. e[3] = <<s[2], None>> /\ s[2] \in Leaves
      BY <1>5, <1>6, <1>9 DEF ValueOf
    <2>2. x = <<<<k>>, s[2]>>
      BY <1>5, <2>1 DEF Part, Leaves
    <2>3. Form(s[2]) = s[2] /\ s[2] \in Forms
      BY <2>1 DEF Form, Forms, Leaves
    <2> QED
      BY <1>8, <2>2, <2>3
  <1>10. CASE s[2] \in Containers
    <2>1. e[3] = <<"object", f[s[1]]>> /\ s[1] \in Nodes
      BY <1>5, <1>10 DEF ValueOf, Nodes
    <2>2. isArray[f[s[1]]] <=> s[2] = "array"
      BY <1>10 DEF Tree, Kinds
    <2>3. /\ Form(s[2]) = IF isArray[f[s[1]]] THEN "array" ELSE "object"
          /\ Form(s[2]) \in Forms
      BY <1>10, <2>2 DEF Form, Forms, Containers
    <2>4. f[s[1]] \in Objects /\ n - 1 \in 0..MaxDepth
      BY <2>1, ValueWriterAssumption DEF Tree, Named, Objects
    <2>5. \/ x = <<<<k>>, Form(s[2])>>
          \/ \E b \in Reach(f, n - 1, f[s[1]]) : x = <<<<k>> \o b[1], b[2]>>
      <3>1. Reaches(f)[n - 1][f[s[1]]] = Reach(f, n - 1, f[s[1]])
        BY <2>4 DEF Reaches
      <3>2. e[3][1] = "object" /\ e[3][2] = f[s[1]]
        BY <2>1
      <3> QED
        BY <1>5, <2>3, <3>1, <3>2 DEF Part
    <2>6. CASE \E b \in Reach(f, n - 1, f[s[1]]) : x = <<<<k>> \o b[1], b[2]>>
      <3>1. PICK b \in Reach(f, n - 1, f[s[1]]) : x = <<<<k>> \o b[1], b[2]>>
        BY <2>6
      <3>2. b \in Seq(Keys) \X Forms /\ Len(b[1]) \in 1..(n - 1)
        BY DEF Reach, Reached
      <3>3. PICK t \in sent, q \in Nodes :
                f[q] = f[s[1]] /\ Leads(q, b[1], t) /\ b[2] = Form(t[2])
        BY DEF Reach, Reached
      <3>4. q = s[1]
        BY <2>1, <3>3 DEF Tree, Named
      <3>5. t[1] = p \o (<<k>> \o b[1])
        BY <1>3, <1>7, <3>2, <3>3, <3>4, ConcatAssociative DEF Leads
      <3>6. <<k>> \o b[1] \in Seq(Keys) /\ Len(<<k>> \o b[1]) = 1 + Len(b[1])
        BY <1>7, <3>2, ConcatProperties
      <3>7. Len(<<k>> \o b[1]) \in 1..n
        BY <3>2, <3>6
      <3>8. x[1] = <<k>> \o b[1] /\ x[2] = b[2] /\ x \in Seq(Keys) \X Forms
        BY <3>1, <3>2, <3>6
      <3>9. Leads(p, x[1], t)
        BY <3>3, <3>5, <3>8 DEF Leads
      <3> QED
        BY <1>4, <1>5, <3>3, <3>7, <3>8, <3>9 DEF Reached
    <2> QED
      BY <1>8, <2>3, <2>5, <2>6
  <1> QED
    BY <1>9, <1>10

\* ... and the other.
LEMMA ToProperty ==
  ASSUME WriterInv, SentInOrder, NEW f, Tree(f),
         NEW n \in 1..MaxDepth, NEW o \in Objects,
         NEW x, Reached(f, n, o, x)
  PROVE  \E e \in props : e[1] = o /\ x \in Part(Reaches(f), n, e)
  <1> USE DEF WriterInv
  <1>1. x \in Seq(Keys) \X Forms /\ Len(x[1]) \in 1..n
    BY DEF Reached
  <1>2. PICK s \in sent, p \in Nodes :
            f[p] = o /\ Leads(p, x[1], s) /\ x[2] = Form(s[2])
    BY DEF Reached
  <1>3. /\ x[1] \in Seq(Keys) /\ x = <<x[1], x[2]>>
        /\ Len(x[1]) \in Nat /\ Len(x[1]) > 0 /\ Len(x[1]) <= n
    BY <1>1
  <1>4. p \in Seq(Keys) /\ s[1] = p \o x[1] /\ s[2] # "fixed"
    BY <1>2, NodesArePaths DEF Leads
  <1> DEFINE k == x[1][1]
  <1>5. PICK r \in Seq(Keys) : x[1] = <<k>> \o r /\ Len(r) = Len(x[1]) - 1
    BY <1>3, SplitFirst
  <1>6. k \in Keys /\ <<k>> \in Seq(Keys) /\ Len(<<k>>) = 1
    BY <1>3
  <1> HIDE DEF k
  <1> DEFINE q == p \o <<k>>
  <1>7. /\ q \in Seq(Keys) /\ Len(q) = Len(p) + 1 /\ Len(p) \in Nat
        /\ q[Len(p) + 1] = k /\ s[1] = q \o r
    <2>1. q \in Seq(Keys) /\ Len(q) = Len(p) + 1 /\ Len(p) \in Nat
      BY <1>4, <1>6, ConcatProperties
    <2>2. q[Len(p) + 1] = k
      BY <1>4, <1>6, <2>1, ConcatProperties
    <2>3. s[1] = q \o r
      <3>1. (p \o <<k>>) \o r = p \o (<<k>> \o r)
        BY <1>4, <1>5, <1>6, ConcatAssociative
      <3> QED
        BY <1>4, <1>5, <3>1
    <2> QED
      BY <2>1, <2>2, <2>3
  <1>8. Parent(q) = p
    <2>1. FirstOf(q, Len(p)) = p
      BY <1>4, <1>6, FirstOfConcat
    <2> QED
      BY <1>7, <2>1 DEF Parent
  <1> HIDE DEF q
  <1>9. ASSUME NEW t \in sent, t[1] = q, t[2] # "fixed"
        PROVE  /\ Property(f, t) \in props
               /\ Property(f, t) = <<o, k, ValueOf(f, t)>>
    <2>1. Property(f, t) = <<o, k, ValueOf(f, t)>>
      BY <1>2, <1>7, <1>8, <1>9 DEF Property
    <2>2. IsProperty(f, Property(f, t))
      BY <1>9 DEF IsProperty
    <2> QED
      BY <2>1, <2>2 DEF Tree, AllSet
  <1>10. CASE Len(r) = 0
    <2>1. r = <<>>
      BY <1>10
    <2>2. s[1] = q /\ x[1] = <<k>>
      BY <1>5, <1>6, <1>7, <2>1, ConcatEmptySeq
    <2>3. s[2] \in Containers \cup Leaves
      BY <1>4 DEF SentInOrder, Placed
    <2> DEFINE e == Property(f, s)
    <2>4. e \in props /\ e[1] = o /\ e[2] = k /\ e[3] = ValueOf(f, s)
      BY <1>4, <1>9, <2>2
    <2> HIDE DEF e
    <2>5. x = <<<<e[2]>>, Form(s[2])>>
      BY <1>2, <1>3, <2>2, <2>4
    <2>6. CASE s[2] \notin Containers
      <3>1. e[3][1] = s[2] /\ s[2] # "object" /\ Form(s[2]) = s[2]
        BY <2>3, <2>4, <2>6 DEF ValueOf, Leaves, Form
      <3>2. x \in Part(Reaches(f), n, e)
        BY <2>5, <3>1 DEF Part
      <3> QED
        BY <2>4, <3>2
    <2>7. CASE s[2] \in Containers
      <3>1. e[3][1] = "object" /\ e[3][2] = f[s[1]]
        BY <2>4, <2>7 DEF ValueOf
      <3>2. isArray[f[s[1]]] <=> s[2] = "array"
        BY <2>7 DEF Tree, Kinds
      <3>3. Form(s[2]) = IF isArray[e[3][2]] THEN "array" ELSE "object"
        BY <2>7, <3>1, <3>2 DEF Form, Containers
      <3>4. x \in Part(Reaches(f), n, e)
        BY <2>5, <3>1, <3>3 DEF Part
      <3> QED
        BY <2>4, <3>4
    <2> QED
      BY <2>6, <2>7
  <1>11. CASE Len(r) # 0
    <2>1. Len(r) \in 1..(n - 1)
      BY <1>3, <1>5, <1>11
    <2>2. q \in Nodes
      <3>1. Len(s[1]) = Len(q) + Len(r)
        BY <1>7, ConcatProperties
      <3>2. Len(q) \in 0..(Len(s[1]) - 1)
        BY <1>7, <2>1, <3>1
      <3>3. FirstOf(s[1], Len(q)) \in Nodes
        BY <3>2 DEF SentInOrder, Placed
      <3> QED
        BY <1>7, <3>3, FirstOfConcat
    <2>3. q # <<>>
      BY <1>7
    <2>4. PICK t \in sent : t[2] \in Containers /\ t[1] = q
      BY <2>2, <2>3 DEF Nodes
    <2> DEFINE e == Property(f, t)
               b == <<r, x[2]>>
    <2>5. t[2] # "fixed"
      BY <2>4 DEF Containers
    <2>6. /\ e \in props /\ e[1] = o /\ e[2] = k
          /\ e[3] = <<"object", f[q]>>
      BY <1>9, <2>4, <2>5 DEF ValueOf
    <2>7. f[q] \in Objects /\ n - 1 \in 0..MaxDepth
      BY <2>2, ValueWriterAssumption DEF Tree, Named, Objects
    <2>8. b \in Reach(f, n - 1, f[q])
      <3>1. b \in Seq(Keys) \X Forms /\ b[1] = r /\ b[2] = x[2]
        BY <1>1
      <3>2. Leads(q, b[1], s)
        BY <1>4, <1>7, <3>1 DEF Leads
      <3> QED
        BY <1>2, <2>1, <2>2, <3>1, <3>2 DEF Reach, Reached
    <2>9. x = <<<<e[2]>> \o b[1], b[2]>>
      BY <1>3, <1>5, <2>6
    <2> HIDE DEF e, b
    <2>10. x \in Part(Reaches(f), n, e)
      BY <2>6, <2>7, <2>8, <2>9 DEF Part, Reaches
    <2> QED
      BY <2>6, <2>10
  <1> QED
    BY <1>10, <1>11

\* So the sample meets the equation.
LEMMA SampleMeets ==
  ASSUME WriterInv, SentInOrder, NEW f, Tree(f)
  PROVE  Meets(Reaches(f))
  <1>1. ASSUME NEW n \in 0..MaxDepth, NEW o \in Objects
        PROVE  Reach(f, n, o) = Body(Reaches(f), n, o)
    <2>1. CASE n = 0
      BY <2>1 DEF Reach, Reached, Body
    <2>2. CASE n # 0
      <3>1. n \in 1..MaxDepth
        BY <2>2, ValueWriterAssumption
      <3>2. ASSUME NEW x PROVE x \in Reach(f, n, o) <=> Reached(f, n, o, x)
        BY DEF Reach, Reached
      <3>3. ASSUME NEW x
            PROVE  x \in Body(Reaches(f), n, o)
                     <=> \E e \in props : /\ e[1] = o
                                          /\ x \in Part(Reaches(f), n, e)
        BY <2>2 DEF Body
      <3>4. ASSUME NEW x
            PROVE  x \in Reach(f, n, o) <=> x \in Body(Reaches(f), n, o)
        BY <3>1, <3>2, <3>3, FromProperty, ToProperty
      <3> QED
        BY <3>4
    <2> QED
      BY <2>1, <2>2
  <1> QED
    BY <1>1 DEF Meets, Reaches

\* The equation at one depth and one object.
LEMMA Entry ==
  ASSUME NEW g, Meets(g), NEW n \in 0..MaxDepth, NEW o \in Objects
  PROVE  g[n][o] = Body(g, n, o)
  <1> DEFINE F == [m \in 0..MaxDepth |-> [p \in Objects |-> Body(g, m, p)]]
  <1>1. g = F
    BY DEF Meets
  <1>2. F[n][o] = Body(g, n, o)
    OBVIOUS
  <1> HIDE DEF F
  <1> QED
    BY <1>1, <1>2

\* And whatever meets it is the same, depth by depth.
LEMMA OnlyOne ==
  ASSUME WriterInv, NEW g, Meets(g), NEW h, Meets(h)
  PROVE  \A n \in 0..MaxDepth : \A o \in Objects : g[n][o] = h[n][o]
  <1> DEFINE T == {n \in 0..MaxDepth : \A o \in Objects : g[n][o] = h[n][o]}
  <1>1. \A n \in 0..MaxDepth, o \in Objects :
            g[n][o] = Body(g, n, o) /\ h[n][o] = Body(h, n, o)
    BY Entry
  <1>2. 0 \in 0..MaxDepth /\ MaxDepth \in Nat
    BY ValueWriterAssumption
  <1>3. 0 \in T
    BY <1>1, <1>2 DEF Body
  <1>4. ASSUME NEW n \in 1..MaxDepth, n - 1 \in T PROVE n \in T
    <2>1. \A p \in Objects : g[n - 1][p] = h[n - 1][p]
      BY <1>4
    <2>2. ASSUME NEW e \in props PROVE Part(g, n, e) = Part(h, n, e)
      <3>1. e[3] \in (Leaves \X {None}) \cup ({"object"} \X Objects)
        BY DEF WriterInv, Handles, PropTypes, Objects
      <3>2. e[3][1] = "object" => e[3][2] \in Objects
        BY <3>1 DEF Leaves
      <3> QED
        BY <2>1, <3>2 DEF Part
    <2>3. \A o \in Objects : Body(g, n, o) = Body(h, n, o)
      BY <2>2 DEF Body
    <2>4. n \in 0..MaxDepth
      BY <1>2
    <2> QED
      BY <1>1, <2>3, <2>4
  <1> HIDE DEF T
  <1>5. \A n \in 0..MaxDepth : n \in T
    BY <1>2, <1>3, <1>4, UpTo
  <1> QED
    BY <1>5 DEF T

\* At the end of a sample the walk is back at its object, whose properties are
\* all that was sent.
LEMMA ResultHolds ==
  ASSUME WriterInv, SentInOrder, TreeInv, at = "done", ~failed
  PROVE  result_ # None /\ Below[MaxDepth][result_] = Wanted
  <1>1. PICK f : Tree(f)
    BY DEF TreeInv
  <1>2. <<>> \in Nodes /\ result_ = f[<<>>] /\ result_ \in Objects
    BY <1>1 DEF Tree, Named, Nodes, Objects
  <1>3. result_ # None
    BY <1>2 DEF Objects, None
  <1>4. Meets(Reaches(f)) /\ Meets(Below)
    BY <1>1, SampleMeets, BelowMeets
  <1>5. MaxDepth \in 0..MaxDepth
    BY ValueWriterAssumption
  <1>6. Below[MaxDepth][result_] = Reaches(f)[MaxDepth][result_]
    BY <1>2, <1>4, <1>5, OnlyOne
  <1>7. Reaches(f)[MaxDepth][result_] = Reach(f, MaxDepth, result_)
    BY <1>2, <1>5 DEF Reaches
  <1>8. ASSUME NEW x PROVE x \in Reach(f, MaxDepth, result_) <=> x \in Wanted
    <2>1. x \in Wanted
            <=> \E s \in sent : s[2] # "fixed" /\ x = <<s[1], Form(s[2])>>
      BY DEF Wanted, Form
    <2>2. ASSUME x \in Reach(f, MaxDepth, result_) PROVE x \in Wanted
      <3>1. PICK s \in sent, p \in Nodes :
                f[p] = result_ /\ Leads(p, x[1], s) /\ x[2] = Form(s[2])
        BY <2>2 DEF Reach, Reached
      <3>2. p = <<>>
        BY <1>1, <1>2, <3>1 DEF Tree, Named
      <3>3. x \in Seq(Keys) \X Forms
        BY <2>2 DEF Reach
      <3>4. s[1] = x[1] /\ s[2] # "fixed"
        BY <3>1, <3>2, <3>3, ConcatEmptySeq DEF Leads
      <3>5. x = <<s[1], Form(s[2])>>
        BY <3>1, <3>3, <3>4
      <3> QED
        BY <2>1, <3>4, <3>5
    <2>3. ASSUME NEW s \in sent, s[2] # "fixed", x = <<s[1], Form(s[2])>>
          PROVE  x \in Reach(f, MaxDepth, result_)
      <3>1. /\ s[1] \in Seq(Keys) /\ Len(s[1]) \in 1..MaxDepth
            /\ s[2] \in Containers \cup Leaves
        BY <2>3 DEF SentInOrder, Placed
      <3>2. Form(s[2]) \in Forms
        BY <3>1 DEF Form, Forms, Containers, Leaves
      <3>3. Leads(<<>>, s[1], s)
        BY <2>3, <3>1, ConcatEmptySeq DEF Leads
      <3> QED
        BY <1>2, <2>3, <3>1, <3>2, <3>3 DEF Reach, Reached
    <2> QED
      BY <2>1, <2>2, <2>3
  <1>9. Reach(f, MaxDepth, result_) = Wanted
    BY <1>8
  <1> QED
    BY <1>3, <1>6, <1>7, <1>9

\* What push_back() is given has the shape and the values of the sample, until
\* a write of the subscription fails: for samples of any width, depth and size,
\* and however many came before.
THEOREM ResultIsTheSample == Spec => []ResultIsSample
  <1>1. WriterInv /\ SentInOrder /\ TreeInv => ResultIsSample
    BY ResultHolds DEF ResultIsSample
  <1> QED
    BY <1>1, WriterInvariance, TreeInvariance, PTL
=============================================================================
