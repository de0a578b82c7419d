----------------------- MODULE NodeValueReaderProofs -----------------------
(***************************************************************************)
(* Proofs about NodeValueReader for types and values of any size, depth    *)
(* and number of names: every value is read from its own place, the two    *)
(* ways to look one up agree, V8 is misused only by a value that does not  *)
(* fit, a value is given up in the middle of the walk exactly if it lacks  *)
(* something, and all of a container is read, in order.                    *)
(*                                                                         *)
(* IInv relates each open container of the walk to the object that the     *)
(* reader stacked for it, ReadInv what was read of the container to the    *)
(* index stacked with the object.                                          *)
(***************************************************************************)
EXTENDS NodeValueReader, SequenceTheorems, FiniteSetTheorems, TLAPS

Lists == {"array", "sequence"}
Stopped == {"failed", "unsupported", "crashed"}
Ats == {"inside", "value", "item", "end", "done"} \cup Stopped

Shape ==
    /\ walk \in Seq(Frames)
    /\ object_stack_ \in Seq(Objects) /\ index_stack_ \in Seq(Nat)
    /\ Len(walk) = Len(object_stack_) + 1
    /\ Len(index_stack_) = Len(object_stack_)
    /\ current_object_ \in Objects /\ current_index_ \in Nat
    /\ current_property_name_ \in Key \cup {NoName}
    /\ flaw \in BOOLEAN /\ at \in Ats

\* A key of the walk and the key in the value that it is read from.
Matches(f, k) ==
    \/ f.key = k
    \/ f.kind = "union" /\ Discriminator \notin {f.key, k}

\* Object o is in place for depth d of the walk w.
InPlace(w, d, o) ==
    /\ Len(o.path) = d - 1
    /\ \A i \in 1..(d - 1) : Matches(w[i], o.path[i])

\* Container f and object o at depth d: what the reader relies on.
Fits(d, f, o) ==
    /\ f.kind = "top" <=> d = 1
    /\ d # 1 => o.keys \in Seq(IF o.array THEN Nat ELSE Key)
    /\ f.kind = "union" /\ f.key # NoName => ~o.array

\* The containers around the innermost one.
Outer ==
    \A d \in 1..Len(object_stack_) :
        /\ InPlace(walk, d, object_stack_[d])
        /\ Fits(d, walk[d], object_stack_[d])
        /\ walk[d].kind \in Lists => index_stack_[d] = walk[d].key

\* The innermost one, without its cursor.
Inner ==
    /\ InPlace(walk, Len(walk), current_object_)
    /\ Fits(Len(walk), Top(walk), current_object_)
    /\ Len(walk) # 1 => /\ use_name_ = ~current_object_.array
                        /\ property_names_ = current_object_.keys

CursorAtTop ==
    Len(walk) = 1 =>
        /\ at \in {"value", "done"} \cup Stopped
        /\ at = "value" => /\ ~use_name_ /\ current_index_ = 0
                           /\ Top(walk).key = 0
                           /\ current_property_name_ = NoName

CursorInList ==
    Top(walk).kind \in Lists =>
        /\ current_property_name_ = NoName
        /\ at \in {"value", "item"} => current_index_ = Top(walk).key
        /\ at = "inside" => current_index_ = NextElement

CursorByName ==
    Top(walk).kind \in {"struct", "union"} /\ at = "value" =>
        /\ ~current_object_.array
        /\ current_property_name_ \in Key
        /\ Matches(Top(walk), current_property_name_)

CursorInUnion ==
    /\ at = "inside" /\ Top(walk).kind = "union"
    /\ Top(walk).key \in {NoName, Discriminator}
    => current_index_ = 0

Flaws ==
    /\ at = "failed" => flaw
    /\ at = "crashed" => flaw \/ Misshapen
    /\ flaw => at \in {"failed", "crashed"}

Own ==
    \A g \in got :
        /\ Len(g[1]) = Len(g[2])
        /\ \A i \in 1..Len(g[1]) : Matches(g[1][i], g[2][i])

Cursor == CursorAtTop /\ CursorInList /\ CursorByName /\ CursorInUnion
IInv == Shape /\ Outer /\ Inner /\ Cursor /\ Flaws /\ Own

USE DEF Lists, Stopped, Ats

-----------------------------------------------------------------------------
(* Sequences.                                                              *)

\* What Append does to a sequence.
LEMMA Appended ==
  ASSUME NEW S, NEW s \in Seq(S), NEW e \in S
  PROVE  /\ Append(s, e) \in Seq(S) /\ Len(Append(s, e)) = Len(s) + 1
         /\ \A i \in 1..Len(s) : Append(s, e)[i] = s[i]
         /\ Append(s, e)[Len(s) + 1] = e
  OBVIOUS

\* The last element of a sequence and the rest.
LEMMA PoppedOff ==
  ASSUME NEW S, NEW s \in Seq(S), Len(s) > 0
  PROVE  /\ Pop(s) \in Seq(S) /\ Len(Pop(s)) = Len(s) - 1
         /\ \A i \in 1..(Len(s) - 1) : Pop(s)[i] = s[i]
         /\ Top(s) \in S /\ Top(s) = s[Len(s)]
  <1> DEFINE n == Len(s) - 1
  <1>1. n \in Nat /\ Len(s) = n + 1
    OBVIOUS
  <1>2. Top(s) = s[Len(s)] /\ Top(s) \in S
    BY DEF Top
  <1>3. \A i \in 1..n : s[i] \in S
    BY <1>1
  <1>4. /\ Pop(s) \in Seq(S)
        /\ Len(Pop(s)) = IF 1 <= n THEN n - 1 + 1 ELSE 0
        /\ \A i \in 1..(n - 1 + 1) : Pop(s)[i] = s[1 + i - 1]
    BY <1>1, <1>3, SubSeqProperties DEF Pop
  <1>5. (IF 1 <= n THEN n - 1 + 1 ELSE 0) = n /\ n - 1 + 1 = n
    BY <1>1
  <1>6. \A i \in 1..n : Pop(s)[i] = s[i]
    <2> TAKE i \in 1..n
    <2>1. 1 + i - 1 = i /\ i \in 1..(n - 1 + 1)
      BY <1>1
    <2> QED
      BY <1>4, <2>1, Zenon
  <1> QED
    BY <1>2, <1>4, <1>5, <1>6

\* The walk moves on within its innermost container.
MovedTo(s, k) == [s EXCEPT ![Len(s)].key = k]

LEMMA Moved ==
  ASSUME NEW s \in Seq(Frames), Len(s) > 0, NEW k \in Key \cup {NoName}
  PROVE  /\ MovedTo(s, k) \in Seq(Frames) /\ Len(MovedTo(s, k)) = Len(s)
         /\ \A i \in 1..(Len(s) - 1) : MovedTo(s, k)[i] = s[i]
         /\ Top(MovedTo(s, k)).kind = Top(s).kind
         /\ Top(MovedTo(s, k)).key = k
  <1>1. s[Len(s)] \in Frames
    OBVIOUS
  <1>2. /\ [s[Len(s)] EXCEPT !.key = k] \in Frames
        /\ [s[Len(s)] EXCEPT !.key = k].key = k
        /\ [s[Len(s)] EXCEPT !.key = k].kind = s[Len(s)].kind
    BY <1>1 DEF Frames
  <1> QED
    BY <1>2 DEF Top, MovedTo

-----------------------------------------------------------------------------
(* What a read finds.                                                      *)

LEMMA KeysDiffer ==
  /\ Names \subseteq Key /\ Nat \subseteq Key /\ NoName \notin Key
  /\ Discriminator \in Names /\ Members \subseteq Names
  /\ \A n \in Nat : n \notin Names
  BY NamesAssumption DEF Names, Key

\* The innermost container of the walk.
LEMMA TopFrame ==
  ASSUME Shape
  PROVE  /\ Len(walk) \in Nat \ {0} /\ Top(walk) = walk[Len(walk)]
         /\ Top(walk) \in Frames
         /\ Top(walk).kind \in {"top", "struct", "union", "array", "sequence"}
         /\ Top(walk).key \in Key \cup {NoName}
  <1>1. Len(walk) \in Nat \ {0}
    BY DEF Shape
  <1>2. Top(walk) = walk[Len(walk)] /\ Top(walk) \in Frames
    BY <1>1 DEF Shape, Top
  <1> QED
    BY <1>1, <1>2 DEF Frames, Kinds

\* An empty name is looked up only in an Object read as a list.
LEMMA NoNameIsMisshapen ==
  ASSUME IInv, at = "value", Found = NoName
  PROVE  Misshapen
  <1> USE DEF IInv, Cursor
  <1>1. Len(walk) # 1
    BY KeysDiffer DEF CursorAtTop, Found
  <1>2. /\ use_name_ = ~current_object_.array
        /\ Top(walk).kind # "top"
    BY <1>1 DEF Inner, Fits
  <1>3. Top(walk).kind \in {"struct", "union"} => FALSE
    BY <1>2, KeysDiffer DEF CursorByName, Found
  <1>4. Top(walk).kind \in Lists
    BY <1>2, <1>3, TopFrame
  <1>5. ~current_object_.array
    BY <1>2, KeysDiffer DEF Found, Shape
  <1> QED
    BY <1>4, <1>5 DEF Misshapen

\* Any other key is that of the walk.
LEMMA FoundMatches ==
  ASSUME IInv, at = "value", Found # NoName
  PROVE  Found \in Key /\ Matches(Top(walk), Found)
  <1> USE DEF IInv, Cursor
  <1>1. CASE Len(walk) = 1
    <2>1. Found = 0 /\ Top(walk).key = 0
      BY <1>1 DEF CursorAtTop, Found
    <2> QED
      BY <2>1, KeysDiffer DEF Matches
  <1>2. CASE Len(walk) # 1
    <2>1. /\ use_name_ = ~current_object_.array
          /\ Top(walk).kind # "top"
      BY <1>2 DEF Inner, Fits
    <2>2. CASE Top(walk).kind \in {"struct", "union"}
      BY <2>1, <2>2 DEF CursorByName, Found
    <2>3. CASE Top(walk).kind \in Lists
      <3>1. ~use_name_ /\ Found = current_index_
        BY <2>1, <2>3 DEF CursorInList, Found
      <3>2. Top(walk).key = current_index_ /\ current_index_ \in Nat
        BY <2>3 DEF CursorInList, Shape
      <3> QED
        BY <3>1, <3>2, KeysDiffer DEF Matches
    <2> QED
      BY <2>1, <2>2, <2>3, TopFrame
  <1> QED
    BY <1>1, <1>2

\* The other way to look up has the same key, or in an Object read as a list
\* an index, and that is the key of the walk too.
LEMMA PrimitiveIsFound ==
  ASSUME IInv, at = "value", Top(walk).kind # "top"
  PROVE  /\ Found = FoundPrimitive \/ Misshapen
         /\ FoundPrimitive \in Key /\ Matches(Top(walk), FoundPrimitive)
  <1> USE DEF IInv, Cursor
  <1>1. Len(walk) # 1
    BY DEF Inner, Fits
  <1>2. use_name_ = ~current_object_.array
    BY <1>1 DEF Inner
  <1>3. CASE Top(walk).kind \in {"struct", "union"}
    BY <1>2, <1>3, KeysDiffer DEF CursorByName, Found, FoundPrimitive
  <1>4. CASE Top(walk).kind \in Lists
    <2>1. /\ FoundPrimitive = current_index_ /\ Top(walk).key = current_index_
          /\ current_index_ \in Key
      BY <1>4, KeysDiffer DEF CursorInList, FoundPrimitive, Shape
    <2>2. current_object_.array => Found = current_index_
      BY <1>2 DEF Found
    <2> QED
      BY <1>4, <2>1, <2>2 DEF Matches, Misshapen
  <1> QED
    BY <1>3, <1>4, TopFrame

-----------------------------------------------------------------------------
(* What the steps have in common.                                          *)

LEMMA InitInv == Init => IInv
  <1> SUFFICES ASSUME Init PROVE IInv
    OBVIOUS
  <1> DEFINE object == [array |-> FALSE, keys |-> <<0>>, path |-> <<>>]
             frame0 == [kind |-> "top", key |-> 0]
  <1>1. /\ current_object_ = object /\ walk = <<frame0>>
        /\ object_stack_ = <<>> /\ index_stack_ = <<>>
        /\ current_index_ = 0 /\ current_property_name_ = NoName
        /\ use_name_ = FALSE /\ flaw = FALSE /\ at = "value" /\ got = {}
    BY DEF Init
  <1>2. frame0 \in Frames /\ object \in Objects
    BY KeysDiffer DEF Frames, Objects
  <1>3. walk \in Seq(Frames) /\ Len(walk) = 1 /\ walk[1] = frame0
    BY <1>1, <1>2
  <1>4. Top(walk) = frame0
    BY <1>3 DEF Top
  <1>5. Shape
    <2>1. /\ object_stack_ \in Seq(Objects) /\ index_stack_ \in Seq(Nat)
          /\ Len(object_stack_) = 0 /\ Len(index_stack_) = 0
      BY <1>1
    <2>2. Len(walk) = Len(object_stack_) + 1
      BY <1>3, <2>1
    <2>3. /\ current_object_ \in Objects /\ current_index_ \in Nat
          /\ current_property_name_ \in Key \cup {NoName}
          /\ flaw \in BOOLEAN /\ at \in Ats
      BY <1>1, <1>2
    <2> QED
      BY <1>3, <2>1, <2>2, <2>3 DEF Shape
  <1>6. Outer
    BY <1>1 DEF Outer
  <1>7. InPlace(walk, 1, current_object_)
    BY <1>1 DEF InPlace
  <1>8. Inner
    BY <1>1, <1>3, <1>4, <1>7 DEF Inner, Fits
  <1>9. Cursor
    BY <1>1, <1>4 DEF Cursor, CursorAtTop, CursorInList, CursorByName,
                      CursorInUnion
  <1>10. Flaws /\ Own
    BY <1>1 DEF Flaws, Own
  <1> QED
    BY <1>5, <1>6, <1>8, <1>9, <1>10 DEF IInv

\* The walk ends early.
LEMMA Stops ==
  ASSUME IInv, UNCHANGED <<cursor, frame, walk, got>>, at' \in Stopped,
         flaw' \in BOOLEAN,
         at' = "failed" => flaw',
         at' = "crashed" => flaw' \/ Misshapen,
         at' = "unsupported" => ~flaw'
  PROVE  IInv'
  <1> USE DEF IInv, cursor, frame
  <1>1. Shape' /\ Own'
    BY DEF Shape, Own
  <1>2. Outer' /\ Inner'
    BY DEF Outer, Inner, InPlace, Fits, Top
  <1>3. Cursor'
    BY DEF Cursor, CursorAtTop, CursorInList, CursorByName, CursorInUnion, Top
  <1>4. Flaws'
    BY DEF Flaws, Misshapen, Top
  <1> QED
    BY <1>1, <1>2, <1>3, <1>4

\* A place in the value, found for where the walk is.
LEMMA PlaceMatches ==
  ASSUME IInv, NEW k \in Key, Matches(Top(walk), k)
  PROVE  /\ Place(k) \in Seq(Key) /\ Len(Place(k)) = Len(walk)
         /\ \A i \in 1..Len(walk) : Matches(walk[i], Place(k)[i])
  <1> USE DEF IInv
  <1>1. /\ current_object_.path \in Seq(Key)
        /\ Len(current_object_.path) = Len(walk) - 1
        /\ \A i \in 1..(Len(walk) - 1) :
               Matches(walk[i], current_object_.path[i])
    BY DEF Inner, InPlace, Shape, Objects
  <1>2. Len(walk) \in Nat \ {0} /\ Top(walk) = walk[Len(walk)]
    BY TopFrame
  <1>3. /\ Place(k) \in Seq(Key)
        /\ Len(Place(k)) = Len(current_object_.path) + 1
        /\ \A i \in 1..Len(current_object_.path) :
               Place(k)[i] = current_object_.path[i]
        /\ Place(k)[Len(current_object_.path) + 1] = k
    BY <1>1, Appended DEF Place
  <1>4. Len(current_object_.path) + 1 = Len(walk)
    BY <1>1, <1>2
  <1>5. \A i \in 1..(Len(walk) - 1) : Matches(walk[i], Place(k)[i])
    BY <1>1, <1>3
  <1>6. Matches(walk[Len(walk)], Place(k)[Len(walk)])
    BY <1>2, <1>3, <1>4
  <1> QED
    <2>1. ASSUME NEW i \in 1..Len(walk)
          PROVE  i \in 1..(Len(walk) - 1) \/ i = Len(walk)
      BY <1>2
    <2> QED
      BY <1>3, <1>4, <1>5, <1>6, <2>1

\* One more thing was read.
LEMMA OwnGrows ==
  ASSUME IInv, NEW k \in Key, Matches(Top(walk), k), Got(Place(k))
  PROVE  Own'
  <1>1. /\ Len(Place(k)) = Len(walk)
        /\ \A i \in 1..Len(walk) : Matches(walk[i], Place(k)[i])
    BY PlaceMatches
  <1>2. got' = got \cup {<<walk, Place(k)>>}
    BY DEF Got
  <1> SUFFICES ASSUME NEW g \in got'
               PROVE  /\ Len(g[1]) = Len(g[2])
                      /\ \A i \in 1..Len(g[1]) : Matches(g[1][i], g[2][i])
    BY DEF Own
  <1>3. CASE g \in got
    BY <1>3 DEF IInv, Own
  <1>4. CASE g = <<walk, Place(k)>>
    <2>1. g[1] = walk /\ g[2] = Place(k)
      BY <1>4
    <2> QED
      BY <1>1, <2>1
  <1> QED
    BY <1>2, <1>3, <1>4

\* A value is read, or is absent, and the walk goes on.
LEMMA ReadsItem ==
  ASSUME IInv, at = "value", Top(walk).kind # "top",
         NEW k \in Key, Matches(Top(walk), k),
         at' = "item", Got(Place(k)),
         UNCHANGED <<cursor, frame, walk, flaw>>
  PROVE  IInv'
  <1>1. Own'
    BY OwnGrows
  <1> USE DEF IInv, cursor, frame
  <1>2. Shape'
    BY DEF Shape
  <1>3. Outer' /\ Inner'
    BY DEF Outer, Inner, InPlace, Fits, Top
  <1>4. Len(walk) # 1
    BY DEF Inner, Fits
  <1>5. Cursor'
    BY <1>4 DEF Cursor, CursorAtTop, CursorInList, CursorByName, CursorInUnion,
                Top
  <1>6. Flaws'
    BY DEF Flaws
  <1> QED
    BY <1>1, <1>2, <1>3, <1>5, <1>6

\* The walk is through with its innermost container.
LEMMA ToEnd ==
  ASSUME IInv, at = "inside", at' = "end",
         UNCHANGED <<frame, walk, got, flaw>>,
         current_index_' \in Nat, current_property_name_' \in Key \cup {NoName},
         Top(walk).kind \in Lists => current_property_name_' = NoName
  PROVE  IInv'
  <1> USE DEF IInv, frame
  <1>1. Shape' /\ Own'
    BY DEF Shape, Own
  <1>2. Outer' /\ Inner'
    BY DEF Outer, Inner, InPlace, Fits, Top
  <1>3. Len(walk) # 1
    BY DEF Cursor, CursorAtTop
  <1>4. Cursor'
    BY <1>3 DEF Cursor, CursorAtTop, CursorInList, CursorByName, CursorInUnion,
                Top
  <1>5. Flaws'
    BY DEF Flaws
  <1> QED
    BY <1>1, <1>2, <1>4, <1>5

\* The walk moves to the next member, branch or element.
LEMMA ToValue ==
  ASSUME IInv, at = "inside", NEW k \in Key, MovesTo(k),
         UNCHANGED <<frame, got, flaw>>,
         current_index_' \in Nat, current_property_name_' \in Key \cup {NoName},
         Top(walk).kind \in Lists =>
             current_property_name_' = NoName /\ current_index_' = k,
         Top(walk).kind \in {"struct", "union"} =>
             /\ ~current_object_.array
             /\ current_property_name_' \in Key
             /\ \/ k = current_property_name_'
                \/ /\ Top(walk).kind = "union"
                   /\ Discriminator \notin {k, current_property_name_'}
  PROVE  IInv'
  <1> USE DEF IInv, frame
  <1>1. /\ at' = "value" /\ walk' = MovedTo(walk, k)
        /\ walk \in Seq(Frames) /\ Len(walk) > 0
    BY DEF MovesTo, MovedTo, Shape
  <1>2. /\ walk' \in Seq(Frames) /\ Len(walk') = Len(walk)
        /\ \A i \in 1..(Len(walk) - 1) : walk'[i] = walk[i]
        /\ Top(walk').kind = Top(walk).kind /\ Top(walk').key = k
    BY <1>1, Moved
  <1>3. Shape'
    BY <1>1, <1>2 DEF Shape
  <1>4. Len(walk) # 1 /\ Len(walk) \in Nat \ {0}
    BY <1>1 DEF Cursor, CursorAtTop
  <1>5. Len(object_stack_) = Len(walk) - 1
    BY <1>4 DEF Shape
  <1>6. Outer'
    <2>1. object_stack_' = object_stack_ /\ index_stack_' = index_stack_
      BY DEF frame
    <2> SUFFICES ASSUME NEW d \in 1..Len(object_stack_)
                 PROVE  /\ InPlace(walk', d, object_stack_[d])
                        /\ Fits(d, walk'[d], object_stack_[d])
                        /\ walk'[d].kind \in Lists =>
                               index_stack_[d] = walk'[d].key
      BY <2>1 DEF Outer
    <2>2. walk'[d] = walk[d] /\ \A i \in 1..(d - 1) : walk'[i] = walk[i]
      BY <1>2, <1>4, <1>5
    <2> QED
      BY <2>2 DEF Outer, InPlace
  <1>7. InPlace(walk', Len(walk), current_object_')
    BY <1>2 DEF Inner, InPlace
  <1>8. Inner'
    BY <1>2, <1>4, <1>7, TopFrame DEF Inner, Fits
  <1>9. Cursor'
    BY <1>1, <1>2, <1>4, TopFrame
       DEF Cursor, CursorAtTop, CursorInList, CursorByName, CursorInUnion,
           Matches
  <1>10. Flaws'
    BY <1>1 DEF Flaws
  <1>11. Own'
    BY DEF Own
  <1> QED
    BY <1>3, <1>6, <1>8, <1>9, <1>10, <1>11

\* end_struct_member, end_discriminator, end_union_member, end_element
LEMMA ItemEnds ==
  ASSUME IInv, end_item
  PROVE  IInv'
  <1> USE DEF IInv, frame
  <1>1. /\ at = "item" /\ at' = "inside"
        /\ current_index_' =
               IF Top(walk).kind = "union" THEN 0 ELSE current_index_ + 1
        /\ UNCHANGED <<current_property_name_, frame, walk, got, flaw>>
    BY DEF end_item, Advanced
  <1>2. Shape' /\ Own'
    BY <1>1 DEF Shape, Own
  <1>3. Outer' /\ Inner'
    BY <1>1 DEF Outer, Inner, InPlace, Fits, Top
  <1>4. Len(walk) # 1
    BY <1>1 DEF Cursor, CursorAtTop
  <1>5. CursorInList'
    <2>1. ASSUME Top(walk).kind \in Lists
          PROVE  /\ current_property_name_ = NoName
                 /\ current_index_' = Top(walk).key + 1
                 /\ Top(walk).key # NoName
      BY <1>1, <2>1, KeysDiffer DEF Cursor, CursorInList, Shape
    <2> QED
      BY <1>1, <2>1 DEF CursorInList, NextElement, Top
  <1>6. Cursor'
    BY <1>1, <1>4, <1>5 DEF Cursor, CursorAtTop, CursorByName, CursorInUnion,
                            Top
  <1>7. Flaws'
    BY <1>1 DEF Flaws
  <1> QED
    BY <1>2, <1>3, <1>6, <1>7

\* Indexes from 0.
LEMMA IndexSequence ==
  ASSUME NEW n \in Nat
  PROVE  /\ Indexes(n) \in Seq(Nat) /\ Len(Indexes(n)) = n
         /\ \A i \in 1..n : Indexes(n)[i] = i - 1
  <1>1. [i \in 1..n |-> i - 1] \in [1..n -> Nat]
    OBVIOUS
  <1>2. [i \in 1..n |-> i - 1] \in Seq(Nat)
    BY <1>1, SeqDef
  <1> QED
    BY <1>2 DEF Indexes

\* Lists of names: no name twice.
LEMMA NamesSequence ==
  ASSUME NEW s \in NameLists
  PROVE  /\ s \in Seq(Names)
         /\ \A i, j \in 1..Len(s) : s[i] = s[j] => i = j
  <1>1. Cardinality(Names) \in Nat
    BY NamesAssumption, FS_AddElement, FS_CardinalityType DEF Names
  <1>2. PICK n \in 0..Cardinality(Names) :
            s \in {f \in [1..n -> Names] :
                      \A i, j \in 1..n : f[i] = f[j] => i = j}
    BY DEF NameLists
  <1>3. n \in Nat
    BY <1>1
  <1>4. s \in Seq(Names)
    BY <1>2, <1>3, SeqDef
  <1>5. Len(s) = n
    BY <1>2, <1>3, <1>4
  <1> QED
    BY <1>2, <1>4, <1>5

\* The keys of an Object: indexes, then names.
LEMMA KeysOfObject ==
  ASSUME NEW n \in Nat, NEW s \in NameLists
  PROVE  /\ Indexes(n) \o s \in Seq(Key)
         /\ \A i, j \in 1..Len(Indexes(n) \o s) :
                (Indexes(n) \o s)[i] = (Indexes(n) \o s)[j] => i = j
  <1> DEFINE keys == Indexes(n) \o s
  <1>1. /\ Indexes(n) \in Seq(Key) /\ Len(Indexes(n)) = n
        /\ \A i \in 1..n : Indexes(n)[i] = i - 1
    BY IndexSequence, KeysDiffer
  <1>2. /\ s \in Seq(Key) /\ s \in Seq(Names)
        /\ \A i, j \in 1..Len(s) : s[i] = s[j] => i = j
    BY NamesSequence, KeysDiffer
  <1>3. keys \in Seq(Key) /\ Len(keys) = n + Len(s) /\ Len(s) \in Nat
    BY <1>1, <1>2
  <1>4. /\ \A i \in 1..n : keys[i] = i - 1
        /\ \A i \in (n + 1)..Len(keys) : /\ keys[i] = s[i - n]
                                       /\ i - n \in 1..Len(s)
    BY <1>1, <1>2, <1>3
  <1>5. \A i \in 1..Len(s) : s[i] \in Names
    BY <1>2
  <1> HIDE DEF keys
  <1>6. ASSUME NEW i \in 1..Len(keys), NEW j \in 1..Len(keys), keys[i] = keys[j]
        PROVE  i = j
    <2>1. /\ i \in 1..n \/ i \in (n + 1)..Len(keys)
          /\ j \in 1..n \/ j \in (n + 1)..Len(keys)
      BY <1>3
    <2>2. CASE i \in 1..n /\ j \in 1..n
      BY <1>4, <1>6, <2>2
    <2>3. CASE i \in (n + 1)..Len(keys) /\ j \in (n + 1)..Len(keys)
      <3>1. i - n = j - n
        BY <1>2, <1>4, <1>6, <2>3
      <3> QED
        BY <1>3, <3>1
    <2>4. ASSUME NEW a \in 1..n, NEW b \in (n + 1)..Len(keys)
          PROVE  keys[a] # keys[b]
      <3>1. keys[a] \in Nat /\ keys[b] \in Names
        BY <1>4, <1>5
      <3> QED
        BY <3>1, KeysDiffer
    <2> QED
      BY <1>6, <2>1, <2>2, <2>3, <2>4
  <1> QED
    BY <1>3, <1>6 DEF keys

\* What a value may hold.
LEMMA ObjectsFit ==
  ASSUME NEW path \in Seq(Key), NEW o \in JavaScriptObjects(path)
  PROVE  /\ o \in Objects /\ o.path = path
         /\ o.keys \in Seq(IF o.array THEN Nat ELSE Key)
  <1>1. ASSUME NEW n \in 0..MaxLength, NEW s \in NameLists,
               o = [array |-> FALSE, keys |-> Indexes(n) \o s, path |-> path]
        PROVE  /\ o \in Objects /\ o.path = path
               /\ o.keys \in Seq(IF o.array THEN Nat ELSE Key)
    <2>1. n \in Nat
      BY ReaderBounds
    <2>2. Indexes(n) \o s \in Seq(Key)
      BY <2>1, KeysOfObject
    <2> QED
      BY <1>1, <2>2 DEF Objects
  <1>2. ASSUME NEW n \in 0..MaxLength,
               o = [array |-> TRUE, keys |-> Indexes(n), path |-> path]
        PROVE  /\ o \in Objects /\ o.path = path
               /\ o.keys \in Seq(IF o.array THEN Nat ELSE Key)
    <2>1. n \in Nat
      BY ReaderBounds
    <2>2. Indexes(n) \in Seq(Nat) /\ Indexes(n) \in Seq(Key)
      BY <2>1, IndexSequence, KeysDiffer
    <2> QED
      BY <1>2, <2>2 DEF Objects
  <1>3. \/ \E n \in 0..MaxLength, s \in NameLists :
               o = [array |-> FALSE, keys |-> Indexes(n) \o s, path |-> path]
        \/ \E n \in 0..MaxLength :
               o = [array |-> TRUE, keys |-> Indexes(n), path |-> path]
    <2>1. o \in {[array |-> FALSE, keys |-> Indexes(n) \o s, path |-> path] :
                    n \in 0..MaxLength, s \in NameLists}
          \/ o \in {[array |-> TRUE, keys |-> Indexes(n), path |-> path] :
                    n \in 0..MaxLength}
      BY DEF JavaScriptObjects
    <2> QED
      BY <2>1
  <1> QED
    BY <1>1, <1>2, <1>3

\* A container begins: the object becomes the innermost.
LEMMA Opened ==
  ASSUME IInv, at = "value", NEW k \in Key, Matches(Top(walk), k),
         NEW kind \in Kinds, NEW o \in JavaScriptObjects(Place(k)), Opens(o),
         UNCHANGED flaw,
         walk' = Append(walk, [kind |-> kind, key |-> NoName]),
         at' = "inside", Got(Place(k))
  PROVE  IInv'
  <1>1. Own'
    BY OwnGrows
  <1> USE DEF IInv
  <1> DEFINE n == Len(walk)
             f == [kind |-> kind, key |-> NoName]
  <1>2. /\ Place(k) \in Seq(Key) /\ Len(Place(k)) = n
        /\ \A i \in 1..n : Matches(walk[i], Place(k)[i])
    BY PlaceMatches
  <1>3. /\ o \in Objects /\ o.path = Place(k)
        /\ o.keys \in Seq(IF o.array THEN Nat ELSE Key)
    BY <1>2, ObjectsFit
  <1>4. /\ n \in Nat \ {0} /\ Len(object_stack_) = n - 1
        /\ Len(index_stack_) = n - 1 /\ Top(walk) = walk[n]
        /\ f \in Frames /\ f.kind = kind /\ f.key = NoName
    BY TopFrame DEF Shape, Frames
  <1>5. /\ walk' \in Seq(Frames) /\ Len(walk') = n + 1
        /\ \A i \in 1..n : walk'[i] = walk[i]
        /\ walk'[n + 1] = f
    BY <1>4, Appended DEF Shape
  <1>6. /\ object_stack_' \in Seq(Objects)
        /\ Len(object_stack_') = Len(object_stack_) + 1
        /\ \A i \in 1..Len(object_stack_) : object_stack_'[i] = object_stack_[i]
        /\ object_stack_'[Len(object_stack_) + 1] = current_object_
    BY Appended DEF Shape, Opens
  <1>7. /\ index_stack_' \in Seq(Nat)
        /\ Len(index_stack_') = Len(index_stack_) + 1
        /\ \A i \in 1..Len(index_stack_) : index_stack_'[i] = index_stack_[i]
        /\ index_stack_'[Len(index_stack_) + 1] = current_index_
    BY Appended DEF Shape, Opens
  <1>8. /\ current_object_' = o /\ current_index_' = 0
        /\ use_name_' = ~o.array /\ property_names_' = o.keys
        /\ current_property_name_' = NoName
    BY DEF Opens
  <1>9. Top(walk') = f
    BY <1>4, <1>5 DEF Top
  <1>10. Shape'
    BY <1>3, <1>4, <1>5, <1>6, <1>7, <1>8 DEF Shape
  <1>11. Outer'
    <2> SUFFICES ASSUME NEW d \in 1..n
                 PROVE  /\ InPlace(walk', d, object_stack_'[d])
                        /\ Fits(d, walk'[d], object_stack_'[d])
                        /\ walk'[d].kind \in Lists =>
                               index_stack_'[d] = walk'[d].key
      BY <1>4, <1>6 DEF Outer
    <2>1. walk'[d] = walk[d] /\ \A i \in 1..(d - 1) : walk'[i] = walk[i]
      BY <1>4, <1>5
    <2>2. CASE d = n
      <3>1. object_stack_'[d] = current_object_ /\ index_stack_'[d] = current_index_
        BY <1>4, <1>6, <1>7, <2>2
      <3>2. /\ InPlace(walk, d, current_object_)
            /\ Fits(d, walk[d], current_object_)
        BY <1>4, <2>2 DEF Inner
      <3>3. walk[d].kind \in Lists => current_index_ = walk[d].key
        BY <1>4, <2>2 DEF Cursor, CursorInList
      <3> QED
        BY <2>1, <3>1, <3>2, <3>3 DEF InPlace, Fits
    <2>3. CASE d # n
      <3>1. d \in 1..Len(object_stack_) /\ d \in 1..Len(index_stack_)
        BY <1>4, <2>3
      <3>2. /\ object_stack_'[d] = object_stack_[d]
            /\ index_stack_'[d] = index_stack_[d]
        BY <1>6, <1>7, <3>1
      <3> QED
        BY <2>1, <3>1, <3>2 DEF Outer, InPlace, Fits
    <2> QED
      BY <2>2, <2>3
  <1>12. InPlace(walk', n + 1, o)
    BY <1>2, <1>3, <1>4, <1>5 DEF InPlace
  <1>13. Fits(n + 1, f, o)
    <2>1. n + 1 # 1 /\ kind # "top"
      BY <1>4 DEF Kinds
    <2> QED
      BY <1>3, <1>4, <2>1 DEF Fits
  <1>14. Inner'
    BY <1>5, <1>8, <1>9, <1>12, <1>13 DEF Inner
  <1>15. Cursor'
    BY <1>4, <1>5, <1>8, <1>9
       DEF Cursor, CursorAtTop, CursorInList, CursorByName, CursorInUnion,
           NextElement
  <1>16. Flaws'
    BY DEF Flaws
  <1> QED
    BY <1>1, <1>10, <1>11, <1>14, <1>15, <1>16

\* end_struct, end_union, end_array, end_sequence: back to the object around.
LEMMA Closes ==
  ASSUME IInv, end_container
  PROVE  IInv'
  <1> USE DEF IInv
  <1> DEFINE n == Len(walk)
  <1>1. /\ at = "end" /\ end_nested /\ walk' = Pop(walk)
        /\ at' = IF n = 2 THEN "done" ELSE "item"
        /\ UNCHANGED <<got, flaw>>
    BY DEF end_container
  <1>2. n # 1 /\ ~flaw
    BY <1>1 DEF Cursor, CursorAtTop, Flaws
  <1>3. /\ n - 1 \in Nat \ {0} /\ Len(object_stack_) = n - 1
        /\ Len(index_stack_) = n - 1 /\ n \in Nat
    BY <1>2, TopFrame DEF Shape
  <1>4. /\ walk' \in Seq(Frames) /\ Len(walk') = n - 1
        /\ \A i \in 1..(n - 1) : walk'[i] = walk[i]
    <2>1. walk \in Seq(Frames) /\ Len(walk) > 0
      BY <1>3 DEF Shape
    <2> QED
      BY <1>1, <2>1, PoppedOff
  <1>5. /\ object_stack_' \in Seq(Objects) /\ Len(object_stack_') = n - 2
        /\ \A i \in 1..(n - 2) : object_stack_'[i] = object_stack_[i]
        /\ current_object_' = object_stack_[n - 1]
        /\ current_object_' \in Objects
    <2>1. object_stack_ \in Seq(Objects) /\ Len(object_stack_) > 0
      BY <1>3 DEF Shape
    <2>2. n - 1 - 1 = n - 2
      BY <1>3
    <2> QED
      BY <1>1, <1>3, <2>1, <2>2, PoppedOff DEF end_nested
  <1>6. /\ index_stack_' \in Seq(Nat) /\ Len(index_stack_') = n - 2
        /\ \A i \in 1..(n - 2) : index_stack_'[i] = index_stack_[i]
        /\ current_index_' = index_stack_[n - 1]
        /\ current_index_' \in Nat
    <2>1. index_stack_ \in Seq(Nat) /\ Len(index_stack_) > 0
      BY <1>3 DEF Shape
    <2>2. n - 1 - 1 = n - 2
      BY <1>3
    <2> QED
      BY <1>1, <1>3, <2>1, <2>2, PoppedOff DEF end_nested, IndexLeft
  <1>7. /\ use_name_' = ~current_object_'.array
        /\ property_names_' = current_object_'.keys
        /\ current_property_name_' = NoName
    BY <1>1, <1>5 DEF end_nested, ByName, NameLeft, Top
  <1>8. Top(walk') = walk[n - 1]
    BY <1>3, <1>4 DEF Top
  <1>9. Shape'
    BY <1>1, <1>3, <1>4, <1>5, <1>6, <1>7 DEF Shape
  <1>10. Outer'
    <2> SUFFICES ASSUME NEW d \in 1..(n - 2)
                 PROVE  /\ InPlace(walk', d, object_stack_[d])
                        /\ Fits(d, walk'[d], object_stack_[d])
                        /\ walk'[d].kind \in Lists =>
                               index_stack_[d] = walk'[d].key
      BY <1>1, <1>5, <1>6 DEF Outer
    <2>1. walk'[d] = walk[d] /\ \A i \in 1..(d - 1) : walk'[i] = walk[i]
      BY <1>3, <1>4
    <2>2. d \in 1..Len(object_stack_)
      BY <1>3
    <2> QED
      BY <2>1, <2>2 DEF Outer, InPlace
  <1>11. /\ InPlace(walk, n - 1, object_stack_[n - 1])
         /\ Fits(n - 1, walk[n - 1], object_stack_[n - 1])
         /\ walk[n - 1].kind \in Lists => index_stack_[n - 1] = walk[n - 1].key
    BY <1>3 DEF Outer
  <1>12. InPlace(walk', n - 1, current_object_')
    <2>1. \A i \in 1..(n - 1 - 1) : walk'[i] = walk[i]
      BY <1>3, <1>4
    <2> QED
      BY <1>5, <1>11, <2>1 DEF InPlace
  <1>13. Inner'
    BY <1>1, <1>4, <1>5, <1>7, <1>8, <1>11, <1>12 DEF Inner
  <1>14. n - 1 = 1 => at' = "done"
    BY <1>1, <1>3
  <1>15. at' \in {"done", "item"}
    BY <1>1
  <1>16. at' = "item" => n - 1 # 1
    BY <1>1, <1>3
  <1>17. Cursor'
    BY <1>4, <1>6, <1>7, <1>8, <1>11, <1>14, <1>15
       DEF Cursor, CursorAtTop, CursorInList, CursorByName, CursorInUnion
  <1>18. Flaws'
    BY <1>1, <1>2, <1>15 DEF Flaws
  <1>19. Own'
    BY <1>1 DEF Own
  <1> QED
    BY <1>9, <1>10, <1>13, <1>17, <1>18, <1>19

-----------------------------------------------------------------------------
(* The calls.                                                              *)

LEMMA FailsInv ==
  ASSUME IInv, NEW why \in BOOLEAN, Fails(why), why
  PROVE  IInv'
  <1>1. at' = "failed" /\ flaw' = TRUE /\ UNCHANGED <<cursor, frame, walk, got>>
    BY DEF Fails
  <1> QED
    BY <1>1, Stops

LEMMA CrashesInv ==
  ASSUME IInv, NEW why \in BOOLEAN, Crashes(why), why \/ Misshapen
  PROVE  IInv'
  <1>1. /\ at' = "crashed" /\ flaw' \in BOOLEAN /\ (why => flaw')
        /\ UNCHANGED <<cursor, frame, walk, got>>
    BY DEF Crashes, IInv, Shape
  <1> QED
    BY <1>1, Stops

LEMMA BeginNested ==
  ASSUME IInv, NEW kind \in Kinds, begin_nested(kind)
  PROVE  IInv'
  <1>1. at = "value"
    BY DEF begin_nested, AtMember, AtValue
  <1>2. CASE Found = NoName /\ Crashes(FALSE)
    BY <1>1, <1>2, NoNameIsMisshapen, CrashesInv
  <1>3. CASE Found # NoName /\ Fails(TRUE)
    BY <1>3, FailsInv
  <1>4. ASSUME Found # NoName, NEW o \in JavaScriptObjects(Place(Found)),
               Opens(o), UNCHANGED flaw,
               walk' = Append(walk, [kind |-> kind, key |-> NoName]),
               at' = "inside", Got(Place(Found))
        PROVE  IInv'
    <2>1. Found \in Key /\ Matches(Top(walk), Found)
      BY <1>1, <1>4, FoundMatches
    <2> QED
      BY <1>1, <1>4, <2>1, Opened
  <1> QED
    BY <1>2, <1>3, <1>4 DEF begin_nested

\* A read by a key that is the one of the walk.
LEMMA ReadsInv ==
  ASSUME IInv, at = "value", NEW k \in Key, Matches(Top(walk), k), Reads(k)
  PROVE  IInv'
  <1>1. CASE Fails(TRUE)
    BY <1>1, FailsInv
  <1>2. CASE /\ Holds(k) /\ at' = "item" /\ Got(Place(k))
             /\ UNCHANGED <<cursor, frame, walk, flaw>>
    BY <1>2, ReadsItem DEF Reads
  <1> QED
    BY <1>1, <1>2 DEF Reads

LEMMA ReadSteps ==
  ASSUME IInv, \/ primitive_helper \/ member_has_value \/ read_converted
               \/ read_bitmask \/ read_string \/ read_unsupported
  PROVE  IInv'
  <1>1. at = "value"
    BY DEF primitive_helper, member_has_value, read_converted, read_bitmask,
           read_string, read_unsupported, AtMember, AtValue
  <1>2. CASE primitive_helper
    <2>1. Reads(FoundPrimitive) /\ Top(walk).kind # "top"
      BY <1>2 DEF primitive_helper, Reads
    <2> QED
      BY <1>1, <2>1, PrimitiveIsFound, ReadsInv
  <1>3. CASE member_has_value
    <2>1. /\ Top(walk).kind = "struct" /\ Holds(FoundPrimitive)
          /\ at' = "item" /\ Got(Place(FoundPrimitive))
          /\ UNCHANGED <<cursor, frame, walk, flaw>>
      BY <1>3 DEF member_has_value
    <2> QED
      BY <1>1, <2>1, PrimitiveIsFound, ReadsItem
  <1>4. CASE read_converted
    <2>1. CASE Found = NoName /\ Crashes(FALSE)
      BY <1>1, <2>1, NoNameIsMisshapen, CrashesInv
    <2>2. CASE Found # NoName /\ Reads(Found)
      BY <1>1, <2>2, FoundMatches, ReadsInv
    <2> QED
      BY <1>4, <2>1, <2>2 DEF read_converted
  <1>5. CASE read_bitmask
    <2>1. CASE Found = NoName /\ Crashes(FALSE)
      BY <1>1, <2>1, NoNameIsMisshapen, CrashesInv
    <2>2. CASE Found # NoName /\ Reads(Found)
      BY <1>1, <2>2, FoundMatches, ReadsInv
    <2>3. CASE Crashes(TRUE)
      BY <2>3, CrashesInv
    <2> QED
      BY <1>5, <2>1, <2>2, <2>3 DEF read_bitmask
  <1>6. CASE read_string
    <2>1. CASE Found = NoName /\ Crashes(FALSE)
      BY <1>1, <2>1, NoNameIsMisshapen, CrashesInv
    <2>2. CASE /\ Found # NoName /\ at' = "item" /\ Got(Place(Found))
               /\ UNCHANGED <<cursor, frame, walk, flaw>>
      <3>1. Top(walk).kind # "top"
        BY <1>6 DEF read_string
      <3> QED
        BY <1>1, <2>2, <3>1, FoundMatches, ReadsItem
    <2>3. CASE Fails(TRUE)
      BY <2>3, FailsInv
    <2> QED
      BY <1>6, <2>1, <2>2, <2>3 DEF read_string
  <1>7. CASE read_unsupported
    <2>1. at' = "unsupported" /\ UNCHANGED <<cursor, frame, walk, got, flaw>>
      BY <1>7 DEF read_unsupported
    <2>2. ~flaw /\ flaw \in BOOLEAN
      BY <1>1 DEF IInv, Flaws, Shape
    <2> QED
      BY <2>1, <2>2, Stops
  <1> QED
    BY <1>2, <1>3, <1>4, <1>5, <1>6, <1>7

\* The names the cursor runs over.
LEMMA WhenInside ==
  ASSUME IInv, at = "inside"
  PROVE  /\ Len(walk) # 1 /\ current_index_ \in Nat
         /\ property_names_ = current_object_.keys
         /\ property_names_ \in Seq(Key) /\ Len(property_names_) \in Nat
         /\ property_names_ \in
                Seq(IF current_object_.array THEN Nat ELSE Key)
  <1>1. Len(walk) # 1 /\ current_index_ \in Nat
    BY DEF IInv, Cursor, CursorAtTop, Shape
  <1>2. /\ property_names_ = current_object_.keys
        /\ property_names_ \in
                Seq(IF current_object_.array THEN Nat ELSE Key)
    BY <1>1 DEF IInv, Inner, Fits
  <1>3. property_names_ \in Seq(Key)
    BY <1>2 DEF IInv, Shape, Objects
  <1> QED
    BY <1>1, <1>2, <1>3

\* A name that is found.
LEMMA FindsName ==
  ASSUME IInv, at = "inside", NEW S, Finds(S)
  PROVE  /\ current_index_' \in Nat
         /\ current_property_name_' \in S
         /\ current_property_name_' \in
                IF current_object_.array THEN Nat ELSE Key
  <1>1. PICK i \in From(S) : /\ current_index_' = i
                             /\ current_property_name_' = property_names_[i + 1]
    BY DEF Finds
  <1>2. /\ i \in current_index_..(Len(property_names_) - 1)
        /\ property_names_[i + 1] \in S
    BY DEF From
  <1>3. i \in Nat /\ i + 1 \in 1..Len(property_names_)
    BY <1>2, WhenInside
  <1> QED
    BY <1>1, <1>2, <1>3, WhenInside

\* No name is found from the beginning on.
LEMMA FindsNone ==
  ASSUME IInv, at = "inside", NEW S, From(S) = {}, current_index_ = 0
  PROVE  \A k \in Elements(current_object_.keys) : k \in Key /\ k \notin S
  <1> SUFFICES ASSUME NEW j \in 1..Len(property_names_)
               PROVE  property_names_[j] \in Key /\ property_names_[j] \notin S
    BY WhenInside DEF Elements
  <1>1. j - 1 \in current_index_..(Len(property_names_) - 1) /\ j - 1 + 1 = j
    BY WhenInside
  <1>2. j - 1 \notin From(S)
    OBVIOUS
  <1> QED
    BY <1>1, <1>2, WhenInside DEF From

LEMMA BeginStructMember ==
  ASSUME IInv, begin_struct_member
  PROVE  IInv'
  <1>1. /\ at = "inside" /\ Top(walk).kind = "struct"
        /\ UNCHANGED <<frame, got, flaw>>
    BY DEF begin_struct_member, Inside
  <1>2. CASE Finds(Members) /\ MovesTo(current_property_name_')
    <2>1. /\ current_index_' \in Nat
          /\ current_property_name_' \in Key /\ ~current_object_.array
      BY <1>1, <1>2, FindsName, KeysDiffer
    <2> QED
      BY <1>1, <1>2, <2>1, ToValue
  <1>3. CASE /\ current_index_' = IF current_index_ < Len(property_names_)
                                  THEN Len(property_names_) ELSE current_index_
             /\ current_property_name_' =
                    IF current_index_ < Len(property_names_)
                    THEN Top(property_names_) ELSE current_property_name_
             /\ at' = "end" /\ UNCHANGED walk
    <2>1. current_index_' \in Nat
      BY <1>1, <1>3, WhenInside
    <2>2. current_index_ < Len(property_names_) => Top(property_names_) \in Key
      BY <1>1, WhenInside DEF Top
    <2>3. current_property_name_' \in Key \cup {NoName}
      BY <1>3, <2>2 DEF IInv, Shape
    <2> QED
      BY <1>1, <1>3, <2>1, <2>3, ToEnd
  <1> QED
    BY <1>2, <1>3 DEF begin_struct_member

LEMMA BeginDiscriminator ==
  ASSUME IInv, begin_discriminator
  PROVE  IInv'
  <1>1. at = "inside" /\ Top(walk).kind = "union" /\ Top(walk).key = NoName
    BY DEF begin_discriminator, Inside
  <1>2. CASE /\ Finds({Discriminator}) /\ MovesTo(Discriminator)
             /\ UNCHANGED <<frame, got, flaw>>
    <2>1. /\ current_index_' \in Nat /\ current_property_name_' = Discriminator
          /\ Discriminator \in Names /\ Discriminator \in Key
          /\ ~current_object_.array
      BY <1>1, <1>2, FindsName, KeysDiffer
    <2> QED
      BY <1>1, <1>2, <2>1, ToValue
  <1>3. CASE From({Discriminator}) = {} /\ Fails(~Holds(Discriminator))
    <2>1. current_index_ = 0
      BY <1>1 DEF IInv, Cursor, CursorInUnion
    <2>2. ~Holds(Discriminator)
      BY <1>1, <1>3, <2>1, FindsNone DEF Holds
    <2> QED
      BY <1>3, <2>2, FailsInv
  <1> QED
    BY <1>2, <1>3 DEF begin_discriminator

LEMMA BeginUnionMember ==
  ASSUME IInv, NEW m \in Members, begin_union_member(m)
  PROVE  IInv'
  <1> DEFINE Others == Key \ {Discriminator}
  <1>1. /\ at = "inside" /\ Top(walk).kind = "union"
        /\ Top(walk).key = Discriminator
    BY DEF begin_union_member, Inside
  <1>2. CASE /\ Finds(Others) /\ MovesTo(m) /\ UNCHANGED <<frame, got, flaw>>
    <2>1. ~current_object_.array
      BY <1>1, KeysDiffer DEF IInv, Inner, Fits
    <2>2. /\ current_index_' \in Nat /\ current_property_name_' \in Key
          /\ current_property_name_' # Discriminator
          /\ m \in Key /\ m # Discriminator
      BY <1>1, <1>2, <2>1, FindsName, KeysDiffer, NamesAssumption
    <2>3. current_property_name_' \in Key \cup {NoName}
      BY <2>2, KeysDiffer
    <2> QED
      BY <1>1, <1>2, <2>1, <2>2, <2>3, ToValue
  <1>3. CASE From(Others) = {} /\ Fails(Elements(current_object_.keys) \subseteq
                                        {Discriminator})
    <2>1. current_index_ = 0
      BY <1>1 DEF IInv, Cursor, CursorInUnion
    <2>2. \A k \in Elements(current_object_.keys) : k \in Key /\ k \notin Others
      BY <1>1, <1>3, <2>1, FindsNone
    <2>3. Elements(current_object_.keys) \subseteq {Discriminator}
      BY <2>2
    <2> QED
      BY <1>3, <2>3, FailsInv
  <1> QED
    BY <1>2, <1>3 DEF begin_union_member

LEMMA UnionEndsInv ==
  ASSUME IInv, UnionEnds
  PROVE  IInv'
  <1>1. /\ at = "inside" /\ at' = "end" /\ Top(walk).kind = "union"
        /\ UNCHANGED <<cursor, frame, walk, got, flaw>>
    BY DEF UnionEnds, Inside
  <1>2. /\ current_index_' \in Nat
        /\ current_property_name_' \in Key \cup {NoName}
    BY <1>1 DEF IInv, Shape, cursor
  <1> QED
    BY <1>1, <1>2, ToEnd

LEMMA BeginElement ==
  ASSUME IInv, begin_element
  PROVE  IInv'
  <1>1. /\ at = "inside" /\ Top(walk).kind \in Lists
        /\ current_property_name_ = NoName /\ current_index_ = NextElement
        /\ current_index_ \in Nat /\ NextElement \in Key
    <2>1. at = "inside" /\ Top(walk).kind \in Lists
      BY DEF begin_element, Inside
    <2> QED
      BY <2>1, KeysDiffer DEF IInv, Cursor, CursorInList, Shape
  <1>2. CASE MovesTo(NextElement) /\ UNCHANGED <<cursor, frame, got, flaw>>
    <2>1. /\ current_index_' = NextElement /\ current_index_' \in Nat
          /\ current_property_name_' = NoName
      BY <1>1, <1>2 DEF cursor
    <2> QED
      BY <1>1, <1>2, <2>1, ToValue
  <1>3. CASE /\ \/ Inside("array") /\ NextElement = Width
                \/ Inside("sequence") /\ current_object_.array /\ ~Remaining
             /\ at' = "end" /\ UNCHANGED <<cursor, frame, walk, got, flaw>>
    <2>1. current_index_' \in Nat /\ current_property_name_' = NoName
      BY <1>1, <1>3 DEF cursor
    <2> QED
      BY <1>1, <1>3, <2>1, ToEnd
  <1>4. CASE ~current_object_.array /\ Crashes(FALSE)
    <2>1. Misshapen
      BY <1>1, <1>4 DEF Misshapen
    <2> QED
      BY <1>4, <2>1, CrashesInv
  <1> QED
    BY <1>2, <1>3, <1>4 DEF begin_element

-----------------------------------------------------------------------------
(* The theorems.                                                           *)

\* Every call preserves the invariant.
LEMMA NextInv == IInv /\ [Next]_vars => IInv'
  <1> SUFFICES ASSUME IInv, [Next]_vars PROVE IInv'
    OBVIOUS
  <1>1. CASE \E kind \in Kinds : begin_nested(kind)
    BY <1>1, BeginNested
  <1>2. CASE begin_struct_member \/ begin_discriminator
    BY <1>2, BeginStructMember, BeginDiscriminator
  <1>3. CASE \E m \in Members : begin_union_member(m)
    BY <1>3, BeginUnionMember
  <1>4. CASE UnionEnds \/ begin_element
    BY <1>4, UnionEndsInv, BeginElement
  <1>5. CASE \/ primitive_helper \/ member_has_value \/ read_converted
             \/ read_bitmask \/ read_string \/ read_unsupported
    BY <1>5, ReadSteps
  <1>6. CASE end_item \/ end_container
    BY <1>6, ItemEnds, Closes
  <1>7. CASE UNCHANGED vars
    BY <1>7 DEF vars, cursor, frame, IInv, Shape, Outer, Inner, Fits, InPlace,
                Cursor, CursorAtTop, CursorInList, CursorByName, CursorInUnion,
                Flaws, Own, Top, NextElement, Misshapen
  <1> QED
    BY <1>1, <1>2, <1>3, <1>4, <1>5, <1>6, <1>7 DEF Next

\* The invariant holds in every reachable state.
THEOREM Invariance == Spec => []IInv
  BY InitInv, NextInv, PTL DEF Spec

\* What the invariant does not say of the variables' types.
Rest ==
    /\ property_names_ \in Seq(Key)
    /\ use_name_ \in BOOLEAN
    /\ got \subseteq Seq(Frames) \X Seq(Key)

\* What a read records.
LEMMA RecordedTypes ==
  ASSUME IInv, Rest, NEW k \in Key, Got(Place(k))
  PROVE  got' \subseteq Seq(Frames) \X Seq(Key)
  <1>1. current_object_.path \in Seq(Key) /\ walk \in Seq(Frames)
    BY DEF IInv, Shape, Objects
  <1>2. Place(k) \in Seq(Key)
    BY <1>1, Appended DEF Place
  <1> QED
    BY <1>1, <1>2 DEF Got, Rest

\* Only the reads that find their value record anything.
LEMMA RecordsTypes ==
  ASSUME IInv, Rest, Next
  PROVE  got' \subseteq Seq(Frames) \X Seq(Key)
  <1> SUFFICES ASSUME got' # got PROVE got' \subseteq Seq(Frames) \X Seq(Key)
    BY DEF Rest
  <1>1. ASSUME at = "value", Found # NoName, Got(Place(Found))
        PROVE  got' \subseteq Seq(Frames) \X Seq(Key)
    BY <1>1, FoundMatches, RecordedTypes
  <1>2. CASE \E kind \in Kinds : begin_nested(kind)
    BY <1>1, <1>2 DEF begin_nested, AtMember, AtValue, Fails, Crashes
  <1>3. CASE read_converted \/ read_bitmask \/ read_string
    BY <1>1, <1>3
       DEF read_converted, read_bitmask, read_string, Reads, AtMember, AtValue,
           Fails, Crashes
  <1>4. CASE primitive_helper \/ member_has_value
    <2>1. /\ at = "value" /\ Top(walk).kind # "top"
          /\ Got(Place(FoundPrimitive))
      BY <1>4 DEF primitive_helper, member_has_value, Reads, AtValue, Fails
    <2> QED
      BY <2>1, PrimitiveIsFound, RecordedTypes
  <1> QED
    BY <1>2, <1>3, <1>4
       DEF Next, begin_struct_member, begin_discriminator, begin_union_member,
           UnionEnds, begin_element, read_unsupported, end_item, end_container,
           Fails, Crashes

\* The variables keep their types.
THEOREM TypeCorrect == Spec => []TypeOK
  <1>1. Init => Rest
    <2>1. <<>> \in Seq(Key)
      OBVIOUS
    <2> QED
      BY <2>1 DEF Init, Rest
  <1>2. IInv /\ IInv' /\ Rest /\ [Next]_vars => Rest'
    <2> SUFFICES ASSUME IInv, IInv', Rest, [Next]_vars PROVE Rest'
      OBVIOUS
    <2>1. CASE UNCHANGED vars
      BY <2>1 DEF vars, frame, Rest
    <2>2. CASE Next
      <3>1. got' \subseteq Seq(Frames) \X Seq(Key)
        BY <2>2, RecordsTypes
      <3>2. property_names_' \in Seq(Key) /\ use_name_' \in BOOLEAN
        <4>1. CASE UNCHANGED frame
          BY <4>1 DEF frame, Rest
        <4>2. CASE \E o \in Objects : /\ property_names_' = o.keys
                                      /\ use_name_' = ~o.array
          BY <4>2 DEF Objects
        <4>3. CASE end_container
          <5>1. Len(object_stack_) > 0
            BY <4>3, TopFrame DEF IInv, Shape, Cursor, CursorAtTop, end_container
          <5>2. Top(object_stack_) \in Objects
            BY <5>1, PoppedOff DEF IInv, Shape
          <5> QED
            BY <4>2, <4>3, <5>2 DEF end_container, end_nested, ByName
        <4>4. CASE \E kind \in Kinds : begin_nested(kind)
          <5>1. UNCHANGED frame \/ \E o : Opens(o)
            BY <4>4 DEF begin_nested, Fails, Crashes
          <5>2. ASSUME NEW o, Opens(o) PROVE o \in Objects
            BY <5>2 DEF Opens, IInv, Shape
          <5> QED
            BY <4>1, <4>2, <5>1, <5>2 DEF Opens
        <4> QED
          BY <2>2, <4>1, <4>3, <4>4
             DEF Next, begin_struct_member, begin_discriminator,
                 begin_union_member, UnionEnds, begin_element, primitive_helper,
                 member_has_value, read_converted, read_bitmask, read_string,
                 read_unsupported, end_item, Reads, Fails, Crashes
      <3> QED
        BY <3>1, <3>2 DEF Rest
    <2> QED
      BY <2>1, <2>2
  <1>3. IInv /\ Rest => TypeOK
    BY DEF IInv, Shape, Rest, TypeOK
  <1> QED
    BY <1>1, <1>2, <1>3, Invariance, PTL DEF Spec

\* What is read for a part of the type comes from that part's place in the
\* value, at any depth and after any reads before it.
THEOREM ReadsFromItsPlace == Spec => []ReadsItsOwn
  <1>1. IInv => ReadsItsOwn
    BY DEF IInv, Own, ReadsItsOwn, Matches
  <1> QED
    BY <1>1, Invariance, PTL

\* primitive_helper and the other reads look under the same key.
THEOREM OneWayToLookUp == Spec => []LookupsAgree
  <1>1. ASSUME IInv, at = "value"
        PROVE  Found = FoundPrimitive \/ Misshapen
    <2>1. CASE Top(walk).kind # "top"
      BY <1>1, <2>1, PrimitiveIsFound
    <2>2. CASE Top(walk).kind = "top"
      <3>1. Len(walk) = 1
        BY <1>1, <2>2 DEF IInv, Inner, Fits
      <3> QED
        BY <1>1, <3>1
           DEF IInv, Cursor, CursorAtTop, Found, FoundPrimitive
    <2> QED
      BY <2>1, <2>2
  <1>2. IInv => LookupsAgree
    BY <1>1 DEF LookupsAgree
  <1> QED
    BY <1>2, Invariance, PTL

\* V8 is misused only for a value that does not fit its type: something is
\* missing or an Object is where an array or a bitmask should be.
THEOREM CrashNeedsMisfit == Spec => []CrashExplained
  <1>1. IInv => CrashExplained
    BY DEF IInv, Flaws, CrashExplained
  <1> QED
    BY <1>1, Invariance, PTL

\* A read returns false for what the value lacks and never because of what was
\* read before; begin_map and read_fixed, which return false whatever the value
\* (src/NodeValueReader.cpp:196, 349), are not meant.
THEOREM RefusesMisfitsOnly == Spec => []AcceptsWhatFits
  <1>1. IInv => AcceptsWhatFits
    BY DEF IInv, Flaws, AcceptsWhatFits
  <1> QED
    BY <1>1, Invariance, PTL

-----------------------------------------------------------------------------
(* What was read of each open container. G stands for got and w for walk:  *)
(* a step changes either.                                                  *)

\* The keys at depth d of what was read under the containers of w above it.
KeysRead(G, w, d) ==
    {g[1][d].key : g \in {x \in G : /\ Len(x[1]) >= d
                                    /\ \A i \in 1..(d - 1) : x[1][i] = w[i]}}

KeysUpto(o, n) == {o.keys[i] : i \in {j \in 1..Len(o.keys) : j <= n}}

\* Of the container at depth d, from object o, the first n were read.
HasRead(G, w, d, o, n) ==
    /\ w[d].kind = "struct" => KeysRead(G, w, d) = KeysUpto(o, n) \cap Members
    /\ w[d].kind \in Lists => KeysRead(G, w, d) = 0..(n - 1)
    /\ w[d].kind = "union" =>
           KeysRead(G, w, d) \subseteq IF w[d].key = NoName THEN {}
                                       ELSE {Discriminator, w[d].key}

Distinct(o) == \A i, j \in DOMAIN o.keys : o.keys[i] = o.keys[j] => i = j

\* Of the containers around the innermost one; each is at one it has read.
OuterRead ==
    \A d \in 1..Len(object_stack_) :
        /\ HasRead(got, walk, d, object_stack_[d], index_stack_[d] + 1)
        /\ walk[d].key \in KeysRead(got, walk, d)
        /\ Distinct(object_stack_[d])

\* Of the innermost one; between "item" and "inside" the cursor moves on.
InnerRead ==
    /\ HasRead(got, walk, Len(walk), current_object_,
               IF at = "item" THEN current_index_ + 1 ELSE current_index_)
    /\ at = "item" => Top(walk).key \in KeysRead(got, walk, Len(walk))
    /\ Distinct(current_object_)

\* The value that is due was not read before, and a member is at the cursor.
ValueIsNew ==
    at = "value" =>
        /\ Top(walk).key # NoName
        /\ Top(walk).key \notin KeysRead(got, walk, Len(walk))
        /\ Top(walk).kind = "struct" =>
               /\ current_index_ < Len(current_object_.keys)
               /\ Top(walk).key = current_object_.keys[current_index_ + 1]
               /\ Top(walk).key \in Members

AllRead ==
    at = "end" =>
        /\ Top(walk).kind = "array" => current_index_ >= Width
        /\ Top(walk).kind \in {"struct", "sequence"} =>
               current_index_ >= Len(current_object_.keys)

Going == at \in {"inside", "value", "item", "end"}
ReadInv == Going => OuterRead /\ InnerRead /\ ValueIsNew /\ AllRead

\* What was read at depth d does not depend on the walk from d on.
LEMMA SameKeysRead ==
  ASSUME NEW G, NEW w, NEW v, NEW d \in Nat, \A i \in 1..(d - 1) : v[i] = w[i]
  PROVE  KeysRead(G, v, d) = KeysRead(G, w, d)
  BY DEF KeysRead

\* Nor does what is to be read there, but for where the walk is in a union.
LEMMA SameHasRead ==
  ASSUME NEW G, NEW w, NEW v, NEW d \in Nat, \A i \in 1..(d - 1) : v[i] = w[i],
         v[d] = w[d], NEW o, NEW n, HasRead(G, w, d, o, n)
  PROVE  HasRead(G, v, d, o, n)
  <1>1. KeysRead(G, v, d) = KeysRead(G, w, d)
    BY SameKeysRead
  <1> QED
    BY <1>1 DEF HasRead

\* One more thing is read where the walk is.
LEMMA OneMoreRead ==
  ASSUME NEW G, NEW w \in Seq(Frames), NEW place, NEW d \in 1..Len(w),
         NEW H, H = G \cup {<<w, place>>}
  PROVE  \A k : k \in KeysRead(H, w, d)
                    <=> k \in KeysRead(G, w, d) \/ k = w[d].key
  <1> DEFINE g == <<w, place>>
  <1>1. /\ g[1] = w /\ Len(g[1]) >= d
        /\ \A i \in 1..(d - 1) : g[1][i] = w[i]
    OBVIOUS
  <1> HIDE DEF g
  <1> QED
    BY <1>1 DEF KeysRead, g

\* Nothing was read in a container that was not entered before.
LEMMA NothingRead ==
  ASSUME NEW G, NEW w \in Seq(Frames), NEW place, NEW v, Len(w) > 0,
         w[Len(w)].key \notin KeysRead(G, w, Len(w)),
         \A i \in 1..Len(w) : v[i] = w[i],
         NEW H, H = G \cup {<<w, place>>}
  PROVE  \A k : k \notin KeysRead(H, v, Len(w) + 1)
  <1> DEFINE n == Len(w)
             g == <<w, place>>
  <1>1. n \in Nat \ {0} /\ n + 1 - 1 = n /\ ~(n >= n + 1)
    OBVIOUS
  <1>2. g[1] = w
    OBVIOUS
  <1> HIDE DEF n, g
  <1> SUFFICES ASSUME NEW x \in G \cup {g}, Len(x[1]) >= n + 1,
                      \A i \in 1..(n + 1 - 1) : x[1][i] = v[i]
               PROVE  FALSE
    BY DEF KeysRead, n, g
  <1>3. \A i \in 1..n : x[1][i] = w[i]
    BY <1>1 DEF n
  <1>4. CASE x = g
    BY <1>1, <1>2, <1>4 DEF n
  <1>5. CASE x \in G
    <2>1. x[1][n] = w[n] /\ \A i \in 1..(n - 1) : x[1][i] = w[i]
      BY <1>1, <1>3
    <2>2. CASE Len(x[1]) >= n
      BY <1>5, <2>1, <2>2 DEF KeysRead, n
    <2>3. CASE ~(Len(x[1]) >= n)
      BY <1>1, <2>3
    <2> QED
      BY <2>2, <2>3
  <1> QED
    BY <1>4, <1>5

\* The first n + 1 keys of an object.
LEMMA OneMoreKey ==
  ASSUME NEW o \in Objects, NEW n \in Nat, n < Len(o.keys)
  PROVE  KeysUpto(o, n + 1) = KeysUpto(o, n) \cup {o.keys[n + 1]}
  <1>1. o.keys \in Seq(Key) /\ n + 1 \in 1..Len(o.keys)
    BY DEF Objects
  <1>2. \A j \in 1..Len(o.keys) : j <= n + 1 <=> j <= n \/ j = n + 1
    BY <1>1
  <1> QED
    BY <1>1, <1>2 DEF KeysUpto

\* Reading the value that is due: the containers around have read it already,
\* the innermost one has now read one more.
LEMMA ReadsOne ==
  ASSUME IInv, ReadInv, at = "value", NEW place, Got(place)
  PROVE  /\ \A d \in 1..Len(object_stack_) :
                /\ HasRead(got', walk, d, object_stack_[d], index_stack_[d] + 1)
                /\ walk[d].key \in KeysRead(got', walk, d)
         /\ HasRead(got', walk, Len(walk), current_object_, current_index_ + 1)
         /\ Top(walk).key \in KeysRead(got', walk, Len(walk))
  <1> DEFINE n == Len(walk)
  <1>1. /\ walk \in Seq(Frames) /\ n \in Nat \ {0} /\ Top(walk) = walk[n]
        /\ Len(object_stack_) = n - 1 /\ current_index_ \in Nat
        /\ current_object_ \in Objects
    BY TopFrame DEF IInv, Shape
  <1>2. OuterRead /\ InnerRead /\ ValueIsNew
    BY DEF ReadInv, Going
  <1>3. ASSUME NEW d \in 1..n
        PROVE  \A k : k \in KeysRead(got', walk, d)
                          <=> k \in KeysRead(got, walk, d) \/ k = walk[d].key
    <2>1. walk \in Seq(Frames) /\ d \in 1..Len(walk)
      BY <1>1
    <2>2. got' = got \cup {<<walk, place>>}
      BY DEF Got
    <2> QED
      BY <2>1, <2>2, OneMoreRead
  <1>4. ASSUME NEW d \in 1..Len(object_stack_)
        PROVE  /\ HasRead(got', walk, d, object_stack_[d], index_stack_[d] + 1)
               /\ walk[d].key \in KeysRead(got', walk, d)
    <2>1. d \in 1..n /\ walk[d].key \in KeysRead(got, walk, d)
      BY <1>1, <1>2 DEF OuterRead
    <2>2. KeysRead(got', walk, d) = KeysRead(got, walk, d)
      BY <1>3, <2>1
    <2> QED
      BY <1>2, <2>2 DEF OuterRead, HasRead
  <1>5. HasRead(got', walk, n, current_object_, current_index_ + 1)
    <2>1. /\ HasRead(got, walk, n, current_object_, current_index_)
          /\ walk[n].key # NoName
      BY <1>1, <1>2 DEF InnerRead, ValueIsNew
    <2> \A k : k \in KeysRead(got', walk, n)
                    <=> k \in KeysRead(got, walk, n) \/ k = walk[n].key
      BY <1>1, <1>3
    <2>2. CASE walk[n].kind = "struct"
      <3>1. /\ current_index_ < Len(current_object_.keys)
            /\ walk[n].key = current_object_.keys[current_index_ + 1]
            /\ walk[n].key \in Members
        BY <1>1, <1>2, <2>2 DEF ValueIsNew
      <3>2. KeysUpto(current_object_, current_index_ + 1) =
                KeysUpto(current_object_, current_index_) \cup {walk[n].key}
        BY <1>1, <3>1, OneMoreKey
      <3> QED
        BY <2>1, <2>2, <3>1, <3>2 DEF HasRead
    <2>3. CASE walk[n].kind \in Lists
      <3>1. walk[n].key = current_index_
        BY <1>1, <2>3 DEF IInv, Cursor, CursorInList
      <3>2. KeysRead(got, walk, n) = 0..(current_index_ - 1)
        BY <2>1, <2>3 DEF HasRead
      <3>3. 0..(current_index_ + 1 - 1) =
                0..(current_index_ - 1) \cup {current_index_}
        BY <1>1
      <3>4. KeysRead(got', walk, n) = 0..(current_index_ + 1 - 1)
        BY <3>1, <3>2, <3>3
      <3> QED
        BY <1>1, <2>3, <3>4 DEF HasRead
    <2>4. CASE walk[n].kind \notin Lists \cup {"struct"}
      BY <2>1, <2>4 DEF HasRead
    <2> QED
      BY <2>2, <2>3, <2>4
  <1>6. n \in 1..n
    BY <1>1
  <1>7. Top(walk).key \in KeysRead(got', walk, n)
    BY <1>1, <1>3, <1>6
  <1> QED
    BY <1>4, <1>5, <1>7

\* A value is read, or is absent.
LEMMA ItemIsRead ==
  ASSUME IInv, ReadInv, at = "value", NEW place, Got(place), at' = "item",
         UNCHANGED <<cursor, frame, walk>>
  PROVE  ReadInv'
  <1> USE DEF cursor, frame
  <1>1. OuterRead /\ InnerRead
    BY DEF ReadInv, Going
  <1>2. OuterRead'
    BY <1>1, ReadsOne DEF OuterRead
  <1>3. InnerRead'
    BY <1>1, ReadsOne DEF InnerRead, Top
  <1>4. ValueIsNew' /\ AllRead'
    BY DEF ValueIsNew, AllRead
  <1> QED
    BY <1>2, <1>3, <1>4 DEF ReadInv

\* A container begins, where nothing was read before.
LEMMA NothingReadYet ==
  ASSUME IInv, ReadInv, at = "value", NEW kind \in Kinds, NEW o, Distinct(o),
         Opens(o), walk' = Append(walk, [kind |-> kind, key |-> NoName]),
         at' = "inside", NEW place, Got(place)
  PROVE  ReadInv'
  <1> DEFINE n == Len(walk)
             f == [kind |-> kind, key |-> NoName]
  <1>1. /\ walk \in Seq(Frames) /\ n \in Nat \ {0} /\ Top(walk) = walk[n]
        /\ Len(object_stack_) = n - 1 /\ Len(index_stack_) = n - 1
        /\ f \in Frames
    BY TopFrame DEF IInv, Shape, Frames
  <1>2. /\ Len(walk') = n + 1 /\ \A i \in 1..n : walk'[i] = walk[i]
        /\ walk'[n + 1] = f
    BY <1>1, Appended
  <1>3. /\ Len(object_stack_') = n
        /\ \A i \in 1..(n - 1) : object_stack_'[i] = object_stack_[i]
        /\ object_stack_'[n] = current_object_
    BY <1>1, Appended DEF IInv, Shape, Opens
  <1>4. /\ \A i \in 1..(n - 1) : index_stack_'[i] = index_stack_[i]
        /\ index_stack_'[n] = current_index_
    BY <1>1, Appended DEF IInv, Shape, Opens
  <1>5. current_object_' = o /\ current_index_' = 0
    BY DEF Opens
  <1>6. OuterRead /\ InnerRead /\ ValueIsNew
    BY DEF ReadInv, Going
  <1>7. OuterRead'
    <2> SUFFICES ASSUME NEW d \in 1..n
                 PROVE  /\ HasRead(got', walk', d, object_stack_'[d],
                                   index_stack_'[d] + 1)
                        /\ walk'[d].key \in KeysRead(got', walk', d)
                        /\ Distinct(object_stack_'[d])
      BY <1>3 DEF OuterRead
    <2>1. /\ d \in Nat /\ walk'[d] = walk[d]
          /\ \A i \in 1..(d - 1) : walk'[i] = walk[i]
      BY <1>1, <1>2
    <2>2. KeysRead(got', walk', d) = KeysRead(got', walk, d)
      BY <2>1, SameKeysRead
    <2>3. /\ HasRead(got', walk, d, object_stack_'[d], index_stack_'[d] + 1)
          /\ walk[d].key \in KeysRead(got', walk, d)
          /\ Distinct(object_stack_'[d])
      <3>1. CASE d = n
        <4>1. /\ HasRead(got', walk, n, current_object_, current_index_ + 1)
              /\ walk[n].key \in KeysRead(got', walk, n)
          BY <1>1, ReadsOne
        <4> QED
          BY <1>3, <1>4, <1>6, <3>1, <4>1 DEF InnerRead
      <3>2. CASE d # n
        <4>1. d \in 1..(n - 1) /\ d \in 1..Len(object_stack_)
          BY <1>1, <3>2
        <4> QED
          BY <1>3, <1>4, <1>6, <4>1, ReadsOne DEF OuterRead
      <3> QED
        BY <3>1, <3>2
    <2> QED
      BY <2>1, <2>2, <2>3, SameHasRead
  <1>8. \A k : k \notin KeysRead(got', walk', n + 1)
    <2>1. got' = got \cup {<<walk, place>>} /\ Len(walk) > 0
      BY <1>1 DEF Got
    <2>2. walk[Len(walk)].key \notin KeysRead(got, walk, Len(walk))
      BY <1>1, <1>6 DEF ValueIsNew
    <2> QED
      BY <1>1, <1>2, <2>1, <2>2, NothingRead
  <1>9. InnerRead'
    <2>1. KeysUpto(o, 0) = {} /\ 0..(0 - 1) = {}
      BY DEF KeysUpto
    <2>2. f.key = NoName
      OBVIOUS
    <2>3. HasRead(got', walk', n + 1, o, 0)
      BY <1>2, <1>8, <2>1, <2>2 DEF HasRead
    <2> QED
      BY <1>2, <1>5, <2>3 DEF InnerRead
  <1>10. ValueIsNew' /\ AllRead'
    BY DEF ValueIsNew, AllRead
  <1> QED
    BY <1>7, <1>9, <1>10 DEF ReadInv

\* The walk is through with its innermost container.
LEMMA EndIsReached ==
  ASSUME IInv, ReadInv, at = "inside", at' = "end",
         UNCHANGED <<frame, walk, got>>, AllRead',
         HasRead(got, walk, Len(walk), current_object_, current_index_')
  PROVE  ReadInv'
  <1> USE DEF frame
  <1>1. OuterRead' /\ InnerRead'
    BY DEF ReadInv, Going, OuterRead, InnerRead
  <1>2. ValueIsNew'
    BY DEF ValueIsNew
  <1> QED
    BY <1>1, <1>2 DEF ReadInv

\* The walk moves to a value that was not read before.
LEMMA MovesToNew ==
  ASSUME IInv, ReadInv, at = "inside", NEW k \in Key, MovesTo(k),
         UNCHANGED <<frame, got>>,
         k \notin KeysRead(got, walk, Len(walk)),
         HasRead(got, walk', Len(walk), current_object_, current_index_'),
         Top(walk).kind = "struct" =>
             /\ current_index_' < Len(current_object_.keys)
             /\ k = current_object_.keys[current_index_' + 1] /\ k \in Members
  PROVE  ReadInv'
  <1> USE DEF frame
  <1> DEFINE n == Len(walk)
  <1>1. /\ walk \in Seq(Frames) /\ n \in Nat \ {0}
        /\ Len(object_stack_) = n - 1
    BY TopFrame DEF IInv, Shape
  <1>2. /\ at' = "value" /\ walk' = MovedTo(walk, k)
        /\ Len(walk') = n /\ \A i \in 1..(n - 1) : walk'[i] = walk[i]
        /\ Top(walk').kind = Top(walk).kind /\ Top(walk').key = k
    <2>1. at' = "value" /\ walk' = MovedTo(walk, k)
      BY DEF MovesTo, MovedTo
    <2> QED
      BY <1>1, <2>1, Moved
  <1>3. OuterRead /\ InnerRead
    BY DEF ReadInv, Going
  <1>4. OuterRead'
    <2> SUFFICES ASSUME NEW d \in 1..Len(object_stack_)
                 PROVE  /\ HasRead(got, walk', d, object_stack_[d],
                                   index_stack_[d] + 1)
                        /\ walk'[d].key \in KeysRead(got, walk', d)
                        /\ Distinct(object_stack_[d])
      BY DEF OuterRead
    <2>1. /\ d \in Nat /\ walk'[d] = walk[d]
          /\ \A i \in 1..(d - 1) : walk'[i] = walk[i]
      BY <1>1, <1>2
    <2>2. KeysRead(got, walk', d) = KeysRead(got, walk, d)
      BY <2>1, SameKeysRead
    <2> QED
      BY <1>3, <2>1, <2>2, SameHasRead DEF OuterRead
  <1>5. KeysRead(got, walk', n) = KeysRead(got, walk, n)
    BY <1>1, <1>2, SameKeysRead
  <1>6. InnerRead' /\ ValueIsNew' /\ AllRead'
    BY <1>2, <1>3, <1>5, KeysDiffer DEF InnerRead, ValueIsNew, AllRead
  <1> QED
    BY <1>4, <1>6 DEF ReadInv

\* Moving on does not change what was read here.
LEMMA MovedRead ==
  ASSUME IInv, NEW k \in Key, MovesTo(k)
  PROVE  /\ KeysRead(got, walk', Len(walk)) = KeysRead(got, walk, Len(walk))
         /\ walk'[Len(walk)].kind = Top(walk).kind
         /\ walk'[Len(walk)].key = k
  <1> DEFINE n == Len(walk)
  <1>1. walk \in Seq(Frames) /\ n \in Nat \ {0}
    BY TopFrame DEF IInv, Shape
  <1>2. walk' = MovedTo(walk, k)
    BY DEF MovesTo, MovedTo
  <1>3. /\ Len(walk') = n /\ \A i \in 1..(n - 1) : walk'[i] = walk[i]
        /\ Top(walk').kind = Top(walk).kind /\ Top(walk').key = k
    BY <1>1, <1>2, Moved
  <1>4. KeysRead(got, walk', n) = KeysRead(got, walk, n)
    BY <1>1, <1>3, SameKeysRead
  <1> QED
    BY <1>3, <1>4 DEF Top

\* The cursor moves on from what was read.
LEMMA PassesOn ==
  ASSUME IInv, ReadInv, end_item
  PROVE  ReadInv'
  <1> USE DEF frame
  <1>1. /\ at = "item" /\ at' = "inside"
        /\ current_index_' =
               IF Top(walk).kind = "union" THEN 0 ELSE current_index_ + 1
        /\ UNCHANGED <<frame, walk, got>> /\ Top(walk) = walk[Len(walk)]
    BY TopFrame DEF end_item, Advanced, IInv
  <1>2. OuterRead /\ InnerRead
    BY <1>1 DEF ReadInv, Going
  <1>3. OuterRead'
    BY <1>1, <1>2 DEF OuterRead
  <1>4. InnerRead'
    BY <1>1, <1>2 DEF InnerRead, HasRead
  <1>5. ValueIsNew' /\ AllRead'
    BY <1>1 DEF ValueIsNew, AllRead
  <1> QED
    BY <1>3, <1>4, <1>5 DEF ReadInv

\* Back in the object around, the cursor is where it was left.
LEMMA ClosesRead ==
  ASSUME IInv, ReadInv, end_container
  PROVE  ReadInv'
  <1> DEFINE n == Len(walk)
  <1>1. /\ at = "end" /\ end_nested /\ walk' = Pop(walk) /\ got' = got
        /\ at' = IF n = 2 THEN "done" ELSE "item"
    BY DEF end_container
  <1> SUFFICES ASSUME at' = "item" PROVE ReadInv'
    BY <1>1 DEF ReadInv, Going
  <1>2. /\ n - 1 \in Nat \ {0} /\ Len(object_stack_) = n - 1
        /\ Len(index_stack_) = n - 1 /\ n \in Nat
    BY <1>1, TopFrame DEF IInv, Shape, Cursor, CursorAtTop
  <1>3. /\ walk' \in Seq(Frames) /\ Len(walk') = n - 1
        /\ \A i \in 1..(n - 1) : walk'[i] = walk[i]
    <2>1. walk \in Seq(Frames) /\ Len(walk) > 0
      BY <1>2 DEF IInv, Shape
    <2> QED
      BY <1>1, <2>1, PoppedOff
  <1>4. /\ Len(object_stack_') = n - 2
        /\ \A i \in 1..(n - 2) : object_stack_'[i] = object_stack_[i]
        /\ current_object_' = object_stack_[n - 1]
    <2>1. object_stack_ \in Seq(Objects) /\ Len(object_stack_) > 0
      BY <1>2 DEF IInv, Shape
    <2>2. n - 1 - 1 = n - 2
      BY <1>2
    <2> QED
      BY <1>1, <1>2, <2>1, <2>2, PoppedOff DEF end_nested
  <1>5. /\ \A i \in 1..(n - 2) : index_stack_'[i] = index_stack_[i]
        /\ current_index_' = index_stack_[n - 1]
    <2>1. index_stack_ \in Seq(Nat) /\ Len(index_stack_) > 0
      BY <1>2 DEF IInv, Shape
    <2>2. n - 1 - 1 = n - 2
      BY <1>2
    <2> QED
      BY <1>1, <1>2, <2>1, <2>2, PoppedOff DEF end_nested, IndexLeft
  <1>6. ASSUME NEW d \in 1..(n - 1)
        PROVE  /\ HasRead(got, walk', d, object_stack_[d], index_stack_[d] + 1)
               /\ walk'[d].key \in KeysRead(got, walk', d)
               /\ Distinct(object_stack_[d])
    <2>1. OuterRead /\ d \in 1..Len(object_stack_)
      BY <1>1, <1>2 DEF ReadInv, Going
    <2>2. /\ d \in Nat /\ walk'[d] = walk[d]
          /\ \A i \in 1..(d - 1) : walk'[i] = walk[i]
      BY <1>2, <1>3
    <2>3. KeysRead(got, walk', d) = KeysRead(got, walk, d)
      BY <2>2, SameKeysRead
    <2> QED
      BY <2>1, <2>2, <2>3, SameHasRead DEF OuterRead
  <1>7. OuterRead'
    <2> SUFFICES ASSUME NEW d \in 1..(n - 2)
                 PROVE  /\ HasRead(got, walk', d, object_stack_'[d],
                                   index_stack_'[d] + 1)
                        /\ walk'[d].key \in KeysRead(got, walk', d)
                        /\ Distinct(object_stack_'[d])
      BY <1>1, <1>4 DEF OuterRead
    <2>1. d \in 1..(n - 1)
      BY <1>2
    <2> QED
      BY <1>4, <1>5, <1>6, <2>1
  <1>8. InnerRead'
    <2>1. n - 1 \in 1..(n - 1) /\ Top(walk') = walk'[n - 1]
      BY <1>2, <1>3 DEF Top
    <2> QED
      BY <1>1, <1>3, <1>4, <1>5, <1>6, <2>1 DEF InnerRead
  <1>9. ValueIsNew' /\ AllRead'
    BY DEF ValueIsNew, AllRead
  <1> QED
    BY <1>7, <1>8, <1>9 DEF ReadInv

\* No two keys of what a value may hold are the same.
LEMMA KeysAreDistinct ==
  ASSUME NEW path, NEW o \in JavaScriptObjects(path)
  PROVE  Distinct(o)
  <1>1. ASSUME NEW n \in 0..MaxLength, NEW s \in NameLists,
               o = [array |-> FALSE, keys |-> Indexes(n) \o s, path |-> path]
        PROVE  Distinct(o)
    <2>1. n \in Nat
      BY ReaderBounds
    <2>2. o.keys \in Seq(Key) /\ o.keys = Indexes(n) \o s
      BY <1>1, <2>1, KeysOfObject
    <2>3. DOMAIN o.keys = 1..Len(o.keys)
      BY <2>2
    <2> QED
      BY <2>1, <2>2, <2>3, KeysOfObject DEF Distinct
  <1>2. ASSUME NEW n \in 0..MaxLength,
               o = [array |-> TRUE, keys |-> Indexes(n), path |-> path]
        PROVE  Distinct(o)
    <2>1. n \in Nat
      BY ReaderBounds
    <2>2. o.keys = Indexes(n) /\ DOMAIN o.keys = 1..n
      BY <1>2, <2>1 DEF Indexes
    <2>3. \A i \in 1..n : o.keys[i] = i - 1
      BY <2>1, <2>2, IndexSequence
    <2> QED
      BY <2>1, <2>2, <2>3 DEF Distinct
  <1>3. \/ \E n \in 0..MaxLength, s \in NameLists :
               o = [array |-> FALSE, keys |-> Indexes(n) \o s, path |-> path]
        \/ \E n \in 0..MaxLength :
               o = [array |-> TRUE, keys |-> Indexes(n), path |-> path]
    <2>1. o \in {[array |-> FALSE, keys |-> Indexes(n) \o s, path |-> path] :
                    n \in 0..MaxLength, s \in NameLists}
          \/ o \in {[array |-> TRUE, keys |-> Indexes(n), path |-> path] :
                    n \in 0..MaxLength}
      BY DEF JavaScriptObjects
    <2> QED
      BY <2>1
  <1> QED
    BY <1>1, <1>2, <1>3

\* At first nothing was read.
LEMMA InitRead == Init => ReadInv
  <1> SUFFICES ASSUME Init PROVE ReadInv
    OBVIOUS
  <1>1. /\ walk = <<[kind |-> "top", key |-> 0]>> /\ object_stack_ = <<>>
        /\ at = "value" /\ got = {}
        /\ current_object_ = [array |-> FALSE, keys |-> <<0>>, path |-> <<>>]
    BY DEF Init
  <1>2. Len(walk) = 1 /\ walk[1].kind = "top" /\ Top(walk) = walk[1]
        /\ walk[1].key = 0
    BY <1>1 DEF Top
  <1>3. KeysRead(got, walk, 1) = {}
    BY <1>1 DEF KeysRead
  <1>4. HasRead(got, walk, 1, current_object_, current_index_)
    BY <1>2 DEF HasRead
  <1>5. Distinct(current_object_)
    BY <1>1 DEF Distinct
  <1>6. OuterRead
    BY <1>1 DEF OuterRead
  <1>7. InnerRead
    BY <1>1, <1>2, <1>4, <1>5 DEF InnerRead
  <1>8. ValueIsNew /\ AllRead
    BY <1>1, <1>2, <1>3, KeysDiffer DEF ValueIsNew, AllRead
  <1> QED
    BY <1>6, <1>7, <1>8 DEF ReadInv

\* What is before the cursor when it moves past names outside S.
LEMMA MovesPast ==
  ASSUME IInv, at = "inside", NEW S, NEW m \in Nat, m >= current_index_,
         \A i \in From(S) : m <= i
  PROVE  KeysUpto(current_object_, m) \cap S =
             KeysUpto(current_object_, current_index_) \cap S
  <1> DEFINE keys == current_object_.keys
  <1>1. /\ current_index_ \in Nat /\ property_names_ = keys
        /\ Len(keys) \in Nat
    BY WhenInside
  <1>2. ASSUME NEW j \in 1..Len(keys), j <= m, keys[j] \in S
        PROVE  j <= current_index_
    <2> SUFFICES ASSUME ~(j <= current_index_) PROVE FALSE
      OBVIOUS
    <2>1. j - 1 \in current_index_..(Len(keys) - 1) /\ j - 1 + 1 = j
      BY <1>1
    <2>2. j - 1 \in From(S)
      BY <1>1, <1>2, <2>1 DEF From
    <2> QED
      BY <1>1, <1>2, <2>2
  <1>3. \A j \in 1..Len(keys) : j <= current_index_ => j <= m
    BY <1>1
  <1> QED
    BY <1>2, <1>3 DEF KeysUpto

LEMMA StructMemberRead ==
  ASSUME IInv, ReadInv, begin_struct_member
  PROVE  ReadInv'
  <1> DEFINE keys == current_object_.keys
             n == Len(walk)
  <1>1. /\ at = "inside" /\ Top(walk).kind = "struct" /\ Top(walk) = walk[n]
        /\ n \in Nat \ {0} /\ walk \in Seq(Frames)
        /\ UNCHANGED <<frame, got>>
    BY TopFrame DEF begin_struct_member, Inside, IInv, Shape
  <1>2. /\ current_index_ \in Nat /\ property_names_ = keys
        /\ keys \in Seq(Key) /\ Len(keys) \in Nat
    BY <1>1, WhenInside
  <1>3. /\ KeysRead(got, walk, n) =
               KeysUpto(current_object_, current_index_) \cap Members
        /\ Distinct(current_object_)
    BY <1>1 DEF ReadInv, Going, InnerRead, HasRead
  <1>4. CASE Finds(Members) /\ MovesTo(current_property_name_')
    <2> DEFINE k == current_property_name_'
    <2>1. PICK i \in From(Members) :
            /\ \A j \in From(Members) : i <= j
            /\ current_index_' = i /\ k = keys[i + 1]
      BY <1>2, <1>4 DEF Finds
    <2>2. /\ i \in Nat /\ i >= current_index_ /\ i < Len(keys)
          /\ i + 1 \in 1..Len(keys) /\ k \in Members
      BY <1>2, <2>1 DEF From
    <2>3. KeysRead(got, walk, n) = KeysUpto(current_object_, i) \cap Members
      BY <1>1, <1>3, <2>1, <2>2, MovesPast
    <2>4. k \notin KeysRead(got, walk, n)
      <3> SUFFICES ASSUME NEW j \in 1..Len(keys), j <= i, keys[j] = keys[i + 1]
                   PROVE  FALSE
        BY <2>1, <2>3 DEF KeysUpto
      <3> QED
        BY <1>2, <1>3, <2>2 DEF Distinct
    <2>5. HasRead(got, walk', n, current_object_, current_index_')
      <3>1. k \in Key
        BY <2>2, KeysDiffer
      <3>2. /\ KeysRead(got, walk', n) = KeysRead(got, walk, n)
            /\ walk'[n].kind = "struct"
        BY <1>1, <1>4, <3>1, MovedRead
      <3> QED
        BY <2>1, <2>3, <3>2 DEF HasRead
    <2> QED
      BY <1>1, <1>4, <2>1, <2>2, <2>4, <2>5, MovesToNew, KeysDiffer
  <1>5. CASE /\ From(Members) = {}
             /\ current_index_' = IF current_index_ < Len(property_names_)
                                  THEN Len(property_names_) ELSE current_index_
             /\ at' = "end" /\ UNCHANGED walk
    <2>1. /\ current_index_' \in Nat /\ current_index_' >= current_index_
          /\ current_index_' >= Len(keys)
      BY <1>2, <1>5
    <2>2. KeysRead(got, walk, n) =
              KeysUpto(current_object_, current_index_') \cap Members
      BY <1>1, <1>3, <1>5, <2>1, MovesPast
    <2>3. HasRead(got, walk, n, current_object_, current_index_')
      BY <1>1, <2>2 DEF HasRead
    <2>4. AllRead'
      BY <1>1, <1>5, <2>1 DEF AllRead, frame
    <2> QED
      BY <1>1, <1>5, <2>3, <2>4, EndIsReached
  <1> QED
    BY <1>4, <1>5 DEF begin_struct_member

LEMMA DiscriminatorRead ==
  ASSUME IInv, ReadInv, begin_discriminator
  PROVE  ReadInv'
  <1> DEFINE n == Len(walk)
  <1>1. /\ at = "inside" /\ Top(walk).kind = "union" /\ Top(walk).key = NoName
        /\ Top(walk) = walk[n]
    BY TopFrame DEF begin_discriminator, Inside, IInv
  <1>2. KeysRead(got, walk, n) = {}
    BY <1>1 DEF ReadInv, Going, InnerRead, HasRead
  <1>3. CASE MovesTo(Discriminator) /\ UNCHANGED <<frame, got, flaw>>
    <2>1. Discriminator \in Key
      BY KeysDiffer
    <2>2. HasRead(got, walk', n, current_object_, current_index_')
      BY <1>1, <1>2, <1>3, <2>1, MovedRead DEF HasRead
    <2> QED
      BY <1>1, <1>2, <1>3, <2>1, <2>2, MovesToNew
  <1>4. CASE Fails(~Holds(Discriminator))
    BY <1>4 DEF Fails, ReadInv, Going
  <1> QED
    BY <1>3, <1>4 DEF begin_discriminator

LEMMA UnionMemberRead ==
  ASSUME IInv, ReadInv, NEW m \in Members, begin_union_member(m)
  PROVE  ReadInv'
  <1> DEFINE n == Len(walk)
  <1>1. /\ at = "inside" /\ Top(walk).kind = "union"
        /\ Top(walk).key = Discriminator /\ Top(walk) = walk[n]
    BY TopFrame DEF begin_union_member, Inside, IInv
  <1>2. KeysRead(got, walk, n) \subseteq {Discriminator}
    BY <1>1, KeysDiffer DEF ReadInv, Going, InnerRead, HasRead
  <1>3. CASE MovesTo(m) /\ UNCHANGED <<frame, got, flaw>>
    <2>1. m \in Key /\ m # Discriminator /\ m # NoName
      BY KeysDiffer, NamesAssumption
    <2>2. HasRead(got, walk', n, current_object_, current_index_')
      BY <1>1, <1>2, <1>3, <2>1, MovedRead DEF HasRead
    <2> QED
      BY <1>1, <1>2, <1>3, <2>1, <2>2, MovesToNew
  <1>4. CASE Fails(Elements(current_object_.keys) \subseteq {Discriminator})
    BY <1>4 DEF Fails, ReadInv, Going
  <1> QED
    BY <1>3, <1>4 DEF begin_union_member

LEMMA UnionRead ==
  ASSUME IInv, ReadInv, UnionEnds
  PROVE  ReadInv'
  <1>1. /\ at = "inside" /\ at' = "end" /\ Top(walk).kind = "union"
        /\ UNCHANGED <<cursor, frame, walk, got>> /\ Top(walk) = walk[Len(walk)]
    BY TopFrame DEF UnionEnds, Inside, IInv
  <1>2. HasRead(got, walk, Len(walk), current_object_, current_index_')
    BY <1>1 DEF ReadInv, Going, InnerRead, cursor
  <1>3. AllRead'
    BY <1>1 DEF AllRead
  <1> QED
    BY <1>1, <1>2, <1>3, EndIsReached

LEMMA ElementRead ==
  ASSUME IInv, ReadInv, begin_element
  PROVE  ReadInv'
  <1> DEFINE n == Len(walk)
  <1>1. /\ at = "inside" /\ Top(walk).kind \in Lists /\ Top(walk) = walk[n]
        /\ current_index_ = NextElement /\ current_index_ \in Nat
        /\ NextElement \in Key
    <2>1. at = "inside" /\ Top(walk).kind \in Lists
      BY DEF begin_element, Inside
    <2> QED
      BY <2>1, KeysDiffer, TopFrame DEF IInv, Cursor, CursorInList, Shape
  <1>2. /\ HasRead(got, walk, n, current_object_, current_index_)
        /\ KeysRead(got, walk, n) = 0..(current_index_ - 1)
    BY <1>1 DEF ReadInv, Going, InnerRead, HasRead
  <1>3. CASE MovesTo(NextElement) /\ UNCHANGED <<cursor, frame, got, flaw>>
    <2>1. HasRead(got, walk', n, current_object_, current_index_')
      BY <1>1, <1>2, <1>3, MovedRead DEF HasRead, cursor
    <2>2. NextElement \notin KeysRead(got, walk, n)
      BY <1>1, <1>2
    <2> QED
      BY <1>1, <1>3, <2>1, <2>2, MovesToNew
  <1>4. CASE /\ \/ Inside("array") /\ NextElement = Width
                \/ Inside("sequence") /\ current_object_.array /\ ~Remaining
             /\ at' = "end" /\ UNCHANGED <<cursor, frame, walk, got, flaw>>
    <2>1. AllRead'
      <3>1. Len(current_object_.keys) \in Nat
        BY <1>1, WhenInside
      <3>2. CASE Top(walk).kind = "array" /\ NextElement = Width
        BY <1>1, <1>4, <3>2, ReaderBounds DEF AllRead, cursor
      <3>3. CASE Top(walk).kind = "sequence" /\ ~Remaining
        BY <1>1, <1>4, <3>1, <3>3 DEF AllRead, cursor, frame, Remaining
      <3> QED
        BY <1>4, <3>2, <3>3 DEF Inside
    <2>2. HasRead(got, walk, n, current_object_, current_index_')
      BY <1>2, <1>4 DEF cursor
    <2> QED
      BY <1>1, <1>4, <2>1, <2>2, EndIsReached
  <1>5. CASE Crashes(FALSE)
    BY <1>5 DEF Crashes, ReadInv, Going
  <1> QED
    BY <1>3, <1>4, <1>5 DEF begin_element

LEMMA ContainerRead ==
  ASSUME IInv, ReadInv, NEW kind \in Kinds, begin_nested(kind)
  PROVE  ReadInv'
  <1>1. at = "value"
    BY DEF begin_nested, AtMember, AtValue
  <1>2. CASE Crashes(FALSE) \/ Fails(TRUE)
    BY <1>2 DEF Crashes, Fails, ReadInv, Going
  <1>3. ASSUME NEW o \in JavaScriptObjects(Place(Found)), Opens(o),
               walk' = Append(walk, [kind |-> kind, key |-> NoName]),
               at' = "inside", Got(Place(Found))
        PROVE  ReadInv'
    BY <1>1, <1>3, KeysAreDistinct, NothingReadYet
  <1> QED
    BY <1>2, <1>3 DEF begin_nested

LEMMA ValueRead ==
  ASSUME IInv, ReadInv, \/ primitive_helper \/ member_has_value
                        \/ read_converted \/ read_bitmask \/ read_string
                        \/ read_unsupported
  PROVE  ReadInv'
  <1>1. at = "value"
    BY DEF primitive_helper, member_has_value, read_converted, read_bitmask,
           read_string, read_unsupported, AtMember, AtValue
  <1>2. ASSUME NEW place, at' = "item", Got(place),
               UNCHANGED <<cursor, frame, walk>>
        PROVE  ReadInv'
    BY <1>1, <1>2, ItemIsRead
  <1>3. ASSUME at' \in Stopped PROVE ReadInv'
    BY <1>3 DEF ReadInv, Going
  <1> QED
    BY <1>2, <1>3
       DEF primitive_helper, member_has_value, read_converted, read_bitmask,
           read_string, read_unsupported, Reads, Fails, Crashes

\* Every call keeps what was read in step with the cursors.
LEMMA NextRead == IInv /\ ReadInv /\ [Next]_vars => ReadInv'
  <1> SUFFICES ASSUME IInv, ReadInv, [Next]_vars PROVE ReadInv'
    OBVIOUS
  <1>1. CASE \E kind \in Kinds : begin_nested(kind)
    BY <1>1, ContainerRead
  <1>2. CASE begin_struct_member \/ begin_discriminator
    BY <1>2, StructMemberRead, DiscriminatorRead
  <1>3. CASE \E m \in Members : begin_union_member(m)
    BY <1>3, UnionMemberRead
  <1>4. CASE UnionEnds \/ begin_element
    BY <1>4, UnionRead, ElementRead
  <1>5. CASE \/ primitive_helper \/ member_has_value \/ read_converted
             \/ read_bitmask \/ read_string \/ read_unsupported
    BY <1>5, ValueRead
  <1>6. CASE end_item \/ end_container
    BY <1>6, PassesOn, ClosesRead
  <1>7. CASE UNCHANGED vars
    BY <1>7 DEF vars, cursor, frame, ReadInv, Going, OuterRead, InnerRead,
                ValueIsNew, AllRead, Top
  <1> QED
    BY <1>1, <1>2, <1>3, <1>4, <1>5, <1>6, <1>7 DEF Next

LEMMA ReadInvariance == Spec => []ReadInv
  BY InitRead, NextRead, Invariance, PTL DEF Spec

\* Two sequences begin alike if their elements do.
LEMMA SameBeginning ==
  ASSUME NEW s \in Seq(Frames), NEW t \in Seq(Frames),
         NEW n \in Nat, n <= Len(s), n <= Len(t)
  PROVE  SubSeq(s, 1, n) = SubSeq(t, 1, n) <=> \A i \in 1..n : s[i] = t[i]
  <1>1. /\ SubSeq(s, 1, n) = [i \in 1..n |-> s[i]]
        /\ SubSeq(t, 1, n) = [i \in 1..n |-> t[i]]
    OBVIOUS
  <1> QED
    BY <1>1

\* In each open container what was read is what lies before its cursor, and
\* at its end that is everything: end_nested (src/NodeValueReader.cpp:476) takes
\* back the index of the container it returns to.
THEOREM AllIsReadInOrder == Spec => []NothingSkipped
  <1> DEFINE objects == Append(object_stack_, current_object_)
             indexes == Append(index_stack_, current_index_)
             Read(d) == {g[1][d].key : g \in {x \in got :
                           /\ Len(x[1]) >= d
                           /\ SubSeq(x[1], 1, d - 1) = SubSeq(walk, 1, d - 1)}}
             Upto(d) == indexes[d] +
                            (IF d < Len(walk) \/ at = "item" THEN 1 ELSE 0)
             Before(d) == {objects[d].keys[i] :
                             i \in 1..Len(objects[d].keys) \cap 1..Upto(d)}
  <1>1. ASSUME IInv, ReadInv, TypeOK, Going, NEW d \in 2..Len(walk)
        PROVE  /\ walk[d].kind = "struct" => Read(d) = Before(d) \cap Members
               /\ walk[d].kind \in {"array", "sequence"} =>
                      Read(d) = 0..(Upto(d) - 1)
               /\ d = Len(walk) /\ at = "end" /\ walk[d].kind # "union" =>
                      Upto(d) >= IF walk[d].kind = "array" THEN Width
                                 ELSE Len(objects[d].keys)
    <2> DEFINE n == Len(walk)
    <2>1. /\ walk \in Seq(Frames) /\ n \in Nat \ {0} /\ Top(walk) = walk[n]
          /\ Len(object_stack_) = n - 1 /\ Len(index_stack_) = n - 1
          /\ object_stack_ \in Seq(Objects) /\ index_stack_ \in Seq(Nat)
          /\ current_object_ \in Objects /\ current_index_ \in Nat
          /\ d \in Nat /\ d - 1 \in Nat
      BY <1>1, TopFrame DEF IInv, Shape
    <2>2. OuterRead /\ InnerRead /\ AllRead
      BY <1>1 DEF ReadInv
    <2>3. Read(d) = KeysRead(got, walk, d)
      <3>1. ASSUME NEW x \in got, Len(x[1]) >= d
            PROVE  SubSeq(x[1], 1, d - 1) = SubSeq(walk, 1, d - 1)
                       <=> \A i \in 1..(d - 1) : x[1][i] = walk[i]
        <4>1. x[1] \in Seq(Frames)
          BY <1>1 DEF TypeOK
        <4>2. d - 1 <= Len(x[1]) /\ d - 1 <= Len(walk)
          BY <2>1, <3>1, <4>1
        <4> QED
          BY <2>1, <4>1, <4>2, SameBeginning
      <3> QED
        BY <3>1 DEF KeysRead
    <2>4. /\ d = n => /\ objects[d] = current_object_
                      /\ indexes[d] = current_index_
          /\ d # n => /\ d \in 1..Len(object_stack_) /\ d < n
                      /\ objects[d] = object_stack_[d]
                      /\ indexes[d] = index_stack_[d]
                      /\ object_stack_[d] \in Objects /\ index_stack_[d] \in Nat
      BY <2>1
    <2> HIDE DEF objects, indexes, Read
    <2>5. objects[d] \in Objects /\ indexes[d] \in Nat
      BY <2>1, <2>4
    <2>6. /\ d < n \/ at = "item" => Upto(d) = indexes[d] + 1
          /\ ~(d < n \/ at = "item") => Upto(d) = indexes[d]
          /\ Upto(d) \in Nat
      BY <2>5
    <2> HIDE DEF Upto
    <2>7. HasRead(got, walk, d, objects[d], Upto(d))
      <3>1. CASE d = n
        <4>1. HasRead(got, walk, d, objects[d],
                      IF at = "item" THEN indexes[d] + 1 ELSE indexes[d])
          BY <2>2, <2>4, <3>1 DEF InnerRead
        <4>2. Upto(d) = IF at = "item" THEN indexes[d] + 1 ELSE indexes[d]
          BY <2>1, <2>6, <3>1
        <4> QED
          BY <4>1, <4>2
      <3>2. CASE d # n
        BY <2>2, <2>4, <2>6, <3>2 DEF OuterRead
      <3> QED
        BY <3>1, <3>2
    <2>8. Before(d) = KeysUpto(objects[d], Upto(d))
      <3>1. \A i \in 1..Len(objects[d].keys) : i \in 1..Upto(d) <=> i <= Upto(d)
        BY <2>6
      <3> QED
        BY <3>1 DEF KeysUpto
    <2> HIDE DEF Before
    <2>9. /\ walk[d].kind = "struct" => Read(d) = Before(d) \cap Members
          /\ walk[d].kind \in {"array", "sequence"} =>
                 Read(d) = 0..(Upto(d) - 1)
      BY <2>3, <2>7, <2>8 DEF HasRead
    <2>10. ASSUME d = n, at = "end", walk[d].kind # "union"
           PROVE  Upto(d) >= IF walk[d].kind = "array" THEN Width
                             ELSE Len(objects[d].keys)
      <3>1. Upto(d) = current_index_ /\ objects[d] = current_object_
        BY <2>1, <2>4, <2>6, <2>10
      <3>2. walk[d].kind \in {"struct", "array", "sequence"}
        BY <1>1, <2>1, <2>10, TopFrame DEF IInv, Inner, Fits
      <3> QED
        BY <2>1, <2>2, <2>10, <3>1, <3>2 DEF AllRead
    <2> QED
      BY <2>9, <2>10
  <1>2. IInv /\ ReadInv /\ TypeOK => NothingSkipped
    BY <1>1 DEF NothingSkipped, Going
  <1> QED
    BY <1>2, Invariance, ReadInvariance, TypeCorrect, PTL
=============================================================================
