-------------------------- MODULE NodeValueReader --------------------------
(***************************************************************************)
(* How a JavaScript value becomes a sample or a qos policy                 *)
(* (src/NodeValueReader.{h,cpp}). A reader is made for one value. While    *)
(* OpenDDS walks the type it calls begin_..., end_... and read_...; the    *)
(* reader keeps a cursor on the object that the container comes from: an   *)
(* index into its elements or its property names, and the name found last. *)
(*                                                                         *)
(* Type and value are chosen as the walk meets them. An object has its     *)
(* keys and its place in the value; what kind of primitive a key holds is  *)
(* only seen in whether a read succeeds. A getter that throws is a value   *)
(* that is not there, and an Array has only its elements.                  *)
(*                                                                         *)
(* Outside src/: OpenDDS (vread) walks the type depth first, gives up when *)
(* a call returns false, reads the members of a struct in the order in     *)
(* which begin_struct_member names them, counts elements from 0, and asks  *)
(* member_has_value before it reads an optional member. Values and qos are *)
(* structs or unions, a discriminator is no container and no string.       *)
(***************************************************************************)
EXTENDS Integers, Sequences, FiniteSets

CONSTANTS
    Members,        \* names of members of structs and branches of unions
    Discriminator,  \* the name "$discriminator"
    NoName,         \* the empty handle; in a walk, before the first key
    Width,          \* elements of an IDL array
    MaxLength,      \* bound on the elements of a JavaScript array
    MaxDepth,       \* bound on the nesting of containers
    MaxReads        \* bound on the values read

Names == Members \cup {Discriminator}

ASSUME NamesAssumption ==
    /\ IsFiniteSet(Members)
    /\ Discriminator \notin Members /\ NoName \notin Names \cup Nat
    /\ Names \cap Nat = {}
ASSUME ReaderBounds ==
    /\ Width \in Nat \ {0} /\ MaxLength \in Nat
    /\ MaxDepth \in Nat /\ MaxReads \in Nat

VARIABLES
    current_object_,        \* the object being read
    current_index_,         \* index of an element or a property name
    property_names_,        \* the names of the object, from 1
    current_property_name_, \* the name found last, or NoName
    use_name_,              \* is a value found by name?
    object_stack_,          \* the objects around it, innermost last ...
    index_stack_,           \* ... and the index each was left at
    walk,                   \* OpenDDS: open containers and where each is at
    at,                     \* OpenDDS: "inside" a container, due to read a
                            \* "value", after an "item", at a container's
                            \* "end"; "done", "failed", "unsupported",
                            \* "crashed"
    got,                    \* what was read: <<walk, place in the value>>
    flaw                    \* the value lacks something the type requires,
                            \* of what the walk has met

cursor == <<current_index_, current_property_name_>>
frame  == <<current_object_, property_names_, use_name_, object_stack_,
            index_stack_>>
vars   == <<cursor, frame, walk, at, got, flaw>>

Key == Names \cup Nat
Objects == [array : BOOLEAN, keys : Seq(Key), path : Seq(Key)]
Kinds == {"struct", "union", "array", "sequence"}
Frames == [kind : Kinds \cup {"top"}, key : Key \cup {NoName}]

Top(s) == s[Len(s)]
Pop(s) == SubSeq(s, 1, Len(s) - 1)
Elements(s) == {s[i] : i \in DOMAIN s}

TypeOK ==
    /\ current_object_ \in Objects
    /\ current_index_ \in Nat
    /\ property_names_ \in Seq(Key)
    /\ current_property_name_ \in Key \cup {NoName}
    /\ use_name_ \in BOOLEAN
    /\ object_stack_ \in Seq(Objects) /\ index_stack_ \in Seq(Nat)
    /\ walk \in Seq(Frames)
    /\ at \in {"inside", "value", "item", "end",
               "done", "failed", "unsupported", "crashed"}
    /\ got \subseteq Seq(Frames) \X Seq(Key)
    /\ flaw \in BOOLEAN

\* What a key may hold, if an object: an Array, or an Object with indexes from
\* 0, which V8 puts first (a typed array, say), and any names in any order.
Indexes(n) == [i \in 1..n |-> i - 1]
NameLists == UNION {{f \in [1..n -> Names] :
                        \A i, j \in 1..n : f[i] = f[j] => i = j} :
                     n \in 0..Cardinality(Names)}
JavaScriptObjects(path) ==
    {[array |-> FALSE, keys |-> Indexes(n) \o s, path |-> path] :
        n \in 0..MaxLength, s \in NameLists}
    \cup {[array |-> TRUE, keys |-> Indexes(n), path |-> path] :
        n \in 0..MaxLength}

\* The constructor nests the value: element 0 of an object made for it.
Init ==
    /\ current_object_ = [array |-> FALSE, keys |-> <<0>>, path |-> <<>>]
    /\ current_index_ = 0
    /\ property_names_ = <<>>
    /\ current_property_name_ = NoName
    /\ use_name_ = FALSE
    /\ object_stack_ = <<>> /\ index_stack_ = <<>>
    /\ walk = <<[kind |-> "top", key |-> 0]>>
    /\ at = "value" /\ got = {} /\ flaw = FALSE

-----------------------------------------------------------------------------
(* The helpers of the reader.                                              *)

\* The key that begin_nested, read_string, read_int64, read_long_enum and
\* read_bitmask look up, and the one for primitive_helper, member_has_value.
Found == IF use_name_ THEN current_property_name_ ELSE current_index_
FoundPrimitive == IF current_property_name_ = NoName THEN current_index_
                  ELSE current_property_name_

Holds(k) == k \in Elements(current_object_.keys)
Place(k) == Append(current_object_.path, k)

\* The first name of S from the cursor on, which moves there, or to the end.
From(S) == {i \in current_index_..(Len(property_names_) - 1) :
                property_names_[i + 1] \in S}
Finds(S) ==
    \E i \in From(S) :
        /\ \A j \in From(S) : i <= j
        /\ current_index_' = i
        /\ current_property_name_' = property_names_[i + 1]

Opens(o) ==
    /\ object_stack_' = Append(object_stack_, current_object_)
    /\ index_stack_' = Append(index_stack_, current_index_)
    /\ current_object_' = o
    /\ current_index_' = 0
    /\ use_name_' = ~o.array
    /\ property_names_' = o.keys
    /\ current_property_name_' = NoName

IndexLeft_Bug == 0                          \* starts again
IndexLeft == Top(index_stack_)

ByName_Bug(o) == use_name_                  \* not set again
ByName(o) == ~o.array

NameLeft_Bug == current_property_name_      \* not cleared
NameLeft == NoName

end_nested ==
    /\ current_object_' = Top(object_stack_)
    /\ object_stack_' = Pop(object_stack_)
    /\ current_index_' = IndexLeft
    /\ index_stack_' = Pop(index_stack_)
    /\ use_name_' = ByName(Top(object_stack_))
    /\ property_names_' = Top(object_stack_).keys
    /\ current_property_name_' = NameLeft

-----------------------------------------------------------------------------
(* The calls OpenDDS makes. Their guards are OpenDDS's.                    *)

AtValue == at = "value" /\ Cardinality(got) < MaxReads
AtMember == AtValue /\ Top(walk).key # Discriminator
Inside(kind) == at = "inside" /\ Top(walk).kind = kind

MovesTo(key) ==
    /\ walk' = [walk EXCEPT ![Len(walk)].key = key]
    /\ at' = "value"

Fails(why) ==
    /\ at' = "failed" /\ flaw' = (flaw \/ why)
    /\ UNCHANGED <<cursor, frame, walk, got>>

\* An empty handle as a key, or an Object cast to an Array: V8 aborts, or
\* what it does is undefined.
Crashes(why) ==
    /\ at' = "crashed" /\ flaw' = (flaw \/ why)
    /\ UNCHANGED <<cursor, frame, walk, got>>

Got(place) == got' = got \cup {<<walk, place>>}

\* begin_struct, begin_union, begin_array, begin_sequence
begin_nested(kind) ==
    /\ AtMember
    /\ Top(walk).kind = "top" => kind \in {"struct", "union"}
    /\ \/ /\ Found = NoName /\ Crashes(FALSE)
       \/ /\ Found # NoName /\ Fails(TRUE)
       \/ /\ Found # NoName /\ Holds(Found) /\ Len(walk) <= MaxDepth
          /\ \E o \in JavaScriptObjects(Place(Found)) :
                 Opens(o)
          /\ walk' = Append(walk, [kind |-> kind, key |-> NoName])
          /\ at' = "inside"
          /\ Got(Place(Found))
          /\ UNCHANGED flaw

\* Names no member has are passed over.
begin_struct_member ==
    /\ Inside("struct")
    /\ \/ /\ Finds(Members)
          /\ MovesTo(current_property_name_')
       \/ /\ From(Members) = {}
          /\ current_index_' = IF current_index_ < Len(property_names_)
                               THEN Len(property_names_) ELSE current_index_
          /\ current_property_name_' =
                 IF current_index_ < Len(property_names_)
                 THEN Top(property_names_) ELSE current_property_name_
          /\ at' = "end"
          /\ UNCHANGED walk
    /\ UNCHANGED <<frame, got, flaw>>

begin_discriminator ==
    /\ Inside("union") /\ Top(walk).key = NoName
    /\ \/ /\ Finds({Discriminator})
          /\ MovesTo(Discriminator)
          /\ UNCHANGED <<frame, got, flaw>>
       \/ /\ From({Discriminator}) = {}
          /\ Fails(~Holds(Discriminator))

\* The discriminator has selected the branch m. The first other name is taken
\* for it: the reader does not compare.
begin_union_member(m) ==
    /\ Inside("union") /\ Top(walk).key = Discriminator
    /\ LET Others == Key \ {Discriminator}
       IN  \/ /\ Finds(Others)
              /\ MovesTo(m)
              /\ UNCHANGED <<frame, got, flaw>>
           \/ /\ From(Others) = {}
              /\ Fails(Elements(current_object_.keys) \subseteq {Discriminator})

\* The branch was read, or the discriminator selects none.
UnionEnds ==
    /\ Inside("union") /\ Top(walk).key # NoName
    /\ at' = "end"
    /\ UNCHANGED <<cursor, frame, walk, got, flaw>>

NextElement == IF Top(walk).key = NoName THEN 0 ELSE Top(walk).key + 1

Remaining_Bug == Len(current_object_.keys) > current_index_ + 1
Remaining == Len(current_object_.keys) > current_index_

\* elements_remaining and begin_element
begin_element ==
    \/ /\ \/ Inside("array") /\ NextElement < Width
          \/ Inside("sequence") /\ current_object_.array /\ Remaining
       /\ MovesTo(NextElement)
       /\ UNCHANGED <<cursor, frame, got, flaw>>
    \/ /\ \/ Inside("array") /\ NextElement = Width
          \/ Inside("sequence") /\ current_object_.array /\ ~Remaining
       /\ at' = "end"
       /\ UNCHANGED <<cursor, frame, walk, got, flaw>>
    \/ /\ Inside("sequence") /\ ~current_object_.array
       /\ Crashes(FALSE)

\* A read that finds its kind of value at key k, or fails.
Reads(k) ==
    /\ Top(walk).kind # "top"
    /\ \/ /\ Holds(k)
          /\ at' = "item"
          /\ Got(Place(k))
          /\ UNCHANGED <<cursor, frame, walk, flaw>>
       \/ Fails(TRUE)

\* read_boolean ... read_uint32, read_float32, read_float64, read_float128
primitive_helper == AtValue /\ Reads(FoundPrimitive)

\* An optional member is null or its getter throws: OpenDDS reads nothing.
member_has_value ==
    /\ AtValue /\ Top(walk).kind = "struct" /\ Holds(FoundPrimitive)
    /\ at' = "item"
    /\ Got(Place(FoundPrimitive))
    /\ UNCHANGED <<cursor, frame, walk, flaw>>

\* read_int64, read_uint64, read_long_enum
read_converted ==
    /\ AtValue
    /\ \/ Found = NoName /\ Crashes(FALSE)
       \/ Found # NoName /\ Reads(Found)

\* An Array of the names of flags; any other Object is taken for one.
read_bitmask ==
    /\ AtMember /\ Top(walk).kind # "top"
    /\ \/ Found = NoName /\ Crashes(FALSE)
       \/ Found # NoName /\ Reads(Found)
       \/ Found # NoName /\ Holds(Found) /\ Crashes(TRUE)

\* read_string, read_wstring, read_char8, read_char16: any value but a Symbol
\* has a text, also a missing element.
read_string ==
    /\ AtMember /\ Top(walk).kind # "top"
    /\ \/ Found = NoName /\ Crashes(FALSE)
       \/ Found # NoName /\ Fails(TRUE)
       \/ /\ Found # NoName
          /\ at' = "item"
          /\ Got(Place(Found))
          /\ UNCHANGED <<cursor, frame, walk, flaw>>

\* begin_map, read_fixed: no value is good enough.
read_unsupported ==
    /\ AtMember /\ Top(walk).kind # "top"
    /\ at' = "unsupported"
    /\ UNCHANGED <<cursor, frame, walk, got, flaw>>

Advanced_Bug == current_index_ + 1          \* a union does not start again
Advanced == IF Top(walk).kind = "union" THEN 0 ELSE current_index_ + 1

\* end_struct_member, end_discriminator, end_union_member, end_element
end_item ==
    /\ at = "item"
    /\ current_index_' = Advanced
    /\ at' = "inside"
    /\ UNCHANGED <<current_property_name_, frame, walk, got, flaw>>

\* end_struct, end_union, end_array, end_sequence
end_container ==
    /\ at = "end"
    /\ end_nested
    /\ walk' = Pop(walk)
    /\ at' = IF Len(walk) = 2 THEN "done" ELSE "item"
    /\ UNCHANGED <<got, flaw>>

Next ==
    \/ \E kind \in Kinds : begin_nested(kind)
    \/ begin_struct_member
    \/ begin_discriminator
    \/ \E m \in Members : begin_union_member(m)
    \/ UnionEnds
    \/ begin_element
    \/ primitive_helper
    \/ member_has_value
    \/ read_converted
    \/ read_bitmask
    \/ read_string
    \/ read_unsupported
    \/ end_item
    \/ end_container

Spec == Init /\ [][Next]_vars

-----------------------------------------------------------------------------
(* Properties.                                                             *)

\* An array or a sequence was given an Object, which the README forbids
\* ("must be passed as arrays"). For an array of primitives it will do.
Misshapen ==
    Top(walk).kind \in {"array", "sequence"} /\ ~current_object_.array

\* Every value comes from its own place, however deep and whatever was read
\* before it. Only a union's branch may have another name.
ReadsItsOwn ==
    \A g \in got :
        /\ Len(g[1]) = Len(g[2])
        /\ \A i \in 1..Len(g[1]) :
               \/ g[1][i].key = g[2][i]
               \/ /\ g[1][i].kind = "union"
                  /\ Discriminator \notin {g[1][i].key, g[2][i]}

\* The two ways to look a value up, by use_name_ and by whether a name is
\* there, find the same key whenever OpenDDS reads one.
LookupsAgree == at = "value" => Found = FoundPrimitive \/ Misshapen

\* V8 is never handed an empty name or a false Array but for an Object where
\* the type has an array, a sequence or a bitmask.
CrashExplained == at = "crashed" => flaw \/ Misshapen

\* The reader refuses a value if and only if it lacks what the type requires:
\* it finds discriminators and branches in any order of the names, and gives
\* nothing up because of what it read before. Not said of a type with maps or
\* fixed-point numbers, of which it refuses every value.
AcceptsWhatFits == at \in {"failed", "done"} => (at = "failed" <=> flaw)

\* In each open container what was read is what lies before its cursor, in a
\* struct the members among it, and at its end that is everything: an index
\* taken back from the stack is that of the container it was left in.
NothingSkipped ==
    LET objects == Append(object_stack_, current_object_)
        indexes == Append(index_stack_, current_index_)
        Read(d) == {g[1][d].key : g \in {x \in got :
                        /\ Len(x[1]) >= d
                        /\ SubSeq(x[1], 1, d - 1) = SubSeq(walk, 1, d - 1)}}
        Upto(d) == indexes[d] + (IF d < Len(walk) \/ at = "item" THEN 1 ELSE 0)
        Before(d) == {objects[d].keys[i] :
                        i \in 1..Len(objects[d].keys) \cap 1..Upto(d)}
    IN  at \in {"inside", "value", "item", "end"} =>
        \A d \in 2..Len(walk) :
            /\ walk[d].kind = "struct" => Read(d) = Before(d) \cap Members
            /\ walk[d].kind \in {"array", "sequence"} =>
                   Read(d) = 0..(Upto(d) - 1)
            /\ d = Len(walk) /\ at = "end" /\ walk[d].kind # "union" =>
                   Upto(d) >= IF walk[d].kind = "array" THEN Width
                              ELSE Len(objects[d].keys)
=============================================================================
