-------------------------- MODULE NodeValueWriter --------------------------
(***************************************************************************)
(* How a sample becomes a JavaScript value (src/NodeValueWriter.{h,cpp}).  *)
(* One writer per subscription, kept from sample to sample. While OpenDDS  *)
(* walks a sample it calls begin_... and end_... around containers,        *)
(* members and elements and write_... for values; the writer keeps the     *)
(* containers that are open on object_stack_, each already a property of   *)
(* the one beneath it. They are Locals: they last as long as the handle    *)
(* scope of one async() of NodeDRListener, which writes some samples.      *)
(*                                                                         *)
(* Members are numbered in the order of their struct and stand for their   *)
(* names. Primitive values, enums, strings and the flags of a bitmask are  *)
(* one value; their conversion is not modelled, and neither is V8 running  *)
(* out of memory.                                                          *)
(*                                                                         *)
(* Outside src/: OpenDDS walks a sample depth first, in the order of the   *)
(* members, and gives the sample up when a call returns false. Samples are *)
(* structs or unions, a discriminator is no container and has no fixed     *)
(* type, and only a struct's member can be absent.                         *)
(***************************************************************************)
EXTENDS Integers, Sequences, FiniteSets

CONSTANTS
    Width,      \* members of a struct, elements of an array
    MaxDepth,   \* nesting of containers in a sample
    MaxSize,    \* members and elements in a sample
    MaxSamples  \* bound on the samples written

ASSUME ValueWriterAssumption ==
    /\ Width \in Nat \ {0} /\ MaxDepth \in Nat \ {0}
    /\ MaxSize \in Nat /\ MaxSamples \in Nat

NoKey == -1             \* the empty string; in a walk, before the first key
Discriminator == -2     \* the key "$discriminator"
None == 0               \* the empty handle; objects are numbered from 1

Leaves == {"primitive", "null"}
Containers == {"struct", "union", "array"}

VARIABLES
    isArray,        \* one entry per object: is it an Array?
    props,          \* <<object, key, value>>; value: <<a leaf, None>> or
                    \* <<"object", its number>>
    object_stack_,  \* the containers being written, innermost last
    result_,        \* the finished object, or None
    next_key_,      \* the property the next value is for ...
    next_index_,    \* ... in an Object and in an Array
    walk,           \* OpenDDS: open containers of the sample, with the member
                    \* or element each is at
    at,             \* OpenDDS: "idle", "inside" a container, due to write a
                    \* "value", or "done"; "fault": a stale handle was used
    sent,           \* the sample so far: <<path, leaf or container>>
    samples,        \* samples begun
    failed,         \* a write failed before
    stale           \* object_stack_ has handles of a scope that has ended

v8Vars == <<isArray, props>>
writerVars == <<object_stack_, result_, next_key_, next_index_>>
walkVars == <<walk, at, sent, samples, failed>>
vars == <<v8Vars, writerVars, walkVars, stale>>

Objects == 1..Len(isArray)
Keys == Discriminator..Width

TypeOK ==
    /\ isArray \in Seq(BOOLEAN)
    /\ \A e \in props :
           /\ e[1] \in Objects /\ e[2] \in Keys
           /\ e[3] \in (Leaves \X {None}) \cup ({"object"} \X Objects)
    /\ object_stack_ \in Seq(Objects)
    /\ result_ \in Objects \cup {None}
    /\ next_key_ \in Keys /\ next_index_ \in 0..(Width - 1)
    /\ walk \in Seq([kind : Containers, key : Keys])
    /\ at \in {"idle", "inside", "value", "done", "fault"}
    /\ samples \in 0..MaxSamples /\ {failed, stale} \subseteq BOOLEAN

Init ==
    /\ isArray = <<>> /\ props = {}
    /\ object_stack_ = <<>> /\ result_ = None
    /\ next_key_ = NoKey /\ next_index_ = 0
    /\ walk = <<>> /\ at = "idle" /\ sent = {}
    /\ samples = 0 /\ failed = FALSE /\ stale = FALSE

Top(s) == s[Len(s)]
Pop(s) == SubSeq(s, 1, Len(s) - 1)

\* Where the walk is: the key of every open container.
Path == [i \in 1..Len(walk) |-> walk[i].key]

-----------------------------------------------------------------------------
(* The helpers of the writer.                                              *)

\* The property of the innermost container that the next value is for.
NextProperty_Bug == IF isArray[Top(object_stack_)] THEN 0 ELSE next_key_
NextProperty ==
    IF isArray[Top(object_stack_)] THEN next_index_ ELSE next_key_

Set(o, k, v) == {e \in props : <<e[1], e[2]>> # <<o, k>>} \cup {<<o, k, v>>}

\* object_helper: the new object becomes a property of the innermost one,
\* unless there is none, and then the innermost itself.
object_helper(array) ==
    LET o == Len(isArray) + 1
    IN  /\ isArray' = Append(isArray, array)
        /\ props' = IF object_stack_ = <<>> THEN props
                    ELSE Set(Top(object_stack_), NextProperty, <<"object", o>>)
        /\ object_stack_' = Append(object_stack_, o)

IsResult_Bug == TRUE                        \* whatever the depth
IsResult == Len(object_stack_) = 1

Popped_Bug == IF IsResult THEN object_stack_ ELSE Pop(object_stack_)
Popped == Pop(object_stack_)

-----------------------------------------------------------------------------
(* The calls OpenDDS makes. Their guards are OpenDDS's.                    *)

\* OpenDDS is between the members of a container of this kind, or due to
\* write a value that is not a discriminator.
Inside(kind) ==
    at = "inside" /\ Top(walk).kind = kind /\ Cardinality(sent) < MaxSize
AtMember == at = "value" /\ Top(walk).key # Discriminator

\* begin_struct, begin_union, begin_array, begin_sequence
begin_container(kind) ==
    /\ \/ /\ at = "idle" /\ ~stale
          /\ kind # "array" /\ samples < MaxSamples
          /\ samples' = samples + 1
          /\ UNCHANGED sent
       \/ /\ AtMember /\ Len(walk) < MaxDepth
          /\ sent' = sent \cup {<<Path, kind>>}
          /\ UNCHANGED samples
    /\ object_helper(kind = "array")
    /\ UNCHANGED <<result_, next_key_, next_index_>>
    /\ walk' = Append(walk, [kind |-> kind, key |-> NoKey])
    /\ at' = "inside"
    /\ UNCHANGED <<failed, stale>>

\* The same, with a stale handle innermost: insert_object looks at the object
\* it names, and what that is now is undefined.
begin_stale ==
    /\ at = "idle" /\ stale /\ samples < MaxSamples
    /\ at' = "fault"
    /\ UNCHANGED <<v8Vars, writerVars, walk, sent, samples, failed, stale>>

MovesTo(key) ==
    /\ at' = "value"
    /\ walk' = [walk EXCEPT ![Len(walk)].key = key]
    /\ UNCHANGED <<v8Vars, object_stack_, result_, sent, samples, failed,
                   stale>>

begin_struct_member(m) ==
    /\ Inside("struct") /\ Top(walk).key < m
    /\ next_key_' = m
    /\ UNCHANGED next_index_
    /\ MovesTo(m)

begin_discriminator ==
    /\ Inside("union") /\ Top(walk).key = NoKey
    /\ next_key_' = Discriminator
    /\ UNCHANGED next_index_
    /\ MovesTo(Discriminator)

begin_union_member(m) ==
    /\ Inside("union") /\ Top(walk).key = Discriminator
    /\ next_key_' = m
    /\ UNCHANGED next_index_
    /\ MovesTo(m)

begin_element(idx) ==
    /\ Inside("array") /\ Top(walk).key = idx - 1
    /\ next_index_' = idx
    /\ UNCHANGED next_key_
    /\ MovesTo(idx)

Sent(leaf) ==
    /\ at' = "inside"
    /\ sent' = sent \cup {<<Path, leaf>>}
    /\ UNCHANGED <<isArray, writerVars, walk, samples, failed, stale>>

\* write_boolean ... write_wstring and write_enum through value_helper,
\* write_bitmask through insert_object
write_value ==
    /\ at = "value"
    /\ props' = Set(Top(object_stack_), NextProperty, <<"primitive", None>>)
    /\ Sent("primitive")

write_absent_value ==
    /\ at = "value" /\ Top(walk).kind = "struct"
    /\ props' = Set(Top(object_stack_), next_key_, <<"null", None>>)
    /\ Sent("null")

write_fixed ==
    /\ AtMember
    /\ UNCHANGED props
    /\ Sent("fixed")

\* A write fails: begin_map, or write_enum with a value that has no name.
\* OpenDDS gives the sample up, and push_back() returns.
write_fails ==
    /\ at = "value" /\ at' = "idle"
    /\ walk' = <<>> /\ sent' = {}
    /\ failed' = TRUE
    /\ UNCHANGED <<v8Vars, writerVars, samples, stale>>

\* end_struct, end_union, end_array, end_sequence
end_container ==
    /\ at = "inside"
    /\ Top(walk).kind = "union" => Top(walk).key # NoKey
    /\ result_' = IF IsResult THEN Top(object_stack_) ELSE result_
    /\ object_stack_' = Popped
    /\ UNCHANGED <<v8Vars, next_key_, next_index_>>
    /\ walk' = Pop(walk)
    /\ at' = IF Len(walk) = 1 THEN "done" ELSE "inside"
    /\ UNCHANGED <<sent, samples, failed, stale>>

\* push_back() passes the result on. Objects nothing refers to are forgotten.
get_result ==
    /\ at = "done" /\ at' = "idle" /\ sent' = {}
    /\ result_' = None
    /\ \/ object_stack_ = <<>> /\ isArray' = <<>> /\ props' = {}
       \/ object_stack_ # <<>> /\ UNCHANGED v8Vars
    /\ UNCHANGED <<object_stack_, next_key_, next_index_, walk, samples,
                   failed, stale>>

\* async() returns, and with it ends the scope of the handles made in it.
scope_ends ==
    /\ at = "idle"
    /\ stale' = (object_stack_ # <<>>)
    /\ UNCHANGED <<v8Vars, writerVars, walkVars>>

Next ==
    \/ \E kind \in Containers : begin_container(kind)
    \/ \E m \in 1..Width : begin_struct_member(m) \/ begin_union_member(m)
    \/ begin_stale
    \/ begin_discriminator
    \/ \E idx \in 0..(Width - 1) : begin_element(idx)
    \/ write_value
    \/ write_absent_value
    \/ write_fixed
    \/ write_fails
    \/ end_container
    \/ get_result
    \/ scope_ends

Spec == Init /\ [][Next]_vars

-----------------------------------------------------------------------------
(* Properties.                                                             *)

\* Everything below object o, to depth n, as <<path, leaf or kind>>.
Below[n \in 0..MaxDepth] == [o \in Objects |->
    IF n = 0 THEN {}
    ELSE UNION {IF e[3][1] # "object" THEN {<<<<e[2]>>, e[3][1]>>}
                ELSE {<<<<e[2]>>, IF isArray[e[3][2]] THEN "array" ELSE "object">>}
                     \cup {<<<<e[2]>> \o b[1], b[2]>> : b \in Below[n - 1][e[3][2]]}
                : e \in {x \in props : x[1] = o}}]

\* What the sample should look like: unions are Objects too, and a member of
\* type fixed does not appear, as write_fixed writes nothing.
Wanted == {<<s[1], IF s[2] \in {"struct", "union"} THEN "object" ELSE s[2]>> :
               s \in {x \in sent : x[2] # "fixed"}}

\* Until a write fails, the value JavaScript receives has the sample's shape
\* and values: each value at its own path, however deep and in whatever order
\* containers were nested, and nothing of an earlier sample.
ResultIsSample ==
    at = "done" /\ ~failed => result_ # None /\ Below[MaxDepth][result_] = Wanted

\* The innermost objects on the stack are the containers of the walk, each
\* held by the one beneath at the walk's key. Others lie under them after a
\* failed write, and only then: a stack that no end_... call ever empties.
StackFollowsWalk ==
    LET extra == Len(object_stack_) - Len(walk)
    IN  /\ extra >= 0
        /\ failed <=> extra > 0
        /\ \A i \in 1..(Len(walk) - 1) :
               <<object_stack_[extra + i], walk[i].key,
                 <<"object", object_stack_[extra + i + 1]>>>> \in props

\* One failed write and the subscription never again receives a value:
\* push_back() only returns, the stack keeps the objects of the sample given
\* up, and every later sample ends at a depth other than 1.
NoResultAfterFailure == at = "done" => (failed <=> result_ = None)

\* A writer kept from one async() to the next never uses a handle of a scope
\* that has ended, unless a write has failed: a sample written to its end
\* leaves none on the stack.
StaleHandlesExplained == at = "fault" => failed
=============================================================================
