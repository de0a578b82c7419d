----------------------------- MODULE DataWriter -----------------------------
(***************************************************************************)
(* register_instance, write, unregister_instance and dispose of a          *)
(* DataWriter (src/node-opendds.cpp). Each checks its arguments, takes the *)
(* writer from the JavaScript object, makes a C++ value, reads the sample  *)
(* into it, hands it to OpenDDS and deletes it. While it reads the sample, *)
(* getters of the sample run: program code that may make further calls on  *)
(* the writer, or delete its participant.                                  *)
(*                                                                         *)
(* Outside src/: OpenDDS does what it is asked or refuses; register and    *)
(* write make the instance of the sample's key if there is none, and the   *)
(* others need one. V8 throws an exception that is pending when a function *)
(* returns. Getters that run while one is pending are not modelled.        *)
(***************************************************************************)
EXTENDS Naturals, Sequences, FiniteSets

CONSTANTS
    Keys,           \* keys of samples, each an instance
    MaxCalls,       \* bound on the calls
    MaxNesting      \* bound on the calls inside getters

Nil == 0            \* DDS::HANDLE_NIL

ASSUME DataWriterBounds == MaxCalls \in Nat /\ MaxNesting \in Nat

VARIABLES
    writer,     \* "live" or "deleted", with its participant
    open,       \* the calls that read their samples, innermost last
    values,     \* C++ values allocated
    pending,    \* V8: is an exception pending that the innermost call's read
                \* went on after?
    handles,    \* OpenDDS: keys of the instances, by handle
    accepted,   \* OpenDDS: calls it did
    log,        \* calls that are over
    fault       \* a deleted writer was used

vars == <<writer, open, values, pending, handles, accepted, log, fault>>

Ops == {"register_instance", "write", "unregister_instance", "dispose"}

\* id counts the calls; handle is Nil if the program gave none.
Calls == [id : 1..MaxCalls, op : Ops, key : Keys, handle : Nat]
\* result is a handle or, of other calls than register_instance, Nil; excepted:
\* an exception was pending from its read.
Ends == [call : Calls, threw : BOOLEAN, result : Nat, excepted : BOOLEAN]

TypeOK ==
    /\ writer \in {"live", "deleted"}
    /\ open \in Seq(Calls)
    /\ values \in Nat
    /\ pending \in BOOLEAN
    /\ handles \in Seq(Keys)
    /\ accepted \subseteq Calls
    /\ log \subseteq Ends
    /\ fault \in BOOLEAN

Init ==
    /\ writer = "live"
    /\ open = <<>> /\ values = 0 /\ pending = FALSE
    /\ handles = <<>>
    /\ accepted = {} /\ log = {}
    /\ fault = FALSE

-----------------------------------------------------------------------------

Made == Len(open) + Cardinality(log)
Call == open[Len(open)]

Ended(threw, result) ==
    /\ open' = SubSeq(open, 1, Len(open) - 1)
    /\ log' = log \cup {[call |-> Call, threw |-> threw, result |-> result,
                         excepted |-> pending]}
    /\ pending' = FALSE

\* The program calls, at the top or in a getter, and the arguments pass: up to
\* new_value. A handle is one that register_instance returned. The writer may
\* be deleted.
Begin(op) ==
    /\ ~fault /\ ~pending
    /\ Made < MaxCalls /\ Len(open) <= MaxNesting
    /\ \E key \in Keys, handle \in {Nil} \cup DOMAIN handles :
           /\ handle # Nil => op # "register_instance" /\ handles[handle] = key
           /\ open' = Append(open, [id |-> Made + 1, op |-> op, key |-> key,
                                    handle |-> handle])
    /\ values' = values + 1
    /\ UNCHANGED <<writer, pending, handles, accepted, log, fault>>

\* The arguments do not pass.
BadArguments(op) ==
    /\ ~fault /\ ~pending /\ Made < MaxCalls
    /\ \E key \in Keys :
           log' = log \cup {[call |-> [id |-> Made + 1, op |-> op, key |-> key,
                                       handle |-> Nil],
                             threw |-> TRUE, result |-> Nil,
                             excepted |-> FALSE]}
    /\ UNCHANGED <<writer, open, values, pending, handles, accepted, fault>>

\* participant.delete_participant(), or finalize().
DeleteParticipant ==
    /\ ~fault /\ ~pending /\ writer = "live"
    /\ writer' = "deleted"
    /\ UNCHANGED <<open, values, pending, handles, accepted, log, fault>>

\* The getter of an optional member throws: member_has_value finds no value and
\* the member is left out. Or an integer is a text such as "12 units" that
\* makes no BigInt: sscanf cuts it to 12. Either way the read goes on.
LeavesPending ==
    /\ ~fault /\ open # <<>> /\ ~pending
    /\ pending' = TRUE
    /\ UNCHANGED <<writer, open, values, handles, accepted, log, fault>>

DeletesUnread_Bug == 0          \* no delete_value
DeletesUnread == 1

\* The sample lacks something, or the getter of a member that is required threw.
ReadFails ==
    /\ ~fault /\ open # <<>>
    /\ values' = values - DeletesUnread
    /\ Ended(TRUE, Nil)
    /\ UNCHANGED <<writer, handles, accepted, fault>>

\* The sample is read, for a writer that is gone.
UsesDeleted ==
    /\ ~fault /\ open # <<>>
    /\ writer = "deleted"
    /\ fault' = TRUE
    /\ UNCHANGED <<writer, open, values, pending, handles, accepted, log>>

Throws_Bug(done) == pending             \* the return code is not checked
Throws(done) == ~done \/ pending

\* The handle of a key's instance, new if it has none.
HandleOf(key) ==
    IF \E h \in DOMAIN handles : handles[h] = key
    THEN CHOOSE h \in DOMAIN handles : handles[h] = key
    ELSE Len(handles) + 1

NeedsInstance(op) == op \in {"unregister_instance", "dispose"}

\* The sample is read: OpenDDS does the call or refuses it, the value is
\* deleted and the program is told.
Finish ==
    /\ ~fault /\ open # <<>>
    /\ writer = "live"
    /\ \E done \in BOOLEAN :
           /\ done /\ NeedsInstance(Call.op) =>
                  HandleOf(Call.key) \in DOMAIN handles
           /\ accepted' = IF done THEN accepted \cup {Call} ELSE accepted
           /\ handles' = IF /\ done /\ Call.handle = Nil
                            /\ HandleOf(Call.key) \notin DOMAIN handles
                         THEN Append(handles, Call.key) ELSE handles
           /\ Ended(Throws(done),
                    IF done /\ Call.op = "register_instance"
                    THEN HandleOf(Call.key) ELSE Nil)
    /\ values' = values - 1
    /\ UNCHANGED <<writer, fault>>

Next ==
    \/ \E op \in Ops : Begin(op)
    \/ \E op \in Ops : BadArguments(op)
    \/ DeleteParticipant
    \/ LeavesPending
    \/ ReadFails
    \/ UsesDeleted
    \/ Finish

Spec == Init /\ [][Next]_vars

-----------------------------------------------------------------------------
(* Properties.                                                             *)

\* Every value is deleted once, whichever way its call ends and whatever
\* calls were made inside it.
ValuesFreed == values = Len(open)

\* A call that returns was done; one that throws was not, unless its read left
\* an exception pending, when the program cannot tell. The handle that
\* register_instance returns is that of its sample's instance, also if a getter
\* has registered others.
ProgramIsTold ==
    \A e \in log :
        /\ e.threw <=> e.excepted \/ e.call \notin accepted
        /\ e.call.op = "register_instance" /\ ~e.threw =>
               e.result # Nil /\ handles[e.result] = e.call.key
=============================================================================
