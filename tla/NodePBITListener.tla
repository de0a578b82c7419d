-------------------------- MODULE NodePBITListener --------------------------
(***************************************************************************)
(* Reports of discovered participants: subscribe_participant_topic() and   *)
(* unsubscribe_participant_topic() of src/node-opendds.cpp, and the        *)
(* listeners they make (src/NodePBITListener.{h,cpp}). A DDS thread takes  *)
(* one sample into the listener's part_data_ and infos_ and wakes the      *)
(* loop, which later reads them. There is no lock between the two: what    *)
(* the loop may see of a take() in progress is the old or the new value of *)
(* each of the sequences. (The race could also crash the process.)         *)
(*                                                                         *)
(* The program is assumed to call unsubscribe_participant_topic() only     *)
(* after subscribe_participant_topic(), and neither later.                 *)
(*                                                                         *)
(* Outside src/: the built-in reader keeps the last sample of every        *)
(* participant, calls its listener once for each sample that arrives,      *)
(* serialises take() and, when there is no sample, leaves the sequences    *)
(* as they are; libuv merges sends.                                        *)
(***************************************************************************)
EXTENDS Naturals, FiniteSets

CONSTANTS
    Participants,   \* remote participants
    Threads,        \* DDS threads
    Listeners,      \* the calls of subscribe_participant_topic()
    MaxVersion      \* bound on the samples of a participant

None == "none"
ASSUME PBITAssumption ==
    /\ None \notin Listeners \cup Participants /\ MaxVersion \in Nat
    /\ IsFiniteSet(Participants) /\ IsFiniteSet(Threads)

VARIABLES
    reader,         \* the built-in reader: "live", or what ended it:
                    \* "unsubscribed" or "deleted"
    unread,         \* unread[p]: version of p's sample in the reader, or 0
    version,        \* version[p]: the last that arrived
    current,        \* the reader's listener, or None
    handle,         \* handle[l]: None, "open", "closing" or "closed"
    pending,        \* listeners with a send not yet dispatched
    part_data_,     \* part_data_[l][0], or None for no element
    infos_,         \* infos_[l][0], or None
    dds,            \* dds[t]: where thread t is in on_data_available
    within,         \* within[t]: the listener it was called on
    sample,         \* sample[t]: the sample take() is storing
    reading,        \* the listener whose async() is between its two reads
    info,           \* what it has read of infos_
    reported,       \* reported[l]: the arguments of the last callback
    backlog,        \* unread samples while there was no listener
    replaced,       \* listeners that set_listener displaced
    fault           \* None, or what async() met: "empty" or "freed"

readerVars == <<reader, unread, version, current, backlog, replaced>>
sequences == <<part_data_, infos_>>
threadVars == <<dds, within, sample>>
loopVars == <<reading, info, reported, fault>>
vars == <<readerVars, handle, pending, sequences, threadVars, loopVars>>

Versions == 1..MaxVersion
Taken == Participants \X Versions
\* None as an element of a sequence of samples
Nothing == <<None, 0>>
Element == Taken \cup {Nothing}

TypeOK ==
    /\ reader \in {"live", "unsubscribed", "deleted"}
    /\ unread \in [Participants -> 0..MaxVersion]
    /\ version \in [Participants -> 0..MaxVersion]
    /\ \A p \in Participants : unread[p] \in {0, version[p]}
    /\ current \in Listeners \cup {None}
    /\ handle \in [Listeners -> {None, "open", "closing", "closed"}]
    /\ pending \subseteq Listeners
    /\ part_data_ \in [Listeners -> Element] /\ infos_ \in [Listeners -> Element]
    /\ dds \in [Threads -> {"idle", "notify", "storing", "sending"}]
    /\ within \in [Threads -> Listeners \cup {None}]
    /\ \A t \in Threads : dds[t] # "idle" => within[t] # None
    /\ sample \in [Threads -> Element]
    /\ reading \in Listeners \cup {None} /\ info \in Element
    /\ reported \in [Listeners -> Element \X Element]
    /\ backlog \in Nat /\ replaced \subseteq Listeners
    /\ fault \in {None, "empty", "freed"}

Init ==
    /\ reader = "live"
    /\ unread = [p \in Participants |-> 0]
    /\ version = [p \in Participants |-> 0]
    /\ current = None
    /\ handle = [l \in Listeners |-> None]
    /\ pending = {}
    /\ part_data_ = [l \in Listeners |-> Nothing]
    /\ infos_ = [l \in Listeners |-> Nothing]
    /\ dds = [t \in Threads |-> "idle"]
    /\ within = [t \in Threads |-> None]
    /\ sample = [t \in Threads |-> Nothing]
    /\ reading = None /\ info = Nothing
    /\ reported = [l \in Listeners |-> <<Nothing, Nothing>>]
    /\ backlog = 0 /\ replaced = {}
    /\ fault = None

\* async() met neither fault yet: nothing is said of what comes after.
Running == fault = None

Within(l) == {t \in Threads : dds[t] # "idle" /\ within[t] = l}

\* The references to a listener: its reader's, those of threads that call it,
\* and the one shutdown() takes until the handle is closed.
Freed(l) ==
    handle[l] # None /\ current # l /\ handle[l] # "closing" /\ Within(l) = {}

-----------------------------------------------------------------------------
(* DDS threads.                                                            *)

\* A participant is discovered or changes; the last sample replaces an unread
\* one. The listener, if there is one, is about to be called.
Discover(t, p) ==
    /\ Running
    /\ reader = "live" /\ dds[t] = "idle"
    /\ version[p] < MaxVersion
    /\ version' = [version EXCEPT ![p] = @ + 1]
    /\ unread' = [unread EXCEPT ![p] = version[p] + 1]
    /\ \/ /\ current # None
          /\ dds' = [dds EXCEPT ![t] = "notify"]
          /\ within' = [within EXCEPT ![t] = current]
          /\ UNCHANGED backlog
       \/ /\ current = None
          /\ backlog' = IF unread[p] = 0 THEN backlog + 1 ELSE backlog
          /\ UNCHANGED <<dds, within>>
    /\ UNCHANGED <<reader, current, replaced, handle, pending, sequences,
                   sample, loopVars>>

ReadAndKept_Bug(p) == unread                    \* read() in place of take()
ReadAndKept(p) == [unread EXCEPT ![p] = 0]

\* on_data_available: take() of at most one sample. It has stored one of the
\* two sequences ...
TakeBegins(t, p) ==
    /\ Running
    /\ dds[t] = "notify"
    /\ \A u \in Threads : dds[u] # "storing"
    /\ unread[p] # 0
    /\ LET taken == <<p, unread[p]>>
           l == within[t]
       IN  /\ sample' = [sample EXCEPT ![t] = taken]
           /\ \/ /\ part_data_' = [part_data_ EXCEPT ![l] = taken]
                 /\ UNCHANGED infos_
              \/ /\ infos_' = [infos_ EXCEPT ![l] = taken]
                 /\ UNCHANGED part_data_
    /\ unread' = ReadAndKept(p)
    /\ dds' = [dds EXCEPT ![t] = "storing"]
    /\ UNCHANGED <<reader, version, current, backlog, replaced, handle,
                   pending, within, loopVars>>

\* ... and now both.
TakeEnds(t) ==
    /\ Running
    /\ dds[t] = "storing"
    /\ part_data_' = [part_data_ EXCEPT ![within[t]] = sample[t]]
    /\ infos_' = [infos_ EXCEPT ![within[t]] = sample[t]]
    /\ dds' = [dds EXCEPT ![t] = "sending"]
    /\ sample' = [sample EXCEPT ![t] = Nothing]
    /\ UNCHANGED <<readerVars, handle, pending, within, loopVars>>

\* take() finds no sample; its return code is not looked at.
TakesNothing(t) ==
    /\ Running
    /\ dds[t] = "notify"
    /\ \A u \in Threads : dds[u] # "storing"
    /\ \A p \in Participants : unread[p] = 0
    /\ dds' = [dds EXCEPT ![t] = "sending"]
    /\ UNCHANGED <<readerVars, handle, pending, sequences, within, sample,
                   loopVars>>

Sends_Bug(l) == IF reading = l THEN {} ELSE {l}   \* not while async() runs
Sends(l) == {l}

SendsFrom_Bug == {"notify", "sending"}            \* before take() as well
SendsFrom == {"sending"}

\* uv_async_send; OpenDDS then drops its reference.
AsyncSend(t) ==
    /\ Running
    /\ dds[t] \in SendsFrom
    /\ pending' = pending \cup Sends(within[t])
    /\ dds' = [dds EXCEPT ![t] = "idle"]
    /\ UNCHANGED <<readerVars, handle, sequences, within, sample, loopVars>>

-----------------------------------------------------------------------------
(* The JavaScript thread.                                                  *)

\* subscribe_participant_topic: a new listener takes the place of the one the
\* reader had.
Subscribe(l) ==
    /\ Running
    /\ reader = "live" /\ reading = None
    /\ handle[l] = None
    /\ handle' = [handle EXCEPT ![l] = "open"]
    /\ current' = l
    /\ replaced' = replaced \cup ({current} \ {None})
    /\ UNCHANGED <<reader, unread, version, backlog, pending, sequences,
                   threadVars, loopVars>>

ReaderGoes ==
    /\ current' = None
    /\ unread' = [p \in Participants |-> 0]
    /\ UNCHANGED <<version, backlog, replaced>>

Closing_Bug == "open"                             \* no uv_close
Closing == "closing"

\* unsubscribe_participant_topic: shutdown() of the listener the reader has,
\* then the reader goes. It may run in a callback: async() does not use its
\* listener any more once it has called back.
Unsubscribe ==
    /\ Running
    /\ reading = None /\ current # None
    /\ handle' = [handle EXCEPT ![current] = Closing]
    /\ reader' = "unsubscribed"
    /\ ReaderGoes
    /\ UNCHANGED <<pending, sequences, threadVars, loopVars>>

\* delete_participant: the reader goes, nobody calls shutdown().
DeleteParticipant ==
    /\ Running
    /\ reading = None /\ reader = "live"
    /\ reader' = "deleted"
    /\ ReaderGoes
    /\ UNCHANGED <<handle, pending, sequences, threadVars, loopVars>>

CloseCb(l) ==
    /\ Running
    /\ reading = None
    /\ handle[l] = "closing"
    /\ handle' = [handle EXCEPT ![l] = "closed"]
    /\ UNCHANGED <<readerVars, pending, sequences, threadVars, loopVars>>

\* async(): reads infos_[0] ...
AsyncBegins(l) ==
    /\ Running
    /\ reading = None
    /\ l \in pending /\ handle[l] = "open"
    /\ pending' = pending \ {l}
    /\ \/ /\ Freed(l)
          /\ fault' = "freed"
          /\ UNCHANGED <<reading, info>>
       \/ /\ ~Freed(l) /\ infos_[l] = Nothing
          /\ fault' = "empty"
          /\ UNCHANGED <<reading, info>>
       \/ /\ ~Freed(l) /\ infos_[l] # Nothing
          /\ info' = infos_[l]
          /\ reading' = l
          /\ UNCHANGED fault
    /\ UNCHANGED <<readerVars, handle, sequences, threadVars, reported>>

\* ... then part_data_[0], and calls back with both.
AsyncEnds ==
    /\ Running
    /\ reading # None
    /\ reading' = None /\ info' = Nothing
    /\ \/ /\ part_data_[reading] = Nothing
          /\ fault' = "empty"
          /\ UNCHANGED reported
       \/ /\ part_data_[reading] # Nothing
          /\ reported' = [reported EXCEPT ![reading] =
                             <<info, part_data_[reading]>>]
          /\ UNCHANGED fault
    /\ UNCHANGED <<readerVars, handle, pending, sequences, threadVars>>

Next ==
    \/ \E t \in Threads, p \in Participants : Discover(t, p)
    \/ \E t \in Threads, p \in Participants : TakeBegins(t, p)
    \/ \E t \in Threads : TakeEnds(t)
    \/ \E t \in Threads : TakesNothing(t)
    \/ \E t \in Threads : AsyncSend(t)
    \/ \E l \in Listeners : Subscribe(l)
    \/ Unsubscribe
    \/ DeleteParticipant
    \/ \E l \in Listeners : CloseCb(l)
    \/ \E l \in Listeners : AsyncBegins(l)
    \/ AsyncEnds

Spec == Init /\ [][Next]_vars

-----------------------------------------------------------------------------
(* Properties.                                                             *)

\* Whatever was merged or torn on the way, once the threads are out of the
\* listener and its sends are dispatched the program has been told the last
\* sample taken, and told it whole.
SettledIsCurrent ==
    \A l \in Listeners :
        /\ fault = None /\ handle[l] = "open"
        /\ Within(l) = {} /\ l \notin pending /\ reading # l
        => reported[l] = <<infos_[l], part_data_[l]>>

\* async() finds its listener alive and a sample in its sequences, unless one
\* listener displaced another or the participant was deleted under it. (A
\* thread still in the old listener can take the sample that the new one was
\* called for, and the new one then finds none.) unsubscribe_participant_topic
\* on the other hand is safe at any moment: no send gets past uv_close.
AsyncFindsSample == fault # None => replaced # {} \/ reader = "deleted"

\* Each call of the listener takes as many samples as arrived for it, so what
\* waits in the reader is at most what was there before the first listener
\* plus the calls under way. (It is never asked for what was there before.)
BacklogBounded ==
    Cardinality({p \in Participants : unread[p] # 0}) <=
        backlog + Cardinality({t \in Threads : dds[t] = "notify"})

\* libuv still has the handle of a freed listener only where a second
\* subscribe_participant_topic() displaced the listener, or the participant
\* was deleted while subscribed.
DanglingHandlesExplained ==
    \A l \in Listeners :
        handle[l] = "open" /\ Freed(l) => l \in replaced \/ reader = "deleted"
=============================================================================
