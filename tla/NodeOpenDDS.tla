---------------------------- MODULE NodeOpenDDS ----------------------------
(***************************************************************************)
(* The add-on as the JavaScript program sees it (src/node-opendds.cpp):    *)
(* the factory, the participants_ vector, and what each participant owns   *)
(* through subscribe(), unsubscribe() and create_datawriter(). A call is   *)
(* one step, also when it is made from inside a sample callback, between   *)
(* TakeBegins and TakeEnds. A listener is seen here only through its uv    *)
(* handle, its workers and whether it still exists: NodeDRListener has the *)
(* threads.                                                                *)
(*                                                                         *)
(* The program is assumed to use a participant or a reader only while its  *)
(* JavaScript object still names one, as the code does not check. Those of *)
(* the participants that finalize() deletes still do, and so do those of   *)
(* the readers that go with their participant. It has one factory.         *)
(*                                                                         *)
(* Outside src/: OpenDDS counts create_topic against delete_topic, refuses *)
(* a ContentFilteredTopic whose name the participant already has, makes    *)
(* nothing in a deleted participant, so that subscribe() and               *)
(* create_datawriter() of one throw and change nothing, and drops a        *)
(* deleted reader's listener.                                              *)
(***************************************************************************)
EXTENDS CftNames, Integers, FiniteSets

CONSTANTS
    Participants,   \* participants the program may create
    Readers,        \* subscriptions it may make
    MaxFailures,    \* bound on the failing calls per participant
    MaxWriters      \* bound on the writers per participant

None == "none"
ASSUME NamesAssumption == None \notin Readers \cup Participants
ASSUME BoundsAssumption == MaxFailures \in Nat /\ MaxWriters \in Nat

VARIABLES
    factory,        \* the factory object: "none", "live" or "final"
    participants_,  \* the vector, of distinct participants
    part,           \* part[p]: "none", "live" or "deleted" in OpenDDS
    deletions,      \* deletions[p]: delete_participant calls OpenDDS saw
    cleared,        \* participants whose JavaScript object names none any more
    cft_name,       \* the next ContentFilteredTopic name
    cfts,           \* cfts[p]: names of p's ContentFilteredTopics
    topics,         \* topics[p]: create_topic minus delete_topic
    subscribers,    \* subscribers[p]: p's Subscribers
    publishers,     \* publishers[p]: p's Publishers
    writers,        \* writers[p]: p's DataWriters
    failures,       \* failures[p]: calls that failed half way
    reader,         \* reader[r]: see ReaderStates
    owner,          \* owner[r]: its participant
    filter,         \* filter[r]: its ContentFilteredTopic's name, a set of one
                    \* or, without a filter, no name
    handle,         \* handle[r]: its listener's uv handle
    workers,        \* workers[r]: UnsubscribeWorkers not yet called back
    taking,         \* the reader whose async() is running, or None
    fault           \* a listener that is not there was used, see Faults

registryVars == <<factory, participants_, part, deletions, cleared>>
ownedVars    == <<cft_name, cfts, topics, subscribers, publishers, writers,
                  failures>>
readerVars   == <<reader, owner, filter, handle>>
runVars      == <<workers, taking, fault>>
vars == <<registryVars, ownedVars, readerVars, runVars>>

\* "failed": subscribe() threw after it had made the listener.
\* "stopping": unsubscribe() was called in a callback of the reader.
\* "orphan": its participant was deleted first.
ReaderStates == {"unused", "live", "stopping", "closed", "failed", "orphan"}

\* In async() after the callbacks, in a worker's callback, or null in
\* unsubscribe().
Faults == {"take", "worker", "unsubscribe"}

TypeOK ==
    /\ factory \in {"none", "live", "final"}
    /\ participants_ \subseteq Participants
    /\ part \in [Participants -> {"none", "live", "deleted"}]
    /\ deletions \in [Participants -> Nat]
    /\ cleared \subseteq Participants
    /\ cft_name \in Names
    /\ cfts \in [Participants -> SUBSET Names]
    /\ topics \in [Participants -> Nat]
    /\ subscribers \in [Participants -> Nat]
    /\ publishers \in [Participants -> Nat]
    /\ writers \in [Participants -> 0..MaxWriters]
    /\ failures \in [Participants -> 0..MaxFailures]
    /\ reader \in [Readers -> ReaderStates]
    /\ owner \in [Readers -> Participants \cup {None}]
    /\ filter \in [Readers -> SUBSET Names]
    /\ handle \in [Readers -> {None, "open", "closing", "closed"}]
    /\ workers \in [Readers -> 0..2]
    /\ taking \in Readers \cup {None}
    /\ fault \in {None} \cup Faults

Init ==
    /\ factory = "none" /\ participants_ = {}
    /\ part = [p \in Participants |-> "none"]
    /\ deletions = [p \in Participants |-> 0]
    /\ cleared = {}
    /\ cft_name = InitialName
    /\ cfts = [p \in Participants |-> {}]
    /\ topics = [p \in Participants |-> 0]
    /\ subscribers = [p \in Participants |-> 0]
    /\ publishers = [p \in Participants |-> 0]
    /\ writers = [p \in Participants |-> 0]
    /\ failures = [p \in Participants |-> 0]
    /\ reader = [r \in Readers |-> "unused"]
    /\ owner = [r \in Readers |-> None]
    /\ filter = [r \in Readers |-> {}]
    /\ handle = [r \in Readers |-> None]
    /\ workers = [r \in Readers |-> 0]
    /\ taking = None
    /\ fault = None

\* There was no fault yet: nothing is said of what comes after one.
Running == fault = None

Has(r) == reader[r] \in {"live", "stopping"}
ReadersOf(p) == {r \in Readers : owner[r] = p /\ Has(r)}

\* The listener is referenced by its reader and, while it closes, its handle.
Freed(r) == ~Has(r) /\ handle[r] # "closing"

Plus(f, p, n) == [f EXCEPT ![p] = @ + n]

-----------------------------------------------------------------------------
(* The factory and its participants.                                       *)

initialize ==
    /\ Running
    /\ factory = "none"
    /\ factory' = "live"
    /\ UNCHANGED <<participants_, part, deletions, cleared, ownedVars,
                   readerVars, runVars>>

create_participant(p) ==
    /\ Running
    /\ factory = "live"
    /\ part[p] = "none"
    /\ part' = [part EXCEPT ![p] = "live"]
    /\ participants_' = participants_ \cup {p}
    /\ UNCHANGED <<factory, deletions, cleared, ownedVars, readerVars, runVars>>

\* delete_contained_entities, then delete_participant, on each member of D.
DeleteAll(D) ==
    /\ part' = [p \in Participants |-> IF p \in D THEN "deleted" ELSE part[p]]
    /\ deletions' = [p \in Participants |->
                        IF p \in D THEN deletions[p] + 1 ELSE deletions[p]]
    /\ cfts' = [p \in Participants |-> IF p \in D THEN {} ELSE cfts[p]]
    /\ topics' = [p \in Participants |-> IF p \in D THEN 0 ELSE topics[p]]
    /\ subscribers' =
           [p \in Participants |-> IF p \in D THEN 0 ELSE subscribers[p]]
    /\ publishers' =
           [p \in Participants |-> IF p \in D THEN 0 ELSE publishers[p]]
    /\ writers' = [p \in Participants |-> IF p \in D THEN 0 ELSE writers[p]]
    /\ reader' = [r \in Readers |->
                     IF owner[r] \in D /\ Has(r) THEN "orphan" ELSE reader[r]]
    /\ UNCHANGED <<cft_name, failures, owner, filter, handle, runVars>>

Erase_Bug(p) == participants_                       \* no erase
Erase(p) == participants_ \ {p}

\* Deletes what the object names, also when finalize() deleted it before.
delete_participant(p) ==
    /\ Running
    /\ part[p] # "none" /\ p \notin cleared
    /\ cleared' = cleared \cup {p}
    /\ participants_' = Erase(p)
    /\ DeleteAll({p})
    /\ UNCHANGED factory

\* Clears the factory's object and none of the participants'.
finalize ==
    /\ Running
    /\ factory = "live"
    /\ factory' = "final"
    /\ participants_' = {}
    /\ DeleteAll(participants_)
    /\ UNCHANGED cleared

-----------------------------------------------------------------------------
(* Subscriptions.                                                          *)

\* The name a subscription uses up, if it has a filter.
NameFor(filtered) == IF filtered THEN {cft_name} ELSE {}

\* The topic of a subscription of p: plain, or a ContentFilteredTopic with the
\* name in new. The name is used up even if OpenDDS makes none with it.
ChoosesTopic(p, filtered, new) ==
    /\ cfts' = [cfts EXCEPT ![p] = @ \cup new]
    /\ cft_name' = IF filtered THEN increment(cft_name) ELSE cft_name

\* A subscription that fails: no filter, one OpenDDS made, or one it refused.
ChoosesTopicInVain(p) ==
    \E filtered \in BOOLEAN, made \in BOOLEAN :
        ChoosesTopic(p, filtered, NameFor(filtered /\ made))

\* subscribe() throws before it makes a listener: filter_expression missing,
\* bad SubscriberQos, no Subscriber. Its topics stay behind.
SubscribeFailsEarly(p) ==
    /\ Running
    /\ part[p] = "live"
    /\ failures[p] < MaxFailures
    /\ failures' = Plus(failures, p, 1)
    /\ topics' = Plus(topics, p, 1)
    /\ ChoosesTopicInVain(p)
    /\ UNCHANGED <<subscribers, publishers, writers, registryVars, readerVars,
                   runVars>>

\* subscribe() throws after it made a listener: bad DataReaderQos or no
\* DataReader, as when the name of its filter is taken or the filter is bad.
SubscribeFailsLate(p, r) ==
    /\ Running
    /\ part[p] = "live"
    /\ reader[r] = "unused"
    /\ failures[p] < MaxFailures
    /\ failures' = Plus(failures, p, 1)
    /\ topics' = Plus(topics, p, 1)
    /\ subscribers' = Plus(subscribers, p, 1)
    /\ ChoosesTopicInVain(p)
    /\ reader' = [reader EXCEPT ![r] = "failed"]
    /\ owner' = [owner EXCEPT ![r] = p]
    /\ handle' = [handle EXCEPT ![r] = "open"]
    /\ UNCHANGED <<filter, publishers, writers, registryVars, runVars>>

subscribe(p, r) ==
    /\ Running
    /\ part[p] = "live"
    /\ reader[r] = "unused"
    /\ \E filtered \in BOOLEAN :
           /\ NameFor(filtered) \cap cfts[p] = {}
           /\ ChoosesTopic(p, filtered, NameFor(filtered))
           /\ filter' = [filter EXCEPT ![r] = NameFor(filtered)]
    /\ topics' = Plus(topics, p, 1)
    /\ subscribers' = Plus(subscribers, p, 1)
    /\ reader' = [reader EXCEPT ![r] = "live"]
    /\ owner' = [owner EXCEPT ![r] = p]
    /\ handle' = [handle EXCEPT ![r] = "open"]
    /\ UNCHANGED <<publishers, writers, failures, registryVars, runVars>>

TopicsDeleted_Bug(r) ==                   \* the related topic is forgotten
    IF filter[r] = {} THEN 1 ELSE 0
TopicsDeleted_Twice_Bug(r) ==             \* both, as if it were two topics
    IF filter[r] = {} THEN 1 ELSE 2
TopicsDeleted(r) == 1

HandleClosed_Bug == "open"                  \* no uv_close
HandleClosed == "closing"

\* unsubscribe_now_i, unless it ran before: closes the handle and deletes the
\* subscriber with its reader, the ContentFilteredTopic and the topic.
unsubscribe_now(r) ==
    LET p == owner[r]
    IN  /\ reader' = [reader EXCEPT ![r] = "closed"]
        /\ handle' = [handle EXCEPT ![r] = HandleClosed]
        /\ topics' = Plus(topics, p, -TopicsDeleted(r))
        /\ subscribers' = Plus(subscribers, p, -1)
        /\ cfts' = [cfts EXCEPT ![p] = @ \ filter[r]]
        /\ UNCHANGED <<owner, filter, cft_name, publishers, writers, failures,
                       registryVars>>

Defers_Bug(r) == FALSE
Defers(r) == taking = r

unsubscribe(r) ==
    /\ Running
    /\ Has(r)
    /\ \/ /\ Defers(r)
          /\ reader' = [reader EXCEPT ![r] = "stopping"]
          /\ UNCHANGED <<owner, filter, handle, ownedVars, registryVars>>
       \/ /\ ~Defers(r)
          /\ unsubscribe_now(r)
    /\ UNCHANGED runVars

\* OpenDDS has no listener for a reader deleted with its participant, whose
\* object still names it.
UnsubscribeOrphan(r) ==
    /\ Running
    /\ reader[r] = "orphan"
    /\ fault' = "unsubscribe"
    /\ UNCHANGED <<registryVars, ownedVars, readerVars, workers, taking>>

\* A send pending when unsubscribe() was called in a callback is dispatched
\* after the async() of that callback; later ones are not made.
WasPending_Bug(r) == reader[r] = "stopping"   \* on_data_available goes on
WasPending(r) == reader[r] = "stopping" /\ workers[r] = 1

\* async() is dispatched for a reader that was sent samples.
TakeBegins(r) ==
    /\ Running
    /\ taking = None
    /\ reader[r] = "live" \/ WasPending(r)
    /\ handle[r] = "open"
    /\ taking' = r
    /\ UNCHANGED <<registryVars, ownedVars, readerVars, workers, fault>>

\* The callbacks have returned into async(), a method of the listener.
TakeEnds ==
    /\ Running
    /\ taking # None
    /\ taking' = None
    /\ IF Freed(taking)
       THEN fault' = "take" /\ UNCHANGED workers
       ELSE /\ workers' = IF reader[taking] = "stopping"
                          THEN Plus(workers, taking, 1) ELSE workers
            /\ UNCHANGED fault
    /\ UNCHANGED <<registryVars, ownedVars, readerVars>>

\* A worker's HandleOKCallback, at a time when no other callback runs. It has
\* nothing to do when unsubscribe_now_i ran before; the listener may still be
\* there even if its handle is closed, held by a DDS thread that is in it.
WorkerCallback(r) ==
    /\ Running
    /\ taking = None
    /\ workers[r] > 0
    /\ workers' = Plus(workers, r, -1)
    /\ \/ /\ Freed(r)
          /\ fault' = "worker"
          /\ UNCHANGED <<registryVars, ownedVars, readerVars>>
       \/ /\ Has(r)
          /\ unsubscribe_now(r)
          /\ UNCHANGED fault
       \/ /\ reader[r] = "closed"
          /\ UNCHANGED <<registryVars, ownedVars, readerVars, fault>>
    /\ UNCHANGED taking

CloseCb(r) ==
    /\ Running
    /\ taking = None
    /\ handle[r] = "closing"
    /\ handle' = [handle EXCEPT ![r] = "closed"]
    /\ UNCHANGED <<registryVars, ownedVars, reader, owner, filter, runVars>>

-----------------------------------------------------------------------------

\* create_datawriter() goes on without a topic until there is no DataWriter. A
\* failure may leave the topic, the publisher or both behind.
create_datawriter(p) ==
    /\ Running
    /\ part[p] = "live"
    /\ \/ /\ writers[p] < MaxWriters
          /\ writers' = Plus(writers, p, 1)
          /\ topics' = Plus(topics, p, 1)
          /\ publishers' = Plus(publishers, p, 1)
          /\ UNCHANGED failures
       \/ /\ failures[p] < MaxFailures
          /\ failures' = Plus(failures, p, 1)
          /\ \E n \in 0..1 : topics' = Plus(topics, p, n)
          /\ \E n \in 0..1 : publishers' = Plus(publishers, p, n)
          /\ UNCHANGED writers
    /\ UNCHANGED <<cft_name, cfts, subscribers, registryVars, readerVars,
                   runVars>>

Next ==
    \/ initialize
    \/ finalize
    \/ \E p \in Participants : create_participant(p)
    \/ \E p \in Participants : delete_participant(p)
    \/ \E p \in Participants : create_datawriter(p)
    \/ \E p \in Participants : SubscribeFailsEarly(p)
    \/ \E p \in Participants, r \in Readers : SubscribeFailsLate(p, r)
    \/ \E p \in Participants, r \in Readers : subscribe(p, r)
    \/ \E r \in Readers : unsubscribe(r)
    \/ \E r \in Readers : UnsubscribeOrphan(r)
    \/ \E r \in Readers : TakeBegins(r)
    \/ TakeEnds
    \/ \E r \in Readers : WorkerCallback(r)
    \/ \E r \in Readers : CloseCb(r)

Spec == Init /\ [][Next]_vars

-----------------------------------------------------------------------------
(* Properties.                                                             *)

\* participants_ holds exactly the participants that live, so that finalize()
\* deletes what delete_participant ("optional", says the test) did not, leaves
\* none and deletes none again. A participant is deleted again only by the
\* program, which has still got its object after finalize(), and then once.
DeletionsExplained ==
    /\ [](/\ participants_ = {p \in Participants : part[p] = "live"}
          /\ factory = "final" => participants_ = {}
          /\ \A p \in Participants : deletions[p] <= 2)
    /\ [][\A p \in Participants :
              part[p] = "deleted" /\ deletions'[p] # deletions[p] =>
                  factory = "final" /\ p \notin cleared]_vars

\* A participant's topics, subscribers and filters are those of its readers
\* and writers, but for what failed calls left: unsubscribe() releases all its
\* subscribe() took, whatever kind of topic it used and however it came to
\* run, and never what another subscription still uses.
EntitiesBalanced ==
    \A p \in Participants : part[p] = "live" =>
        LET live == ReadersOf(p)
            used == UNION {filter[r] : r \in live}
        IN  /\ topics[p] - Cardinality(live) - writers[p] \in 0..failures[p]
            /\ publishers[p] - writers[p] \in 0..failures[p]
            /\ subscribers[p] - Cardinality(live) \in 0..failures[p]
            /\ used \subseteq cfts[p]
            /\ Cardinality(cfts[p] \ used) <= failures[p]

\* libuv still has the handle of a freed listener only where subscribe() threw
\* after making the listener or the participant was deleted under its reader.
DanglingHandlesExplained ==
    \A r \in Readers : handle[r] = "open" /\ Freed(r) =>
        reader[r] = "failed" \/ part[owner[r]] = "deleted"

\* Whatever a sample callback unsubscribes, itself or another reader, the
\* reader async() is taking from keeps its listener until async() is back in
\* it. Only deleting the participant in the callback takes it away.
TakingReaderIsKept ==
    LET deletedUnder(r) == part[owner[r]] = "deleted"
    IN  /\ taking # None => Has(taking) \/ deletedUnder(taking)
        /\ fault = "take" => \E r \in Readers : Freed(r) /\ deletedUnder(r)

\* What OpenDDS has of p that no reader or writer of p will give back.
LeftOf(p) ==
    LET live == ReadersOf(p)
    IN  [topics |-> topics[p] - Cardinality(live) - writers[p],
         subscribers |-> subscribers[p] - Cardinality(live),
         publishers |-> publishers[p] - writers[p],
         filters |-> cfts[p] \ UNION {filter[r] : r \in live}]

\* What one participant owns, as ParticipantEntities has it: what OpenDDS
\* counts is what its readers and writers have and what was left behind.
Owned(p) == INSTANCE ParticipantEntities
                WITH stage <- part[p],
                     subscriptions <- [r \in ReadersOf(p) |-> filter[r]],
                     writers <- writers[p],
                     left <- LeftOf(p)

\* A step changes what a participant owns as one call on that participant
\* does: a subscription takes its own and gives back its own, once, however
\* unsubscribe() came to run and while the participant lives; what a failed
\* call left is not given back by anyone else.
EntitiesHaveOwners ==
    /\ \A p \in Participants : Owned(p)!Init
    /\ [][\A p \in Participants : [Owned(p)!Next]_(Owned(p)!vars)]_vars

\* Each reader's part of a step, as ListenerLife has it.
Life(r) == INSTANCE ListenerLife
               WITH stage <- reader[r], handle <- handle[r],
                    workers <- workers[r], taking <- taking = r

\* Whatever else the program calls, in and out of callbacks, and whatever
\* becomes of the participant, each listener lives as NodeDRListener does: its
\* reader is given up at most once and never under its own async().
ListenersLiveOnce ==
    /\ \A r \in Readers : Life(r)!Init
    /\ [][\A r \in Readers : [Life(r)!Next]_(Life(r)!vars)]_vars
=============================================================================
