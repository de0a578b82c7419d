------------------------ MODULE ParticipantEntities ------------------------
(***************************************************************************)
(* What OpenDDS holds for one participant, as the program may rely on it:  *)
(* each subscription and each writer has entities of its own, which come   *)
(* and go with it, and what failed calls leave behind stays until the      *)
(* participant is deleted. No listeners, callbacks or uv handles.          *)
(* NodeOpenDDS implements it for each participant.                         *)
(***************************************************************************)
EXTENDS Naturals

CONSTANTS
    Readers,        \* subscriptions that may be made
    Names           \* names of ContentFilteredTopics

VARIABLES
    stage,          \* "none", "live" or "deleted"
    subscriptions,  \* the names of each one's ContentFilteredTopics: at most
                    \* one. Each has a topic and a Subscriber besides.
    writers,        \* DataWriters, each with a topic and a Publisher
    left            \* what nobody has: topics, subscribers, publishers, filters

vars == <<stage, subscriptions, writers, left>>

Nothing == [topics |-> 0, subscribers |-> 0, publishers |-> 0, filters |-> {}]
NoSubscription == [r \in {} |-> {}]

\* The names that exist.
Filters ==
    left.filters \cup UNION {subscriptions[r] : r \in DOMAIN subscriptions}

Init ==
    /\ stage = "none"
    /\ subscriptions = NoSubscription
    /\ writers = 0
    /\ left = Nothing

Create ==
    /\ stage = "none"
    /\ stage' = "live"
    /\ UNCHANGED <<subscriptions, writers, left>>

\* All goes, whoever has it. The program may ask for it once more.
Delete ==
    /\ stage # "none"
    /\ stage' = "deleted"
    /\ subscriptions' = NoSubscription
    /\ writers' = 0
    /\ left' = Nothing

\* A filter's name is new to the participant.
Subscribe(r, new) ==
    /\ stage = "live"
    /\ r \notin DOMAIN subscriptions
    /\ new \cap Filters = {}
    /\ subscriptions' = [s \in DOMAIN subscriptions \cup {r} |->
                            IF s = r THEN new ELSE subscriptions[s]]
    /\ UNCHANGED <<stage, writers, left>>

\* What one had goes, and nothing else, before the participant does.
Unsubscribe(r) ==
    /\ stage = "live"
    /\ r \in DOMAIN subscriptions
    /\ subscriptions' = [s \in DOMAIN subscriptions \ {r} |-> subscriptions[s]]
    /\ UNCHANGED <<stage, writers, left>>

Write ==
    /\ stage = "live"
    /\ writers' = writers + 1
    /\ UNCHANGED <<stage, subscriptions, left>>

\* A call that fails leaves at most one of each behind.
Fail(new) ==
    /\ stage = "live"
    /\ new \cap Filters = {}
    /\ \E t, s, p \in 0..1 :
           left' = [topics |-> left.topics + t,
                    subscribers |-> left.subscribers + s,
                    publishers |-> left.publishers + p,
                    filters |-> left.filters \cup new]
    /\ UNCHANGED <<stage, subscriptions, writers>>

\* One name, or none.
Choices == {{}} \cup {{n} : n \in Names}

Next ==
    \/ Create \/ Delete \/ Write
    \/ \E r \in Readers : Unsubscribe(r)
    \/ \E r \in Readers, new \in Choices : Subscribe(r, new)
    \/ \E new \in Choices : Fail(new)

Spec == Init /\ [][Next]_vars
=============================================================================
