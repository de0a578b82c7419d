----------------------- MODULE ContentFilteredTopics -----------------------
(***************************************************************************)
(* The ContentFilteredTopics of one participant over many subscriptions:   *)
(* each filtered subscribe() takes the current name and advances it, each  *)
(* unsubscribe() deletes its topic. What is asked here is when a name can  *)
(* come back. OpenDDS refuses a name that is in use.                       *)
(***************************************************************************)
EXTENDS CftNames, FiniteSets

CONSTANT MaxLive        \* bound on the filtered subscriptions held at once

ASSUME MaxLiveAssumption == MaxLive \in Nat

VARIABLES
    cft_name,           \* the next name
    live                \* the topics that exist: their names, and how many
                        \* names were handed out since, counted up to Period
vars == <<cft_name, live>>

Period == 9 * Digits

TypeOK ==
    /\ cft_name \in Names
    /\ live \subseteq [name : Names, age : 0..Period]

Init == cft_name = InitialName /\ live = {}

Older(topic) ==
    [topic EXCEPT !.age = IF @ < Period THEN @ + 1 ELSE @]

\* A filtered subscribe(): create_contentfilteredtopic, which may fail, then
\* increment().
Create ==
    /\ Cardinality(live) < MaxLive
    /\ LET taken == \E topic \in live : topic.name = cft_name
           new == IF taken THEN {} ELSE {[name |-> cft_name, age |-> 0]}
       IN  live' = {Older(topic) : topic \in live \cup new}
    /\ cft_name' = increment(cft_name)

\* unsubscribe() deletes the topic of one subscription.
Delete(topic) ==
    /\ live' = live \ {topic}
    /\ UNCHANGED cft_name

Next == Create \/ \E topic \in live : Delete(topic)

Spec == Init /\ [][Next]_vars

-----------------------------------------------------------------------------

\* increment() keeps exactly one digit different from zero, so that it finds
\* one to work on; it also means that a name never counts, it only moves: of
\* the 10^Digits names 9 * Digits are ever used.
OneDigit == \E i \in Positions, d \in 1..9 : cft_name = SingleDigit(i, d)

\* A name can only meet a topic that still has it when at least 9 * Digits
\* names have been handed out since that topic was created.
NoEarlyReuse ==
    \A topic \in live : topic.name = cft_name => topic.age >= Period

\* "unique names for ContentFilteredTopic" (the comment on cft_name): the next
\* name is not the one of a topic that still exists.
NamesAreUnique == \A topic \in live : topic.name # cft_name
=============================================================================
