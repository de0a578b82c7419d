---------------------------- MODULE Subscription ----------------------------
(***************************************************************************)
(* What one call of participant.subscribe(..., callback) promises the      *)
(* JavaScript program, without threads, event loop or reference counts:    *)
(* every sample reaches the callback at most once, only while nobody has   *)
(* asked to unsubscribe, and a subscription that was asked to stop closes. *)
(* NodeDRListener implements it (see the refinement at its end).           *)
(***************************************************************************)
EXTENDS FiniteSets

CONSTANT Samples

VARIABLES
    phase,      \* "opening", "active", "stopping", "closed" or "failed"
    seen,       \* every sample that ever reached the reader
    inbox,      \* samples held for the callback
    delivered   \* samples the callback was given

vars == <<phase, seen, inbox, delivered>>

TypeOK ==
    /\ phase \in {"opening", "active", "stopping", "closed", "failed"}
    /\ seen \subseteq Samples
    /\ inbox \subseteq seen
    /\ delivered \subseteq seen

Init ==
    /\ phase = "opening"
    /\ seen = {}
    /\ inbox = {}
    /\ delivered = {}

Open == /\ phase = "opening"
        /\ phase' = "active"
        /\ UNCHANGED <<seen, inbox, delivered>>

Fail == /\ phase = "opening"
        /\ phase' = "failed"
        /\ UNCHANGED <<seen, inbox, delivered>>

\* A sample is received once; it may still come in while the reader stops.
Arrive(s) ==
    /\ phase \in {"active", "stopping"}
    /\ s \notin seen
    /\ seen' = seen \cup {s}
    /\ inbox' = inbox \cup {s}
    /\ UNCHANGED <<phase, delivered>>

Deliver(s) ==
    /\ phase = "active"
    /\ s \in inbox
    /\ inbox' = inbox \ {s}
    /\ delivered' = delivered \cup {s}
    /\ UNCHANGED <<phase, seen>>

\* Samples may be given up: a conversion fails, or the program is stopping.
Discard(D) ==
    /\ phase \in {"active", "stopping"}
    /\ D \subseteq inbox
    /\ inbox' = inbox \ D
    /\ UNCHANGED <<phase, seen, delivered>>

Stop == /\ phase = "active"
        /\ phase' = "stopping"
        /\ UNCHANGED <<seen, inbox, delivered>>

Close == /\ phase = "stopping"
         /\ phase' = "closed"
         /\ inbox' = {}
         /\ UNCHANGED <<seen, delivered>>

Next ==
    \/ Open
    \/ Fail
    \/ \E s \in Samples : Arrive(s) \/ Deliver(s)
    \/ \E D \in SUBSET Samples : Discard(D)
    \/ Stop
    \/ Close

SafeSpec == Init /\ [][Next]_vars

Spec == SafeSpec /\ WF_vars(Close)
=============================================================================
