---------------------------- MODULE ListenerLife ----------------------------
(***************************************************************************)
(* The life of one listener as the rest of the add-on sees it: its uv      *)
(* handle, the UnsubscribeWorkers that have its address, and whether its   *)
(* reader still exists; no threads, mutex, samples or counted references.  *)
(* NodeDRListener, which has them, implements it, and so does NodeOpenDDS  *)
(* for each of a program's readers: what the two say of a listener agrees. *)
(***************************************************************************)
EXTENDS Naturals

None == "none"

VARIABLES
    stage,      \* "unused", "live", "stopping", "closed", "failed" or "orphan"
    handle,     \* None, "open", "closing" or "closed"
    workers,    \* UnsubscribeWorkers not yet called back
    taking      \* async() is running

vars == <<stage, handle, workers, taking>>

\* The reader exists and refers to the listener.
Holds == stage \in {"live", "stopping"}

Init ==
    /\ stage = "unused"
    /\ handle = None
    /\ workers = 0
    /\ taking = FALSE

\* subscribe() returns the reader, or throws with the listener made.
Subscribe ==
    /\ stage = "unused"
    /\ stage' \in {"live", "failed"}
    /\ handle' = "open"
    /\ UNCHANGED <<workers, taking>>

\* The reader is given up and the handle closed: at most once, and never
\* under a running async().
Release ==
    /\ Holds
    /\ ~taking
    /\ stage' = "closed"
    /\ handle' = "closing"

\* In a callback of its own reader unsubscribe() only leaves word.
Unsubscribe ==
    \/ /\ Release
       /\ UNCHANGED <<workers, taking>>
    \/ /\ Holds
       /\ taking
       /\ stage' = "stopping"
       /\ UNCHANGED <<handle, workers, taking>>

\* The participant is deleted with its readers.
Orphan ==
    /\ Holds
    /\ stage' = "orphan"
    /\ UNCHANGED <<handle, workers, taking>>

\* A send that was pending may start async() once more after a deferred
\* unsubscribe(), when the first has queued its worker.
TakeBegins ==
    /\ ~taking
    /\ handle = "open"
    /\ stage = "live" \/ (stage = "stopping" /\ workers = 1)
    /\ taking' = TRUE
    /\ UNCHANGED <<stage, handle, workers>>

TakeEnds ==
    /\ taking
    /\ taking' = FALSE
    /\ workers' = IF stage = "stopping" THEN workers + 1 ELSE workers
    /\ UNCHANGED <<stage, handle>>

\* A worker's callback gives the reader up if nobody did before.
WorkerCallback ==
    /\ ~taking
    /\ workers > 0
    /\ workers' = workers - 1
    /\ Release \/ (~Holds /\ UNCHANGED <<stage, handle>>)
    /\ UNCHANGED taking

CloseCb ==
    /\ ~taking
    /\ handle = "closing"
    /\ handle' = "closed"
    /\ UNCHANGED <<stage, workers, taking>>

Next ==
    \/ Subscribe \/ Unsubscribe \/ Orphan
    \/ TakeBegins \/ TakeEnds \/ WorkerCallback \/ CloseCb

Spec == Init /\ [][Next]_vars
=============================================================================
