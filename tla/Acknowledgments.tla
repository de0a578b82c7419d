-------------------------- MODULE Acknowledgments --------------------------
(***************************************************************************)
(* A program with a subscription and a DataWriter: NodeDRListener together *)
(* with write() and wait_for_acknowledgments() of src/node-opendds.cpp.    *)
(* The wait has no timeout and blocks the JavaScript thread, from the loop *)
(* or from inside a sample callback, until DDS threads have received what  *)
(* acknowledges the writes; the same threads store samples in the reader   *)
(* and call on_data_available, which waits for the listener's mutex.       *)
(*                                                                         *)
(* Outside src/: the readers of the writer's topic are reliable or go      *)
(* away, so each write is acknowledged in the end. A thread receives one   *)
(* thing at a time and nothing while it is in a listener. A take() with    *)
(* its calls of push_back is "an atomic operation" (README.md): it has the *)
(* reader to itself, and a thread with a sample for it waits.              *)
(***************************************************************************)
EXTENDS NodeDRListener

CONSTANT MaxWrites      \* bound on the writes

ASSUME MaxWritesAssumption == MaxWrites \in Nat

VARIABLES
    waiting,        \* the loop is in wait_for_acknowledgments()
    writes,         \* samples written so far ...
    unacknowledged, \* ... of which so many wait for acknowledgment
    storing         \* DDS threads with a sample to store in the reader

writerVars == <<waiting, writes, unacknowledged, storing>>
allVars == <<vars, writerVars>>

WriterTypeOK ==
    /\ waiting \in BOOLEAN
    /\ writes \in 0..MaxWrites
    /\ unacknowledged \in 0..writes
    /\ storing \subseteq Threads

WriterInit ==
    /\ Init
    /\ waiting = FALSE
    /\ writes = 0
    /\ unacknowledged = 0
    /\ storing = {}

-----------------------------------------------------------------------------

InJavaScript == loop \in {"idle", "callback"} /\ ~waiting

write ==
    /\ InJavaScript
    /\ writes < MaxWrites
    /\ writes' = writes + 1
    /\ unacknowledged' = unacknowledged + 1
    /\ UNCHANGED <<vars, waiting, storing>>

wait_for_acknowledgments ==
    /\ InJavaScript
    /\ waiting' = TRUE
    /\ UNCHANGED <<vars, writes, unacknowledged, storing>>

\* It returns, or throws because of another return code.
WaitEnds ==
    /\ waiting
    /\ unacknowledged = 0
    /\ waiting' = FALSE
    /\ UNCHANGED <<vars, writes, unacknowledged, storing>>

\* The wait lasts. Whether it can end is for WaitReturns to say.
Waits == waiting /\ UNCHANGED allVars

Idle(t) == dds[t] = "idle" /\ t \notin storing

\* A DDS thread receives an acknowledgment ...
Acknowledge(t) ==
    /\ Idle(t)
    /\ unacknowledged > 0
    /\ unacknowledged' = unacknowledged - 1
    /\ UNCHANGED <<vars, waiting, writes, storing>>

\* ... or a sample for the reader, one of Samples.
Receives(t) ==
    /\ Idle(t) /\ reader
    /\ Cardinality(storing) < Cardinality(Samples \ arrived)
    /\ storing' = storing \cup {t}
    /\ UNCHANGED <<vars, waiting, writes, unacknowledged>>

\* It stores the sample once take() leaves the reader to it, or drops it with
\* a reader that was deleted.
Stores(t) ==
    /\ t \in storing
    /\ loop \notin {"pushing", "callback"}
    /\ \/ \E s \in Samples : Arrive(t, s)
       \/ ~reader /\ UNCHANGED vars
    /\ storing' = storing \ {t}
    /\ UNCHANGED <<waiting, writes, unacknowledged>>

-----------------------------------------------------------------------------
(* The steps of the listener. Those of the JavaScript thread pause during  *)
(* the wait; the mutex is free then, because push_back unlocks it before   *)
(* it calls back.                                                          *)

HeldByCallback_Bug == loop = "callback"     \* no unlock before the call
HeldByCallback == FALSE

Locks(t) == OnDataAvailable(t) /\ ~HeldByCallback

ThreadSteps(t) ==
    \/ Stores(t)
    \/ /\ Locks(t) \/ AsyncSend(t) \/ ListenerReturns(t)
       /\ UNCHANGED writerVars

JavaScript(steps) == ~waiting /\ steps /\ UNCHANGED writerVars

WriterNext ==
    \/ write
    \/ wait_for_acknowledgments
    \/ WaitEnds
    \/ Waits
    \/ \E t \in Threads : Acknowledge(t)
    \/ \E t \in Threads : Receives(t)
    \/ \E t \in Threads : ThreadSteps(t)
    \/ JavaScript(LoopRuns)
    \/ JavaScript(Dispatch)
    \/ JavaScript(Unsubscribe)
    \/ ExecuteWorker /\ UNCHANGED writerVars
    \/ Rest /\ UNCHANGED writerVars

\* A thread that can go on does. What was written is acknowledged if a thread
\* stays there to receive it, and the wait then returns. Nothing makes samples
\* arrive.
WriterFairness ==
    /\ WF_allVars(WaitEnds)
    /\ WF_allVars(\E t \in Threads : Acknowledge(t))
    /\ \A t \in Threads : WF_allVars(ThreadSteps(t))

WriterSpec == WriterInit /\ [][WriterNext]_allVars /\ WriterFairness

-----------------------------------------------------------------------------
(* Properties.                                                             *)

\* wait_for_acknowledgments() returns from the loop, whatever the threads have
\* to do in the listener. From a sample callback it returns too, although the
\* threads that would acknowledge may be on their way into the listener whose
\* async() the loop is in, unless all of them have samples for the reader that
\* this take() holds: then it never does.
WaitReturns == waiting ~> ~waiting \/ (loop = "callback" /\ storing = Threads)
=============================================================================
