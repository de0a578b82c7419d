--------------------------- MODULE NodeDRListener ---------------------------
(***************************************************************************)
(* One subscription, from subscribe() to the end of its listener: the      *)
(* NodeDRListener object of src/NodeDRListener.{h,cpp}, the uv_async       *)
(* handle inside it, the UnsubscribeWorkers it queues, the DDS threads     *)
(* that call on_data_available and the JavaScript thread, which runs the   *)
(* libuv loop, the sample callbacks and unsubscribe().                     *)
(*                                                                         *)
(* Outside src/: OpenDDS delivers each sample once, calls the listener     *)
(* through a counted reference, and its take() hands over the unread       *)
(* samples of one instant; libuv merges sends that meet a pending one and  *)
(* dispatches one handle or finished worker at a time.                     *)
(*                                                                         *)
(* An operator whose name ends in _Bug is a plausible mistake in the code  *)
(* of the operator after it. No action uses one: README.md says which      *)
(* property catches each.                                                  *)
(***************************************************************************)
EXTENDS Naturals, FiniteSets

CONSTANTS
    Threads,         \* DDS transport threads
    Samples,         \* samples that may arrive
    MaxUnsubscribes  \* bound on the calls of participant.unsubscribe(reader)

\* The places, besides the DDS threads, that may hold a counted reference.
Holders == {"subscribe", "reader", "close", "caller"}

ASSUME ThreadsAssumption == Threads \cap (Holders \cup {"free"}) = {}
ASSUME MaxUnsubscribesAssumption == MaxUnsubscribes \in Nat

VARIABLES
    loop,               \* where the JavaScript thread is
    dds,                \* dds[t]: where DDS thread t is in on_data_available
    mutex,              \* the thread in on_data_available that owns mutex_, or
                        \* "free"; the loop's critical sections are one step
    refs,               \* holders of a reference to the listener: {} is freed
    handle,             \* async_uv_: "open", "closing" or "closed"
    pending,            \* uv_async_send not yet dispatched
    reader,             \* the DataReader exists
    js_dr,              \* the internal field of the JS reader is not null
    receiving_samples,
    unsubscribing,
    unsubscribed,
    queued,             \* UnsubscribeWorkers waiting for the thread pool
    ready,              \* workers executed, HandleOKCallback still to come
    handled,            \* workers whose HandleOKCallback has run
    calls,              \* calls of unsubscribe() so far
    arrived,            \* every sample the reader ever received
    cache,              \* samples not yet taken from the reader
    batch,              \* samples taken, push_back still to come
    delivered,          \* samples handed to the callback
    skipped,            \* samples push_back ignored
    lost                \* samples dropped: conversion, exception, teardown

threadVars == <<dds, mutex>>
lifeVars   == <<refs, handle, reader, js_dr>>
flagVars   == <<receiving_samples, unsubscribing, unsubscribed>>
workVars   == <<queued, ready, handled>>
dataVars   == <<arrived, cache, batch, delivered, skipped, lost>>
vars == <<loop, threadVars, lifeVars, pending, flagVars, workVars, calls,
          dataVars>>

\* Undefined behaviour was reached, by the code named: the thread runs on in
\* no way worth describing.
Faults == {"fault in async", "fault in unsubscribe", "fault in worker"}

LoopStates == {"subscribing", "created", "failed", "idle", "taking", "pushing",
               "callback", "detaching"} \cup Faults

CountersOK ==
    /\ queued \in Nat /\ ready \in Nat /\ handled \in Nat
    /\ calls \in 0..MaxUnsubscribes

TypeOK ==
    /\ loop \in LoopStates
    /\ dds \in [Threads -> {"idle", "notify", "sending", "returning"}]
    /\ mutex \in {"free"} \cup Threads
    /\ refs \subseteq Holders \cup Threads
    /\ handle \in {"open", "closing", "closed"}
    /\ {pending, reader, js_dr} \subseteq BOOLEAN
    /\ {receiving_samples, unsubscribing, unsubscribed} \subseteq BOOLEAN
    /\ CountersOK
    /\ arrived \subseteq Samples /\ cache \subseteq Samples
    /\ batch \subseteq Samples /\ delivered \subseteq Samples
    /\ skipped \subseteq Samples /\ lost \subseteq Samples

-----------------------------------------------------------------------------
(* subscribe(), from the construction of the listener on.                  *)

\* subscribe() has built the listener and opened its handle.
Init ==
    /\ loop = "subscribing"
    /\ dds = [t \in Threads |-> "idle"]
    /\ mutex = "free"
    /\ refs = {"subscribe"}
    /\ handle = "open"
    /\ pending = FALSE
    /\ reader = FALSE
    /\ js_dr = FALSE
    /\ receiving_samples = FALSE
    /\ unsubscribing = FALSE
    /\ unsubscribed = FALSE
    /\ queued = 0 /\ ready = 0 /\ handled = 0
    /\ calls = 0
    /\ arrived = {} /\ cache = {} /\ batch = {}
    /\ delivered = {} /\ skipped = {} /\ lost = {}

\* create_datareader succeeds: samples may arrive from here on.
CreateReader ==
    /\ loop = "subscribing"
    /\ loop' = "created"
    /\ reader' = TRUE
    /\ refs' = refs \cup {"reader"}
    /\ UNCHANGED <<threadVars, handle, js_dr, pending, flagVars, workVars,
                   calls, dataVars>>

\* The reader's qos does not convert or create_datareader returns nil: the
\* only reference goes out of scope, the uv handle stays open.
SubscribeFails ==
    /\ loop = "subscribing"
    /\ loop' = "failed"
    /\ refs' = refs \ {"subscribe"}
    /\ UNCHANGED <<threadVars, handle, reader, js_dr, pending, flagVars,
                   workVars, calls, dataVars>>

\* set_javascript_datareader, then subscribe() returns.
SetJavascriptDatareader ==
    /\ loop = "created"
    /\ mutex = "free"
    /\ js_dr' = TRUE
    /\ refs' = refs \ {"subscribe"}
    /\ loop' = "idle"
    /\ UNCHANGED <<threadVars, handle, reader, pending, flagVars, workVars,
                   calls, dataVars>>

-----------------------------------------------------------------------------
(* async(): one dispatch of the handle takes every unread sample.          *)

\* The loop dispatches async_cb: up to the unlock before take().
Async ==
    /\ loop = "idle"
    /\ pending
    /\ handle = "open"
    /\ mutex = "free"
    /\ IF refs # {} /\ js_dr
       THEN /\ pending' = FALSE
            /\ receiving_samples' = TRUE
            /\ loop' = "taking"
       ELSE /\ loop' = "fault in async"
            /\ UNCHANGED <<pending, receiving_samples>>
    /\ UNCHANGED <<threadVars, lifeVars, unsubscribing, unsubscribed, workVars,
                   calls, dataVars>>

Take_Bug ==                                    \* read() in place of take()
    /\ loop = "taking"
    /\ batch' = cache
    /\ loop' = "pushing"
    /\ UNCHANGED <<threadVars, lifeVars, pending, flagVars, workVars, calls,
                   arrived, cache, delivered, skipped, lost>>

\* take() removes the unread samples from the reader, then reserve().
Take ==
    /\ loop = "taking"
    /\ batch' = cache
    /\ cache' = {}
    /\ loop' = "pushing"
    /\ UNCHANGED <<threadVars, lifeVars, pending, flagVars, workVars, calls,
                   arrived, delivered, skipped, lost>>

SkipsSample_Bug == FALSE
SkipsSample == unsubscribing

\* push_back, one critical section: the sample is ignored, or dropped because
\* ValueDispatcher::write failed, or the callback is entered with it, the
\* mutex released.
PushBack(s) ==
    /\ loop = "pushing"
    /\ s \in batch
    /\ mutex = "free"
    /\ batch' = batch \ {s}
    /\ \/ /\ SkipsSample
          /\ skipped' = skipped \cup {s}
          /\ UNCHANGED <<loop, delivered, lost>>
       \/ /\ ~SkipsSample
          /\ lost' = lost \cup {s}
          /\ UNCHANGED <<loop, delivered, skipped>>
       \/ /\ ~SkipsSample
          /\ delivered' = delivered \cup {s}
          /\ loop' = "callback"
          /\ UNCHANGED <<skipped, lost>>
    /\ UNCHANGED <<threadVars, lifeVars, pending, flagVars, workVars, calls,
                   arrived, cache>>

CallbackReturns ==
    /\ loop = "callback"
    /\ loop' = "pushing"
    /\ UNCHANGED <<threadVars, lifeVars, pending, flagVars, workVars, calls,
                   dataVars>>

\* push_back leaves by an exception, which passes through take() and ends in
\* catch (...): the rest of the batch is given up.
TakeThrows ==
    /\ loop = "pushing"
    /\ mutex = "free"
    /\ batch # {}
    /\ lost' = lost \cup batch
    /\ batch' = {}
    /\ UNCHANGED <<loop, threadVars, lifeVars, pending, flagVars, workVars,
                   calls, arrived, cache, delivered, skipped>>

NeedsWorker_Bug == FALSE
NeedsWorker == unsubscribing

\* The end of async(): queue an UnsubscribeWorker if a callback asked for it.
AsyncEnds ==
    /\ loop = "pushing"
    /\ batch = {}
    /\ mutex = "free"
    /\ receiving_samples' = FALSE
    /\ queued' = IF NeedsWorker THEN queued + 1 ELSE queued
    /\ loop' = "idle"
    /\ UNCHANGED <<threadVars, lifeVars, pending, unsubscribing, unsubscribed,
                   ready, handled, calls, dataVars>>

-----------------------------------------------------------------------------
(* unsubscribe(), by the program or by an UnsubscribeWorker.               *)

UnsubscribeNowI_Bug(held) ==                   \* no uv_close
    \/ /\ unsubscribed
       /\ UNCHANGED <<loop, lifeVars, unsubscribed>>
    \/ /\ ~unsubscribed
       /\ js_dr' = FALSE
       /\ refs' = refs \cup {"close"} \cup held
       /\ unsubscribed' = TRUE
       /\ loop' = "detaching"
       /\ UNCHANGED <<handle, reader>>

\* The references from uv_close on; held are those of unsubscribe_now_i's
\* caller.
AddRef_Bug(held) == refs \cup held
AddRef(held) == refs \cup {"close"} \cup held

UnsubscribeNowI_Again_Bug(held) ==             \* unsubscribed_ is not tested
    /\ js_dr' = FALSE
    /\ handle' = "closing"
    /\ refs' = AddRef(held)
    /\ unsubscribed' = TRUE
    /\ loop' = "detaching"
    /\ UNCHANGED reader

\* unsubscribe_now_i up to its unlock.
UnsubscribeNowI(held) ==
    \/ /\ unsubscribed
       /\ UNCHANGED <<loop, lifeVars, unsubscribed>>
    \/ /\ ~unsubscribed
       /\ js_dr' = FALSE
       /\ refs' = AddRef(held)
       /\ handle' = "closing"
       /\ unsubscribed' = TRUE
       /\ loop' = "detaching"
       /\ UNCHANGED reader

Defers_Bug == FALSE
Defers == receiving_samples

\* participant.unsubscribe(reader), called while the program runs or from
\* inside a sample callback. The internal field is used without a check.
Unsubscribe ==
    /\ loop \in {"idle", "callback"}
    /\ calls < MaxUnsubscribes
    /\ calls' = calls + 1
    /\ \/ /\ ~js_dr
          /\ loop' = "fault in unsubscribe"
          /\ UNCHANGED <<lifeVars, unsubscribing, unsubscribed>>
       \/ /\ js_dr /\ mutex = "free" /\ Defers
          /\ unsubscribing' = TRUE
          /\ UNCHANGED <<loop, lifeVars, unsubscribed>>
       \/ /\ js_dr /\ mutex = "free" /\ ~Defers
          /\ UnsubscribeNowI({"caller"})
          /\ UNCHANGED unsubscribing
    /\ UNCHANGED <<threadVars, pending, receiving_samples, workVars, dataVars>>

\* The rest of unsubscribe_now_i, without the mutex: the reader, with the
\* samples still in it, its subscriber and its topics are deleted.
Detach ==
    /\ loop = "detaching"
    /\ reader' = FALSE
    /\ lost' = lost \cup cache
    /\ cache' = {}
    /\ refs' = refs \ {"reader", "caller"}
    /\ loop' = "idle"
    /\ UNCHANGED <<threadVars, handle, js_dr, pending, flagVars, workVars,
                   calls, arrived, batch, delivered, skipped>>

\* The thread pool runs a worker's empty Execute and reports it done.
ExecuteWorker ==
    /\ queued > 0
    /\ queued' = queued - 1
    /\ ready' = ready + 1
    /\ UNCHANGED <<loop, threadVars, lifeVars, pending, flagVars, handled,
                   calls, dataVars>>

\* The loop calls a finished worker back: it uses the listener through the
\* plain pointer it was given.
HandleOKCallback ==
    /\ loop = "idle"
    /\ ready > 0
    /\ mutex = "free"
    /\ ready' = ready - 1
    /\ handled' = handled + 1
    /\ IF refs = {}
       THEN /\ loop' = "fault in worker"
            /\ UNCHANGED <<lifeVars, unsubscribed>>
       ELSE UnsubscribeNowI({})
    /\ UNCHANGED <<threadVars, pending, receiving_samples, unsubscribing,
                   queued, calls, dataVars>>

CloseCb_Bug ==                                 \* no _remove_ref
    /\ loop = "idle"
    /\ handle = "closing"
    /\ handle' = "closed"
    /\ UNCHANGED <<loop, threadVars, refs, reader, js_dr, pending, flagVars,
                   workVars, calls, dataVars>>

\* libuv has closed the handle: close_cb drops the reference taken for it.
CloseCb ==
    /\ loop = "idle"
    /\ handle = "closing"
    /\ handle' = "closed"
    /\ refs' = refs \ {"close"}
    /\ UNCHANGED <<loop, threadVars, reader, js_dr, pending, flagVars,
                   workVars, calls, dataVars>>

-----------------------------------------------------------------------------
(* DDS threads.                                                            *)

\* A sample is stored in the reader and its listener is about to be called.
Arrive(t, s) ==
    /\ reader
    /\ dds[t] = "idle"
    /\ s \notin arrived
    /\ arrived' = arrived \cup {s}
    /\ cache' = cache \cup {s}
    /\ refs' = refs \cup {t}
    /\ dds' = [dds EXCEPT ![t] = "notify"]
    /\ UNCHANGED <<loop, mutex, handle, reader, js_dr, pending, flagVars,
                   workVars, calls, batch, delivered, skipped, lost>>

WakesLoop_Bug == TRUE
WakesLoop_Bug2 == ~unsubscribing /\ ~receiving_samples
WakesLoop == ~unsubscribing

\* on_data_available takes the mutex and returns when a callback has asked to
\* unsubscribe ...
OnDataAvailable(t) ==
    /\ dds[t] = "notify"
    /\ mutex = "free"
    /\ mutex' = IF WakesLoop THEN t ELSE "free"
    /\ dds' = [dds EXCEPT ![t] = IF WakesLoop THEN "sending" ELSE "returning"]
    /\ UNCHANGED <<loop, lifeVars, pending, flagVars, workVars, calls,
                   dataVars>>

\* ... else it wakes the loop before it unlocks.
AsyncSend(t) ==
    /\ dds[t] = "sending"
    /\ pending' = TRUE
    /\ mutex' = "free"
    /\ dds' = [dds EXCEPT ![t] = "returning"]
    /\ UNCHANGED <<loop, lifeVars, flagVars, workVars, calls, dataVars>>

\* The call into the listener returns and OpenDDS drops its reference.
ListenerReturns(t) ==
    /\ dds[t] = "returning"
    /\ refs' = refs \ {t}
    /\ dds' = [dds EXCEPT ![t] = "idle"]
    /\ UNCHANGED <<loop, mutex, handle, reader, js_dr, pending, flagVars,
                   workVars, calls, dataVars>>

-----------------------------------------------------------------------------

\* Code of the JavaScript thread that is already running.
LoopRuns ==
    \/ CreateReader \/ SubscribeFails \/ SetJavascriptDatareader
    \/ Take \/ (\E s \in Samples : PushBack(s))
    \/ CallbackReturns \/ TakeThrows \/ AsyncEnds \/ Detach

\* What an iteration of the libuv loop may dispatch.
Dispatch == Async \/ HandleOKCallback \/ CloseCb

Listening(t) == OnDataAvailable(t) \/ AsyncSend(t) \/ ListenerReturns(t)

\* Nothing is left to run: the program may rest here.
Quiescent ==
    /\ loop \in {"idle", "failed"} \cup Faults
    /\ \A t \in Threads : dds[t] = "idle"
    /\ loop = "idle" => ~(pending /\ handle = "open")
    /\ loop = "idle" => handle # "closing"
    /\ loop = "idle" => ready = 0
    /\ queued = 0

Rest == Quiescent /\ UNCHANGED vars

Next ==
    \/ LoopRuns
    \/ Dispatch
    \/ Unsubscribe
    \/ ExecuteWorker
    \/ \E t \in Threads : Listening(t)
    \/ \E t \in Threads, s \in Samples : Arrive(t, s)
    \/ Rest

\* Running code makes progress, the thread pool runs what it was given, and
\* the loop keeps dispatching; JavaScript callbacks return. Nothing makes
\* samples arrive, conversions fail or the program unsubscribe. Samples and
\* calls are bounded, so no dispatch is disabled and enabled for ever.
Fairness ==
    /\ WF_vars(LoopRuns)
    /\ WF_vars(Async)
    /\ WF_vars(HandleOKCallback)
    /\ WF_vars(CloseCb)
    /\ WF_vars(ExecuteWorker)
    /\ \A t \in Threads : WF_vars(Listening(t))

SafeSpec == Init /\ [][Next]_vars

Spec == SafeSpec /\ Fairness

-----------------------------------------------------------------------------
(* Properties.                                                             *)

\* The loop never dispatches async() on a listener that was freed or whose
\* reader was already given up: clearing the internal field and uv_close go
\* together, and a send that was pending then is never dispatched.
AsyncSafe == loop # "fault in async"

\* While async() is taking samples nobody deletes the reader, clears the
\* field it was read from, closes the handle or frees the listener, although
\* the callbacks it makes may call unsubscribe().
TakeProtected ==
    receiving_samples =>
        reader /\ js_dr /\ handle = "open" /\ "reader" \in refs

\* No sample is delivered twice or vanishes: each one received is in exactly
\* one place, and push_back ignores samples only once unsubscribing_ is set.
Places == <<cache, batch, delivered, skipped, lost>>
Conservation ==
    /\ arrived = UNION {Places[i] : i \in DOMAIN Places}
    /\ \A i, j \in DOMAIN Places : i # j => Places[i] \cap Places[j] = {}
    /\ skipped # {} => unsubscribing

\* After unsubscribe() has returned, deferred or not, the callback is not
\* entered again: "ignore any more samples" (NodeDRListener.h).
NoDeliveryAfterUnsubscribe ==
    [][delivered' # delivered => ~unsubscribing /\ ~unsubscribed]_vars

\* A subscription never has more than two UnsubscribeWorkers: the async()
\* that saw the request queues one, a send that was already pending then may
\* dispatch a second, and on_data_available sends no more.
WorkersBounded == queued + ready + handled <= 2

\* As long as libuv knows the handle inside a listener that got its reader,
\* something keeps that listener alive.
HandleKeepsListener ==
    loop # "failed" /\ handle # "closed" => refs # {}

\* Once the handle is closed only DDS threads still in on_data_available can
\* hold the listener, and the reader and its topics are gone: no leak.
NoLeak ==
    handle = "closed" => refs \subseteq Threads /\ ~reader

\* No wake-up is lost: a sample in the reader is taken, unless the program
\* unsubscribes first. A send merged into a pending one or made while take()
\* runs must still lead to a later take().
NoLostWakeup ==
    \A s \in Samples :
        s \in cache ~> s \notin cache \/ unsubscribing \/ unsubscribed

\* A request to unsubscribe ends with the handle closed, also when it came
\* from inside a callback and had to be deferred.
StopCompletes == unsubscribing \/ unsubscribed ~> handle = "closed"

\* "In a new event after this, we can safely unsubscribe" (the comment where
\* async() queues the worker): a worker's callback finds its listener.
WorkerFindsListener == loop # "fault in worker"

\* What subscribe() promises: NodeDRListener implements Subscription.
phaseBar ==
    CASE loop = "failed" -> "failed"
      [] loop = "subscribing" -> "opening"
      [] ~unsubscribing /\ ~unsubscribed /\ loop \notin {"failed", "subscribing"}
             -> "active"
      [] (unsubscribing \/ unsubscribed) /\ reader -> "stopping"
      [] OTHER -> "closed"

Promise == INSTANCE Subscription
               WITH phase <- phaseBar,
                    seen <- arrived,
                    inbox <- cache \cup batch,
                    delivered <- delivered

\* The listener, with its threads, loop and workers, implements Subscription.
ImplementsSubscription == Promise!Spec

\* What NodeOpenDDS says of a listener is so: NodeDRListener implements
\* ListenerLife, which NodeOpenDDS follows for each reader.
stageBar ==
    CASE loop = "failed" -> "failed"
      [] loop \in {"subscribing", "created"} -> "unused"
      [] loop \notin {"failed", "subscribing", "created"} /\ unsubscribed
             -> "closed"
      [] loop \notin {"failed", "subscribing", "created"} /\ ~unsubscribed
             -> IF unsubscribing THEN "stopping" ELSE "live"

Life == INSTANCE ListenerLife
            WITH stage <- stageBar,
                 handle <- IF stageBar = "unused" THEN "none" ELSE handle,
                 workers <- queued + ready,
                 taking <- receiving_samples

\* Over all threads the reader is given up and the handle closed at most once,
\* never under async(), and a worker follows each async() after a deferred
\* unsubscribe(), at most one of them beside another.
LivesOnce == Life!Spec
=============================================================================
