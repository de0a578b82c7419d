------------------------ MODULE NodeDRListenerProofs ------------------------
(***************************************************************************)
(* Theorems of NodeDRListener and Acknowledgments, for any set of DDS      *)
(* threads and of samples and any bound on the calls. All rest on one      *)
(* inductive invariant, IInv: who holds a reference when (Lifecycle), who  *)
(* owns the mutex (Sending), what a request to unsubscribe can still cause *)
(* (WorkerBudget) and where samples are (SampleFlow). At the end, that it  *)
(* implements Subscription and ListenerLife.                               *)
(***************************************************************************)
EXTENDS Acknowledgments, TLAPS

\* subscribe() has not given its reader out yet.
Subscribing == loop \in {"subscribing", "created"}

\* What is known at each point of the life of a listener.
Lifecycle ==
    /\ loop \in {"subscribing", "failed"} =>
           /\ handle = "open" /\ ~reader /\ ~js_dr /\ ~pending
           /\ ~unsubscribing /\ ~unsubscribed
           /\ arrived = {}
           /\ \A t \in Threads : dds[t] = "idle"
    /\ loop = "created" => ~unsubscribing /\ ~unsubscribed
    /\ loop \notin {"subscribing", "failed"} /\ ~unsubscribed =>
           reader /\ handle = "open"
    /\ loop \notin {"subscribing", "failed", "created"} =>
           (js_dr <=> ~unsubscribed)
    /\ receiving_samples <=> loop \in {"taking", "pushing", "callback"}
    /\ receiving_samples => ~unsubscribed
    /\ unsubscribed => handle # "open"
    /\ unsubscribed /\ reader => loop = "detaching"
    /\ loop = "detaching" => unsubscribed /\ reader /\ handle = "closing"
    /\ loop # "fault in async"

\* Each reference is held exactly as long as its holder needs it.
References ==
    /\ "reader" \in refs <=> reader
    /\ "subscribe" \in refs <=> Subscribing
    /\ "close" \in refs <=> handle = "closing"
    /\ "caller" \in refs => loop = "detaching"
    /\ \A t \in Threads : t \in refs <=> dds[t] # "idle"

\* A thread about to send owns the mutex, so nobody asks to unsubscribe.
Sending ==
    \A t \in Threads : dds[t] = "sending" => mutex = t /\ ~unsubscribing

Count(b) == IF b THEN 1 ELSE 0

\* Workers made, and dispatches of async() that may still make one.
Workers == queued + ready + handled
Dispatches == Count(receiving_samples) + Count(pending)

WorkerBudget ==
    /\ ~unsubscribing => Workers = 0
    /\ unsubscribing => Workers + Dispatches <= 2

SampleFlow ==
    /\ cache \cup batch \cup delivered \subseteq arrived
    /\ cache \cap batch = {}
    /\ batch # {} => loop \in {"pushing", "callback"}
    /\ cache # {} => reader

IInv == TypeOK /\ Lifecycle /\ References /\ Sending /\ WorkerBudget /\ SampleFlow

-----------------------------------------------------------------------------
(* Every step preserves the invariant.                                     *)

\* subscribe() starts in a state of the invariant.
LEMMA InitInv == Init => IInv
  <1> SUFFICES ASSUME Init PROVE IInv
    OBVIOUS
  <1> USE ThreadsAssumption DEF Init
  <1>0. CountersOK
    BY MaxUnsubscribesAssumption DEF CountersOK
  <1>1. TypeOK
    BY <1>0 DEF TypeOK, LoopStates, Faults, Holders
  <1>2. Lifecycle /\ Sending /\ SampleFlow
    BY DEF Lifecycle, Sending, SampleFlow
  <1>3. References
    BY DEF References, Subscribing, Holders
  <1>4. WorkerBudget
    BY DEF WorkerBudget, Workers, Dispatches, Count
  <1>5. QED
    BY <1>1, <1>2, <1>3, <1>4 DEF IInv

\* The invariant is preserved when create_datareader succeeds.
LEMMA CreateReaderInv ==
  ASSUME IInv, CreateReader
  PROVE  IInv'
  <1>0. CountersOK'
    BY MaxUnsubscribesAssumption DEF IInv, CreateReader, threadVars,
       flagVars, workVars, dataVars, TypeOK, CountersOK
  <1>1. TypeOK'
    BY <1>0, ThreadsAssumption DEF IInv, CreateReader, threadVars, flagVars,
       workVars, dataVars, TypeOK, LoopStates, Faults, Holders
  <1>2. Lifecycle'
    BY ThreadsAssumption DEF IInv, CreateReader, threadVars, flagVars,
       workVars, dataVars, TypeOK, Lifecycle, References
  <1>3. References'
    BY ThreadsAssumption DEF IInv, CreateReader, threadVars, flagVars,
       workVars, dataVars, TypeOK, Lifecycle, References, Subscribing,
       Holders
  <1>4. Sending'
    BY ThreadsAssumption DEF IInv, CreateReader, threadVars, flagVars,
       workVars, dataVars, TypeOK, Lifecycle, Sending
  <1>5. WorkerBudget'
    BY DEF IInv, CreateReader, threadVars, flagVars, workVars, dataVars,
       TypeOK, CountersOK, Lifecycle, Sending, WorkerBudget, Workers,
       Dispatches, Count
  <1>6. SampleFlow'
    BY DEF IInv, CreateReader, threadVars, flagVars, workVars, dataVars,
       TypeOK, Lifecycle, SampleFlow
  <1>7. QED
    BY <1>1, <1>2, <1>3, <1>4, <1>5, <1>6 DEF IInv

\* The invariant is preserved when subscribe() fails.
LEMMA SubscribeFailsInv ==
  ASSUME IInv, SubscribeFails
  PROVE  IInv'
  <1>0. CountersOK'
    BY MaxUnsubscribesAssumption DEF IInv, SubscribeFails, threadVars,
       flagVars, workVars, dataVars, TypeOK, CountersOK
  <1>1. TypeOK'
    BY <1>0, ThreadsAssumption DEF IInv, SubscribeFails, threadVars,
       flagVars, workVars, dataVars, TypeOK, LoopStates, Faults, Holders
  <1>2. Lifecycle'
    BY ThreadsAssumption DEF IInv, SubscribeFails, threadVars, flagVars,
       workVars, dataVars, TypeOK, Lifecycle, References
  <1>3. References'
    BY ThreadsAssumption DEF IInv, SubscribeFails, threadVars, flagVars,
       workVars, dataVars, TypeOK, Lifecycle, References, Subscribing,
       Holders
  <1>4. Sending'
    BY ThreadsAssumption DEF IInv, SubscribeFails, threadVars, flagVars,
       workVars, dataVars, TypeOK, Lifecycle, Sending
  <1>5. WorkerBudget'
    BY DEF IInv, SubscribeFails, threadVars, flagVars, workVars, dataVars,
       TypeOK, CountersOK, Lifecycle, Sending, WorkerBudget, Workers,
       Dispatches, Count
  <1>6. SampleFlow'
    BY DEF IInv, SubscribeFails, threadVars, flagVars, workVars, dataVars,
       TypeOK, Lifecycle, SampleFlow
  <1>7. QED
    BY <1>1, <1>2, <1>3, <1>4, <1>5, <1>6 DEF IInv

\* The invariant is preserved when subscribe() returns its reader.
LEMMA SetJavascriptDatareaderInv ==
  ASSUME IInv, SetJavascriptDatareader
  PROVE  IInv'
  <1>0. CountersOK'
    BY MaxUnsubscribesAssumption DEF IInv, SetJavascriptDatareader,
       threadVars, flagVars, workVars, dataVars, TypeOK, CountersOK
  <1>1. TypeOK'
    BY <1>0, ThreadsAssumption DEF IInv, SetJavascriptDatareader,
       threadVars, flagVars, workVars, dataVars, TypeOK, LoopStates, Faults,
       Holders
  <1>2. Lifecycle'
    BY ThreadsAssumption DEF IInv, SetJavascriptDatareader, threadVars,
       flagVars, workVars, dataVars, TypeOK, Lifecycle, References
  <1>3. References'
    BY ThreadsAssumption DEF IInv, SetJavascriptDatareader, threadVars,
       flagVars, workVars, dataVars, TypeOK, Lifecycle, References,
       Subscribing, Holders
  <1>4. Sending'
    BY ThreadsAssumption DEF IInv, SetJavascriptDatareader, threadVars,
       flagVars, workVars, dataVars, TypeOK, Lifecycle, Sending
  <1>5. WorkerBudget'
    BY DEF IInv, SetJavascriptDatareader, threadVars, flagVars, workVars,
       dataVars, TypeOK, CountersOK, Lifecycle, Sending, WorkerBudget,
       Workers, Dispatches, Count
  <1>6. SampleFlow'
    BY DEF IInv, SetJavascriptDatareader, threadVars, flagVars, workVars,
       dataVars, TypeOK, Lifecycle, SampleFlow
  <1>7. QED
    BY <1>1, <1>2, <1>3, <1>4, <1>5, <1>6 DEF IInv

\* The invariant is preserved when async() begins.
LEMMA AsyncInv ==
  ASSUME IInv, Async
  PROVE  IInv'
  <1>0. CountersOK'
    BY MaxUnsubscribesAssumption DEF IInv, Async, threadVars, lifeVars,
       workVars, dataVars, TypeOK, CountersOK
  <1>1. TypeOK'
    BY <1>0, ThreadsAssumption DEF IInv, Async, threadVars, lifeVars,
       workVars, dataVars, TypeOK, LoopStates, Faults, Holders
  <1>2. Lifecycle'
    BY ThreadsAssumption DEF IInv, Async, threadVars, lifeVars, workVars,
       dataVars, TypeOK, Lifecycle, References
  <1>3. References'
    BY ThreadsAssumption DEF IInv, Async, threadVars, lifeVars, workVars,
       dataVars, TypeOK, Lifecycle, References, Subscribing, Holders
  <1>4. Sending'
    BY ThreadsAssumption DEF IInv, Async, threadVars, lifeVars, workVars,
       dataVars, TypeOK, Lifecycle, Sending
  <1>5. WorkerBudget'
    <2>0. unsubscribing' = unsubscribing
      BY DEF Async
    <2>1. Workers' = Workers
      BY DEF Async, Workers, workVars
    <2>2. ~receiving_samples /\ pending
      BY DEF IInv, Async, Lifecycle
    <2>3. \/ receiving_samples' = TRUE /\ pending' = FALSE
          \/ UNCHANGED <<receiving_samples, pending>>
      BY DEF Async
    <2>4. Dispatches' <= Dispatches
      <3>1. CASE receiving_samples' = TRUE /\ pending' = FALSE
        BY <2>2, <3>1 DEF Dispatches, Count
      <3>2. CASE UNCHANGED <<receiving_samples, pending>>
        BY <3>2 DEF Dispatches, Count
      <3>3. QED
        BY <2>3, <3>1, <3>2
    <2>5. Workers \in Nat /\ Dispatches \in Nat /\ Dispatches' \in Nat
      BY DEF IInv, TypeOK, CountersOK, Workers, Dispatches, Count
    <2>6. CASE unsubscribing
      <3>1. Workers + Dispatches <= 2
        BY <2>6 DEF IInv, WorkerBudget
      <3>2. Workers' + Dispatches' <= 2
        BY <2>1, <2>4, <2>5, <3>1 DEF Workers, Dispatches
      <3>3. QED
        BY <2>0, <2>6, <3>2 DEF WorkerBudget
    <2>7. CASE ~unsubscribing
      BY <2>0, <2>1, <2>7 DEF IInv, WorkerBudget
    <2>8. QED
      BY <2>6, <2>7
  <1>6. SampleFlow'
    BY DEF IInv, Async, threadVars, lifeVars, workVars, dataVars, TypeOK,
       Lifecycle, SampleFlow
  <1>7. QED
    BY <1>1, <1>2, <1>3, <1>4, <1>5, <1>6 DEF IInv

\* The invariant is preserved when samples are taken.
LEMMA TakeInv ==
  ASSUME IInv, Take
  PROVE  IInv'
  <1>0. CountersOK'
    BY MaxUnsubscribesAssumption DEF IInv, Take, threadVars, lifeVars,
       flagVars, workVars, TypeOK, CountersOK
  <1>1. TypeOK'
    BY <1>0, ThreadsAssumption DEF IInv, Take, threadVars, lifeVars,
       flagVars, workVars, TypeOK, LoopStates, Faults, Holders
  <1>2. Lifecycle'
    BY ThreadsAssumption DEF IInv, Take, threadVars, lifeVars, flagVars,
       workVars, TypeOK, Lifecycle, References
  <1>3. References'
    BY ThreadsAssumption DEF IInv, Take, threadVars, lifeVars, flagVars,
       workVars, TypeOK, Lifecycle, References, Subscribing, Holders
  <1>4. Sending'
    BY ThreadsAssumption DEF IInv, Take, threadVars, lifeVars, flagVars,
       workVars, TypeOK, Lifecycle, Sending
  <1>5. WorkerBudget'
    BY DEF IInv, Take, threadVars, lifeVars, flagVars, workVars, TypeOK,
       CountersOK, Lifecycle, Sending, WorkerBudget, Workers, Dispatches,
       Count
  <1>6. SampleFlow'
    BY DEF IInv, Take, threadVars, lifeVars, flagVars, workVars, TypeOK,
       Lifecycle, SampleFlow
  <1>7. QED
    BY <1>1, <1>2, <1>3, <1>4, <1>5, <1>6 DEF IInv

\* The invariant is preserved when a callback returns.
LEMMA CallbackReturnsInv ==
  ASSUME IInv, CallbackReturns
  PROVE  IInv'
  <1>0. CountersOK'
    BY MaxUnsubscribesAssumption DEF IInv, CallbackReturns, threadVars,
       lifeVars, flagVars, workVars, dataVars, TypeOK, CountersOK
  <1>1. TypeOK'
    BY <1>0, ThreadsAssumption DEF IInv, CallbackReturns, threadVars,
       lifeVars, flagVars, workVars, dataVars, TypeOK, LoopStates, Faults,
       Holders
  <1>2. Lifecycle'
    BY ThreadsAssumption DEF IInv, CallbackReturns, threadVars, lifeVars,
       flagVars, workVars, dataVars, TypeOK, Lifecycle, References
  <1>3. References'
    BY ThreadsAssumption DEF IInv, CallbackReturns, threadVars, lifeVars,
       flagVars, workVars, dataVars, TypeOK, Lifecycle, References,
       Subscribing, Holders
  <1>4. Sending'
    BY ThreadsAssumption DEF IInv, CallbackReturns, threadVars, lifeVars,
       flagVars, workVars, dataVars, TypeOK, Lifecycle, Sending
  <1>5. WorkerBudget'
    BY DEF IInv, CallbackReturns, threadVars, lifeVars, flagVars, workVars,
       dataVars, TypeOK, CountersOK, Lifecycle, Sending, WorkerBudget,
       Workers, Dispatches, Count
  <1>6. SampleFlow'
    BY DEF IInv, CallbackReturns, threadVars, lifeVars, flagVars, workVars,
       dataVars, TypeOK, Lifecycle, SampleFlow
  <1>7. QED
    BY <1>1, <1>2, <1>3, <1>4, <1>5, <1>6 DEF IInv

\* The invariant is preserved when push_back throws.
LEMMA TakeThrowsInv ==
  ASSUME IInv, TakeThrows
  PROVE  IInv'
  <1>0. CountersOK'
    BY MaxUnsubscribesAssumption DEF IInv, TakeThrows, threadVars, lifeVars,
       flagVars, workVars, TypeOK, CountersOK
  <1>1. TypeOK'
    BY <1>0, ThreadsAssumption DEF IInv, TakeThrows, threadVars, lifeVars,
       flagVars, workVars, TypeOK, LoopStates, Faults, Holders
  <1>2. Lifecycle'
    BY ThreadsAssumption DEF IInv, TakeThrows, threadVars, lifeVars,
       flagVars, workVars, TypeOK, Lifecycle, References
  <1>3. References'
    BY ThreadsAssumption DEF IInv, TakeThrows, threadVars, lifeVars,
       flagVars, workVars, TypeOK, Lifecycle, References, Subscribing,
       Holders
  <1>4. Sending'
    BY ThreadsAssumption DEF IInv, TakeThrows, threadVars, lifeVars,
       flagVars, workVars, TypeOK, Lifecycle, Sending
  <1>5. WorkerBudget'
    BY DEF IInv, TakeThrows, threadVars, lifeVars, flagVars, workVars,
       TypeOK, CountersOK, Lifecycle, Sending, WorkerBudget, Workers,
       Dispatches, Count
  <1>6. SampleFlow'
    BY DEF IInv, TakeThrows, threadVars, lifeVars, flagVars, workVars,
       TypeOK, Lifecycle, SampleFlow
  <1>7. QED
    BY <1>1, <1>2, <1>3, <1>4, <1>5, <1>6 DEF IInv

\* The invariant is preserved when async() ends.
LEMMA AsyncEndsInv ==
  ASSUME IInv, AsyncEnds
  PROVE  IInv'
  <1>0. CountersOK'
    BY MaxUnsubscribesAssumption DEF IInv, AsyncEnds, NeedsWorker,
       threadVars, lifeVars, dataVars, TypeOK, CountersOK
  <1>1. TypeOK'
    BY <1>0, ThreadsAssumption DEF IInv, AsyncEnds, NeedsWorker, threadVars,
       lifeVars, dataVars, TypeOK, LoopStates, Faults, Holders
  <1>2. Lifecycle'
    BY ThreadsAssumption DEF IInv, AsyncEnds, NeedsWorker, threadVars,
       lifeVars, dataVars, TypeOK, Lifecycle, References
  <1>3. References'
    BY ThreadsAssumption DEF IInv, AsyncEnds, NeedsWorker, threadVars,
       lifeVars, dataVars, TypeOK, Lifecycle, References, Subscribing,
       Holders
  <1>4. Sending'
    BY ThreadsAssumption DEF IInv, AsyncEnds, NeedsWorker, threadVars,
       lifeVars, dataVars, TypeOK, Lifecycle, Sending
  <1>5. WorkerBudget'
    BY DEF IInv, AsyncEnds, NeedsWorker, threadVars, lifeVars, dataVars,
       TypeOK, CountersOK, Lifecycle, Sending, WorkerBudget, Workers,
       Dispatches, Count
  <1>6. SampleFlow'
    BY DEF IInv, AsyncEnds, NeedsWorker, threadVars, lifeVars, dataVars,
       TypeOK, Lifecycle, SampleFlow
  <1>7. QED
    BY <1>1, <1>2, <1>3, <1>4, <1>5, <1>6 DEF IInv

\* The invariant is preserved when the DDS entities are deleted.
LEMMA DetachInv ==
  ASSUME IInv, Detach
  PROVE  IInv'
  <1>0. CountersOK'
    BY MaxUnsubscribesAssumption DEF IInv, Detach, threadVars, flagVars,
       workVars, TypeOK, CountersOK
  <1>1. TypeOK'
    BY <1>0, ThreadsAssumption DEF IInv, Detach, threadVars, flagVars,
       workVars, TypeOK, LoopStates, Faults, Holders
  <1>2. Lifecycle'
    BY ThreadsAssumption DEF IInv, Detach, threadVars, flagVars, workVars,
       TypeOK, Lifecycle, References
  <1>3. References'
    BY ThreadsAssumption DEF IInv, Detach, threadVars, flagVars, workVars,
       TypeOK, Lifecycle, References, Subscribing, Holders
  <1>4. Sending'
    BY ThreadsAssumption DEF IInv, Detach, threadVars, flagVars, workVars,
       TypeOK, Lifecycle, Sending
  <1>5. WorkerBudget'
    BY DEF IInv, Detach, threadVars, flagVars, workVars, TypeOK, CountersOK,
       Lifecycle, Sending, WorkerBudget, Workers, Dispatches, Count
  <1>6. SampleFlow'
    BY DEF IInv, Detach, threadVars, flagVars, workVars, TypeOK, Lifecycle,
       SampleFlow
  <1>7. QED
    BY <1>1, <1>2, <1>3, <1>4, <1>5, <1>6 DEF IInv

\* The invariant is preserved when a worker is called back.
LEMMA HandleOKCallbackInv ==
  ASSUME IInv, HandleOKCallback
  PROVE  IInv'
  <1>0. CountersOK'
    <2>1. /\ ready > 0 /\ ready' = ready - 1 /\ handled' = handled + 1
          /\ queued' = queued /\ calls' = calls
      BY DEF HandleOKCallback
    <2>2. QED
      BY <2>1 DEF IInv, TypeOK, CountersOK
  <1>1. TypeOK'
    BY <1>0, ThreadsAssumption DEF IInv, HandleOKCallback, UnsubscribeNowI,
       AddRef, threadVars, lifeVars, dataVars, TypeOK, LoopStates, Faults,
       Holders
  <1>2. Lifecycle'
    BY ThreadsAssumption DEF IInv, HandleOKCallback, UnsubscribeNowI,
       AddRef, threadVars, lifeVars, dataVars, TypeOK, Lifecycle, References
  <1>3. References'
    BY ThreadsAssumption DEF IInv, HandleOKCallback, UnsubscribeNowI,
       AddRef, threadVars, lifeVars, dataVars, TypeOK, Lifecycle,
       References, Subscribing, Holders
  <1>4. Sending'
    BY ThreadsAssumption DEF IInv, HandleOKCallback, UnsubscribeNowI,
       AddRef, threadVars, lifeVars, dataVars, TypeOK, Lifecycle, Sending
  <1>5. WorkerBudget'
    <2>1. /\ ready' = ready - 1 /\ handled' = handled + 1 /\ queued' = queued
          /\ unsubscribing' = unsubscribing /\ pending' = pending
          /\ receiving_samples' = receiving_samples
      BY DEF HandleOKCallback
    <2>2. Workers' = Workers /\ Dispatches' = Dispatches
      BY <2>1 DEF IInv, TypeOK, CountersOK, Workers, Dispatches, Count
    <2>3. QED
      BY <2>1, <2>2 DEF IInv, WorkerBudget
  <1>6. SampleFlow'
    BY DEF IInv, HandleOKCallback, UnsubscribeNowI, AddRef, threadVars,
       lifeVars, dataVars, TypeOK, Lifecycle, SampleFlow
  <1>7. QED
    BY <1>1, <1>2, <1>3, <1>4, <1>5, <1>6 DEF IInv

\* The invariant is preserved when the handle is closed.
LEMMA CloseCbInv ==
  ASSUME IInv, CloseCb
  PROVE  IInv'
  <1>0. CountersOK'
    BY MaxUnsubscribesAssumption DEF IInv, CloseCb, threadVars, flagVars,
       workVars, dataVars, TypeOK, CountersOK
  <1>1. TypeOK'
    BY <1>0, ThreadsAssumption DEF IInv, CloseCb, threadVars, flagVars,
       workVars, dataVars, TypeOK, LoopStates, Faults, Holders
  <1>2. Lifecycle'
    BY ThreadsAssumption DEF IInv, CloseCb, threadVars, flagVars, workVars,
       dataVars, TypeOK, Lifecycle, References
  <1>3. References'
    BY ThreadsAssumption DEF IInv, CloseCb, threadVars, flagVars, workVars,
       dataVars, TypeOK, Lifecycle, References, Subscribing, Holders
  <1>4. Sending'
    BY ThreadsAssumption DEF IInv, CloseCb, threadVars, flagVars, workVars,
       dataVars, TypeOK, Lifecycle, Sending
  <1>5. WorkerBudget'
    BY DEF IInv, CloseCb, threadVars, flagVars, workVars, dataVars, TypeOK,
       CountersOK, Lifecycle, Sending, WorkerBudget, Workers, Dispatches,
       Count
  <1>6. SampleFlow'
    BY DEF IInv, CloseCb, threadVars, flagVars, workVars, dataVars, TypeOK,
       Lifecycle, SampleFlow
  <1>7. QED
    BY <1>1, <1>2, <1>3, <1>4, <1>5, <1>6 DEF IInv

\* What unsubscribe() leaves alone in all its cases.
LEMMA UnsubscribeFrame ==
  ASSUME IInv, Unsubscribe
  PROVE  /\ loop \in {"idle", "callback"}
         /\ UNCHANGED <<threadVars, pending, receiving_samples, workVars, dataVars>>
         /\ CountersOK'
         /\ WorkerBudget'
  <1>1. loop \in {"idle", "callback"}
    BY DEF Unsubscribe
  <1>2. UNCHANGED <<threadVars, pending, receiving_samples, workVars, dataVars>>
    BY DEF Unsubscribe
  <1>3. CountersOK'
    <2>1. calls < MaxUnsubscribes /\ calls' = calls + 1
      BY DEF Unsubscribe
    <2>2. QED
      BY <1>2, <2>1, MaxUnsubscribesAssumption
      DEF IInv, TypeOK, CountersOK, workVars
  <1>4. WorkerBudget'
    <2>1. Workers' = Workers /\ Dispatches' = Dispatches
      BY <1>2 DEF Workers, Dispatches, Count, workVars
    <2>2. Dispatches \in 0..2
      BY DEF Dispatches, Count
    <2>3. CASE unsubscribing' = unsubscribing
      BY <2>1, <2>3 DEF IInv, WorkerBudget
    <2>4. CASE unsubscribing' = TRUE /\ ~unsubscribing
      BY <2>1, <2>2, <2>4 DEF IInv, WorkerBudget
    <2>5. QED
      BY <2>3, <2>4 DEF Unsubscribe, IInv, TypeOK
  <1>5. QED
    BY <1>1, <1>2, <1>3, <1>4

\* The invariant is preserved when the program unsubscribes.
LEMMA UnsubscribeInv ==
  ASSUME IInv, Unsubscribe
  PROVE  IInv'
  <1>1. /\ loop \in {"idle", "callback"}
        /\ UNCHANGED <<dds, mutex, pending, receiving_samples, arrived, cache,
                       batch, delivered, skipped, lost>>
        /\ CountersOK'
        /\ WorkerBudget'
    BY UnsubscribeFrame DEF threadVars, dataVars
  <1>2. CASE ~js_dr
    <2>1. /\ loop' = "fault in unsubscribe"
          /\ UNCHANGED <<refs, handle, reader, js_dr, unsubscribing,
                         unsubscribed>>
      BY <1>2 DEF Unsubscribe, lifeVars
    <2>2. TypeOK'
      BY <1>1, <2>1 DEF IInv, TypeOK, LoopStates, Faults, Holders
    <2>3. Lifecycle'
      BY <1>1, <1>2, <2>1 DEF IInv, TypeOK, Lifecycle
    <2>4. References'
      BY <1>1, <1>2, <2>1, ThreadsAssumption
      DEF IInv, TypeOK, Lifecycle, References, Subscribing, Holders
    <2>5. Sending'
      BY <1>1, <2>1, ThreadsAssumption DEF IInv, TypeOK, Sending
    <2>6. SampleFlow'
      <3>1. batch = {}
        BY <1>1, <1>2, <2>1 DEF IInv, TypeOK, Lifecycle, SampleFlow
      <3>2. QED
        BY <1>1, <2>1, <3>1 DEF IInv, SampleFlow
    <2>7. QED
      BY <1>1, <2>2, <2>3, <2>4, <2>5, <2>6 DEF IInv
  <1>3. CASE js_dr /\ Defers
    <2>1. /\ loop' = loop /\ receiving_samples
          /\ mutex = "free" /\ unsubscribing' = TRUE
          /\ UNCHANGED <<refs, handle, reader, js_dr, unsubscribed>>
      BY <1>3 DEF Unsubscribe, Defers, lifeVars
    <2>2. TypeOK'
      BY <1>1, <2>1 DEF IInv, TypeOK, LoopStates, Faults, Holders
    <2>3. Lifecycle'
      BY <1>1, <1>3, <2>1 DEF IInv, TypeOK, Lifecycle
    <2>4. References'
      BY <1>1, <1>3, <2>1, ThreadsAssumption
      DEF IInv, TypeOK, Lifecycle, References, Subscribing, Holders
    <2>5. Sending'
      BY <1>1, <2>1, ThreadsAssumption DEF IInv, TypeOK, Sending
    <2>6. SampleFlow'
      BY <1>1, <2>1 DEF IInv, TypeOK, Lifecycle, SampleFlow
    <2>7. QED
      BY <1>1, <2>2, <2>3, <2>4, <2>5, <2>6 DEF IInv
  <1>4. CASE js_dr /\ ~Defers
    <2>1. /\ loop' = "detaching" /\ ~receiving_samples
          /\ js_dr' = FALSE /\ handle' = "closing" /\ unsubscribed' = TRUE
          /\ refs' = refs \cup {"close", "caller"}
          /\ UNCHANGED <<reader, unsubscribing>>
      BY <1>4 DEF Unsubscribe, Defers, UnsubscribeNowI, AddRef,
         IInv, Lifecycle
    <2>2. TypeOK'
      BY <1>1, <2>1 DEF IInv, TypeOK, LoopStates, Faults, Holders
    <2>3. Lifecycle'
      BY <1>1, <1>4, <2>1 DEF IInv, TypeOK, Lifecycle
    <2>4. References'
      BY <1>1, <1>4, <2>1, ThreadsAssumption
      DEF IInv, TypeOK, Lifecycle, References, Subscribing, Holders
    <2>5. Sending'
      BY <1>1, <2>1, ThreadsAssumption DEF IInv, TypeOK, Sending
    <2>6. SampleFlow'
      <3>1. batch = {}
        BY <1>1, <1>4, <2>1 DEF IInv, TypeOK, Lifecycle, SampleFlow
      <3>2. QED
        BY <1>1, <2>1, <3>1 DEF IInv, SampleFlow
    <2>7. QED
      BY <1>1, <2>2, <2>3, <2>4, <2>5, <2>6 DEF IInv
  <1>5. QED
    BY <1>2, <1>3, <1>4 DEF Unsubscribe

\* The invariant is preserved when the pool runs a worker.
LEMMA ExecuteWorkerInv ==
  ASSUME IInv, ExecuteWorker
  PROVE  IInv'
  <1>0. CountersOK'
    BY MaxUnsubscribesAssumption DEF IInv, ExecuteWorker, threadVars,
       lifeVars, flagVars, dataVars, TypeOK, CountersOK
  <1>1. TypeOK'
    BY <1>0, ThreadsAssumption DEF IInv, ExecuteWorker, threadVars,
       lifeVars, flagVars, dataVars, TypeOK, LoopStates, Faults, Holders
  <1>2. Lifecycle'
    BY ThreadsAssumption DEF IInv, ExecuteWorker, threadVars, lifeVars,
       flagVars, dataVars, TypeOK, Lifecycle, References
  <1>3. References'
    BY ThreadsAssumption DEF IInv, ExecuteWorker, threadVars, lifeVars,
       flagVars, dataVars, TypeOK, Lifecycle, References, Subscribing,
       Holders
  <1>4. Sending'
    BY ThreadsAssumption DEF IInv, ExecuteWorker, threadVars, lifeVars,
       flagVars, dataVars, TypeOK, Lifecycle, Sending
  <1>5. WorkerBudget'
    <2>1. /\ ready' = ready + 1 /\ queued' = queued - 1 /\ handled' = handled
          /\ unsubscribing' = unsubscribing /\ pending' = pending
          /\ receiving_samples' = receiving_samples
      BY DEF ExecuteWorker, flagVars
    <2>2. Workers' = Workers /\ Dispatches' = Dispatches
      BY <2>1 DEF IInv, TypeOK, CountersOK, Workers, Dispatches, Count
    <2>3. QED
      BY <2>1, <2>2 DEF IInv, WorkerBudget
  <1>6. SampleFlow'
    BY DEF IInv, ExecuteWorker, threadVars, lifeVars, flagVars, dataVars,
       TypeOK, Lifecycle, SampleFlow
  <1>7. QED
    BY <1>1, <1>2, <1>3, <1>4, <1>5, <1>6 DEF IInv

\* The invariant is preserved when push_back handles a sample.
LEMMA PushBackInv ==
  ASSUME IInv, NEW s \in Samples, PushBack(s)
  PROVE  IInv'
  <1>0. CountersOK'
    BY MaxUnsubscribesAssumption DEF IInv, PushBack, SkipsSample,
       threadVars, lifeVars, flagVars, workVars, TypeOK, CountersOK
  <1>1. TypeOK'
    BY <1>0, ThreadsAssumption DEF IInv, PushBack, SkipsSample, threadVars,
       lifeVars, flagVars, workVars, TypeOK, LoopStates, Faults, Holders
  <1>2. Lifecycle'
    BY ThreadsAssumption DEF IInv, PushBack, SkipsSample, threadVars,
       lifeVars, flagVars, workVars, TypeOK, Lifecycle, References
  <1>3. References'
    BY ThreadsAssumption DEF IInv, PushBack, SkipsSample, threadVars,
       lifeVars, flagVars, workVars, TypeOK, Lifecycle, References,
       Subscribing, Holders
  <1>4. Sending'
    BY ThreadsAssumption DEF IInv, PushBack, SkipsSample, threadVars,
       lifeVars, flagVars, workVars, TypeOK, Lifecycle, Sending
  <1>5. WorkerBudget'
    BY DEF IInv, PushBack, SkipsSample, threadVars, lifeVars, flagVars,
       workVars, TypeOK, CountersOK, Lifecycle, Sending, WorkerBudget,
       Workers, Dispatches, Count
  <1>6. SampleFlow'
    BY DEF IInv, PushBack, SkipsSample, threadVars, lifeVars, flagVars,
       workVars, TypeOK, Lifecycle, SampleFlow
  <1>7. QED
    BY <1>1, <1>2, <1>3, <1>4, <1>5, <1>6 DEF IInv

\* The invariant is preserved when a DDS thread enters on_data_available.
LEMMA OnDataAvailableInv ==
  ASSUME IInv, NEW t \in Threads, OnDataAvailable(t)
  PROVE  IInv'
  <1>0. CountersOK'
    BY MaxUnsubscribesAssumption DEF IInv, OnDataAvailable, WakesLoop,
       lifeVars, flagVars, workVars, dataVars, TypeOK, CountersOK
  <1>1. TypeOK'
    BY <1>0, ThreadsAssumption DEF IInv, OnDataAvailable, WakesLoop,
       lifeVars, flagVars, workVars, dataVars, TypeOK, LoopStates, Faults,
       Holders
  <1>2. Lifecycle'
    BY ThreadsAssumption DEF IInv, OnDataAvailable, WakesLoop, lifeVars,
       flagVars, workVars, dataVars, TypeOK, Lifecycle, References
  <1>3. References'
    BY ThreadsAssumption DEF IInv, OnDataAvailable, WakesLoop, lifeVars,
       flagVars, workVars, dataVars, TypeOK, Lifecycle, References,
       Subscribing, Holders
  <1>4. Sending'
    BY ThreadsAssumption DEF IInv, OnDataAvailable, WakesLoop, lifeVars,
       flagVars, workVars, dataVars, TypeOK, Lifecycle, Sending
  <1>5. WorkerBudget'
    BY DEF IInv, OnDataAvailable, WakesLoop, lifeVars, flagVars, workVars,
       dataVars, TypeOK, CountersOK, Lifecycle, Sending, WorkerBudget,
       Workers, Dispatches, Count
  <1>6. SampleFlow'
    BY DEF IInv, OnDataAvailable, WakesLoop, lifeVars, flagVars, workVars,
       dataVars, TypeOK, Lifecycle, SampleFlow
  <1>7. QED
    BY <1>1, <1>2, <1>3, <1>4, <1>5, <1>6 DEF IInv

\* The invariant is preserved when a DDS thread wakes the loop.
LEMMA AsyncSendInv ==
  ASSUME IInv, NEW t \in Threads, AsyncSend(t)
  PROVE  IInv'
  <1>0. CountersOK'
    BY MaxUnsubscribesAssumption DEF IInv, AsyncSend, lifeVars, flagVars,
       workVars, dataVars, TypeOK, CountersOK
  <1>1. TypeOK'
    BY <1>0, ThreadsAssumption DEF IInv, AsyncSend, lifeVars, flagVars,
       workVars, dataVars, TypeOK, LoopStates, Faults, Holders
  <1>2. Lifecycle'
    BY ThreadsAssumption DEF IInv, AsyncSend, lifeVars, flagVars, workVars,
       dataVars, TypeOK, Lifecycle, References
  <1>3. References'
    BY ThreadsAssumption DEF IInv, AsyncSend, lifeVars, flagVars, workVars,
       dataVars, TypeOK, Lifecycle, References, Subscribing, Holders
  <1>4. Sending'
    BY ThreadsAssumption DEF IInv, AsyncSend, lifeVars, flagVars, workVars,
       dataVars, TypeOK, Lifecycle, Sending
  <1>5. WorkerBudget'
    BY DEF IInv, AsyncSend, lifeVars, flagVars, workVars, dataVars, TypeOK,
       CountersOK, Lifecycle, Sending, WorkerBudget, Workers, Dispatches,
       Count
  <1>6. SampleFlow'
    BY DEF IInv, AsyncSend, lifeVars, flagVars, workVars, dataVars, TypeOK,
       Lifecycle, SampleFlow
  <1>7. QED
    BY <1>1, <1>2, <1>3, <1>4, <1>5, <1>6 DEF IInv

\* The invariant is preserved when a DDS thread leaves the listener.
LEMMA ListenerReturnsInv ==
  ASSUME IInv, NEW t \in Threads, ListenerReturns(t)
  PROVE  IInv'
  <1>0. CountersOK'
    BY MaxUnsubscribesAssumption DEF IInv, ListenerReturns, flagVars,
       workVars, dataVars, TypeOK, CountersOK
  <1>1. TypeOK'
    BY <1>0, ThreadsAssumption DEF IInv, ListenerReturns, flagVars,
       workVars, dataVars, TypeOK, LoopStates, Faults, Holders
  <1>2. Lifecycle'
    BY ThreadsAssumption DEF IInv, ListenerReturns, flagVars, workVars,
       dataVars, TypeOK, Lifecycle, References
  <1>3. References'
    BY ThreadsAssumption DEF IInv, ListenerReturns, flagVars, workVars,
       dataVars, TypeOK, Lifecycle, References, Subscribing, Holders
  <1>4. Sending'
    BY ThreadsAssumption DEF IInv, ListenerReturns, flagVars, workVars,
       dataVars, TypeOK, Lifecycle, Sending
  <1>5. WorkerBudget'
    BY DEF IInv, ListenerReturns, flagVars, workVars, dataVars, TypeOK,
       CountersOK, Lifecycle, Sending, WorkerBudget, Workers, Dispatches,
       Count
  <1>6. SampleFlow'
    BY DEF IInv, ListenerReturns, flagVars, workVars, dataVars, TypeOK,
       Lifecycle, SampleFlow
  <1>7. QED
    BY <1>1, <1>2, <1>3, <1>4, <1>5, <1>6 DEF IInv

\* The invariant is preserved when a sample arrives.
LEMMA ArriveInv ==
  ASSUME IInv, NEW t \in Threads, NEW s \in Samples, Arrive(t, s)
  PROVE  IInv'
  <1>0. CountersOK'
    BY MaxUnsubscribesAssumption DEF IInv, Arrive, flagVars, workVars,
       TypeOK, CountersOK
  <1>1. TypeOK'
    BY <1>0, ThreadsAssumption DEF IInv, Arrive, flagVars, workVars, TypeOK,
       LoopStates, Faults, Holders
  <1>2. Lifecycle'
    BY ThreadsAssumption DEF IInv, Arrive, flagVars, workVars, TypeOK,
       Lifecycle, References
  <1>3. References'
    BY ThreadsAssumption DEF IInv, Arrive, flagVars, workVars, TypeOK,
       Lifecycle, References, Subscribing, Holders
  <1>4. Sending'
    BY ThreadsAssumption DEF IInv, Arrive, flagVars, workVars, TypeOK,
       Lifecycle, Sending
  <1>5. WorkerBudget'
    BY DEF IInv, Arrive, flagVars, workVars, TypeOK, CountersOK, Lifecycle,
       Sending, WorkerBudget, Workers, Dispatches, Count
  <1>6. SampleFlow'
    BY DEF IInv, Arrive, flagVars, workVars, TypeOK, Lifecycle, SampleFlow
  <1>7. QED
    BY <1>1, <1>2, <1>3, <1>4, <1>5, <1>6 DEF IInv

\* Every step preserves the invariant.
LEMMA StepInv ==
  ASSUME IInv, [Next]_vars
  PROVE  IInv'
  <1>1. CASE LoopRuns
    BY <1>1, CreateReaderInv, SubscribeFailsInv, SetJavascriptDatareaderInv,
       TakeInv, PushBackInv, CallbackReturnsInv, TakeThrowsInv, AsyncEndsInv,
       DetachInv
    DEF LoopRuns
  <1>2. CASE Dispatch
    BY <1>2, AsyncInv, HandleOKCallbackInv, CloseCbInv DEF Dispatch
  <1>3. CASE Unsubscribe
    BY <1>3, UnsubscribeInv
  <1>4. CASE ExecuteWorker
    BY <1>4, ExecuteWorkerInv
  <1>5. ASSUME NEW t \in Threads, Listening(t) PROVE IInv'
    BY <1>5, OnDataAvailableInv, AsyncSendInv, ListenerReturnsInv
    DEF Listening
  <1>6. ASSUME NEW t \in Threads, NEW s \in Samples, Arrive(t, s) PROVE IInv'
    BY <1>6, ArriveInv
  <1>7. CASE UNCHANGED vars
    <2>1. TypeOK'
      BY <1>7 DEF IInv, TypeOK, CountersOK, vars, threadVars, lifeVars,
         flagVars, workVars, dataVars
    <2>2. Lifecycle' /\ References' /\ Sending' /\ SampleFlow'
      BY <1>7 DEF IInv, Lifecycle, References, Subscribing, Sending,
         SampleFlow, vars, threadVars, lifeVars, flagVars, workVars, dataVars
    <2>3. WorkerBudget'
      BY <1>7 DEF IInv, WorkerBudget, Workers, Dispatches, vars, flagVars,
         workVars
    <2>4. QED
      BY <2>1, <2>2, <2>3 DEF IInv
  <1>8. QED
    BY <1>1, <1>2, <1>3, <1>4, <1>5, <1>6, <1>7 DEF Next, Rest

\* The invariant holds throughout every execution.
THEOREM Invariance == SafeSpec => []IInv
  <1>1. Init => IInv
    BY InitInv
  <1>2. IInv /\ [Next]_vars => IInv'
    BY StepInv
  <1>3. QED
    BY <1>1, <1>2, PTL DEF SafeSpec

-----------------------------------------------------------------------------
(* What it implies.                                                        *)

\* Every variable keeps its type.
THEOREM TypeCorrect == SafeSpec => []TypeOK
  <1>1. IInv => TypeOK
    BY DEF IInv
  <1>2. QED
    BY <1>1, Invariance, PTL

\* async() never runs on a freed listener or a reader already given up.
THEOREM AsyncIsSafe == SafeSpec => []AsyncSafe
  <1>1. IInv => AsyncSafe
    BY DEF IInv, Lifecycle, AsyncSafe
  <1>2. QED
    BY <1>1, Invariance, PTL

\* Whatever the callbacks do, the reader, its field, the handle and the
\* listener outlive the take() that makes those callbacks.
THEOREM TakeIsProtected == SafeSpec => []TakeProtected
  <1>1. IInv => TakeProtected
    BY DEF IInv, TypeOK, Lifecycle, References, TakeProtected
  <1>2. QED
    BY <1>1, Invariance, PTL

\* However many samples and threads there are, at most two workers are ever
\* made for a subscription.
THEOREM WorkersAreBounded == SafeSpec => []WorkersBounded
  <1>1. ASSUME IInv PROVE WorkersBounded
    <2>1. Workers \in Nat /\ Dispatches \in Nat
      BY <1>1 DEF IInv, TypeOK, CountersOK, Workers, Dispatches, Count
    <2>2. Workers <= 2
      BY <1>1, <2>1 DEF IInv, WorkerBudget
    <2>3. QED
      BY <2>2 DEF Workers, WorkersBounded
  <1>2. QED
    BY <1>1, Invariance, PTL

\* A listener with a reader lives as long as libuv knows its handle.
THEOREM HandleKeepsTheListener == SafeSpec => []HandleKeepsListener
  <1>1. IInv => HandleKeepsListener
    BY DEF IInv, TypeOK, Lifecycle, References, Subscribing,
       HandleKeepsListener
  <1>2. QED
    BY <1>1, Invariance, PTL

\* Nothing but a thread still in on_data_available keeps a listener whose
\* handle is closed.
THEOREM NothingLeaks == SafeSpec => []NoLeak
  <1>1. IInv => NoLeak
    BY DEF IInv, TypeOK, Lifecycle, References, Subscribing, Holders, NoLeak
  <1>2. QED
    BY <1>1, Invariance, PTL

-----------------------------------------------------------------------------
(* What a step may do.                                                     *)

\* Only push_back delivers: every other step leaves delivered alone.
LEMMA OnlyPushBackDelivers ==
  ASSUME [Next]_vars, delivered' # delivered
  PROVE  \E s \in Samples : PushBack(s) /\ ~unsubscribing
  <1>1. CASE LoopRuns
    BY <1>1 DEF LoopRuns, CreateReader, SubscribeFails,
       SetJavascriptDatareader, Take, PushBack, SkipsSample, CallbackReturns,
       TakeThrows, AsyncEnds, Detach, dataVars
  <1>2. CASE Dispatch \/ Unsubscribe \/ ExecuteWorker
    BY <1>2 DEF Dispatch, Async, HandleOKCallback, CloseCb, Unsubscribe,
       ExecuteWorker, dataVars
  <1>3. CASE \E t \in Threads : Listening(t)
    BY <1>3 DEF Listening, OnDataAvailable, AsyncSend, ListenerReturns,
       dataVars
  <1>4. CASE \E t \in Threads, s \in Samples : Arrive(t, s)
    BY <1>4 DEF Arrive
  <1>5. CASE UNCHANGED vars
    BY <1>5 DEF vars, dataVars
  <1>6. QED
    BY <1>1, <1>2, <1>3, <1>4, <1>5 DEF Next, Rest

\* Conservation, written out.
Partition ==
    /\ arrived = cache \cup batch \cup delivered \cup skipped \cup lost
    /\ cache \cap batch = {} /\ cache \cap delivered = {}
    /\ cache \cap skipped = {} /\ cache \cap lost = {}
    /\ batch \cap delivered = {} /\ batch \cap skipped = {}
    /\ batch \cap lost = {} /\ delivered \cap skipped = {}
    /\ delivered \cap lost = {} /\ skipped \cap lost = {}
    /\ skipped # {} => unsubscribing

LEMMA PartitionIsConservation == Partition => Conservation
  <1> SUFFICES ASSUME Partition PROVE Conservation
    OBVIOUS
  <1>1. /\ DOMAIN Places = 1..5
        /\ Places[1] = cache /\ Places[2] = batch /\ Places[3] = delivered
        /\ Places[4] = skipped /\ Places[5] = lost
    BY DEF Places
  <1>2. arrived = UNION {Places[i] : i \in DOMAIN Places}
    <2>1. \A s : s \in UNION {Places[i] : i \in DOMAIN Places} <=>
                     \E i \in 1..5 : s \in Places[i]
      BY <1>1
    <2>2. \A s : (\E i \in 1..5 : s \in Places[i]) <=>
                     s \in cache \cup batch \cup delivered \cup skipped \cup lost
      BY <1>1
    <2> QED
      BY <2>1, <2>2 DEF Partition
  <1>3. ASSUME NEW i \in 1..5, NEW j \in 1..5, i # j
        PROVE  Places[i] \cap Places[j] = {}
    <2>1. i \in {1, 2, 3, 4, 5} /\ j \in {1, 2, 3, 4, 5}
      OBVIOUS
    <2> QED
      BY <1>1, <1>3, <2>1 DEF Partition
  <1> QED
    BY <1>1, <1>2, <1>3 DEF Conservation, Partition

\* Samples only ever move from one place to another.
LEMMA PartitionInv == IInv /\ Partition /\ [Next]_vars => Partition'
  <1> SUFFICES ASSUME IInv, Partition, [Next]_vars PROVE Partition'
    OBVIOUS
  <1>1. CASE Take
    <2>1. batch = {}
      BY <1>1 DEF Take, IInv, SampleFlow
    <2> QED
      BY <1>1, <2>1 DEF Take, Partition, flagVars
  <1>2. ASSUME NEW s \in Samples, PushBack(s) PROVE Partition'
    BY <1>2 DEF PushBack, SkipsSample, Partition, flagVars
  <1>3. CASE TakeThrows
    BY <1>3 DEF TakeThrows, Partition, flagVars
  <1>4. CASE Detach
    BY <1>4 DEF Detach, Partition, flagVars
  <1>5. ASSUME NEW t \in Threads, NEW s \in Samples, Arrive(t, s)
        PROVE  Partition'
    BY <1>5 DEF Arrive, Partition, flagVars
  <1>6. ASSUME UNCHANGED dataVars, unsubscribing => unsubscribing'
        PROVE  Partition'
    BY <1>6 DEF Partition, dataVars
  <1>7. CASE CreateReader \/ SubscribeFails \/ SetJavascriptDatareader
    BY <1>6, <1>7 DEF CreateReader, SubscribeFails, SetJavascriptDatareader,
                      flagVars
  <1>8. CASE CallbackReturns \/ AsyncEnds \/ Async
    BY <1>6, <1>8 DEF CallbackReturns, AsyncEnds, Async, flagVars
  <1>9. CASE HandleOKCallback \/ CloseCb
    BY <1>6, <1>9 DEF HandleOKCallback, CloseCb, flagVars
  <1>10. CASE Unsubscribe
    <2>1. /\ UNCHANGED dataVars
          /\ unsubscribing' = TRUE \/ UNCHANGED unsubscribing
      BY <1>10, Zenon DEF Unsubscribe
    <2> QED
      BY <1>6, <2>1
  <1>11. CASE ExecuteWorker
    BY <1>6, <1>11 DEF ExecuteWorker, flagVars
  <1>12. CASE \E t \in Threads : Listening(t)
    BY <1>6, <1>12 DEF Listening, OnDataAvailable, AsyncSend, ListenerReturns,
                       flagVars
  <1>13. CASE UNCHANGED vars
    BY <1>6, <1>13 DEF vars, flagVars
  <1> QED
    BY <1>1, <1>2, <1>3, <1>4, <1>5, <1>7, <1>8, <1>9, <1>10, <1>11, <1>12,
       <1>13 DEF Next, LoopRuns, Dispatch, Rest

\* No sample is lost, doubled or ignored too early on its way from the reader
\* to the callback, whatever threads, callbacks and exceptions do.
THEOREM SamplesAreConserved == SafeSpec => []Conservation
  <1>1. Init => Partition
    BY DEF Init, Partition
  <1>2. Partition => Conservation
    BY PartitionIsConservation
  <1> QED
    BY <1>1, <1>2, PartitionInv, Invariance, PTL DEF SafeSpec

\* The callback is never entered after unsubscribe() has been called.
THEOREM NothingAfterUnsubscribe == SafeSpec => NoDeliveryAfterUnsubscribe
  <1>1. ASSUME IInv, [Next]_vars
        PROVE  [delivered' # delivered => ~unsubscribing /\ ~unsubscribed]_vars
    <2>1. ASSUME NEW s \in Samples, PushBack(s) PROVE ~unsubscribed
      BY <1>1, <2>1 DEF IInv, TypeOK, Lifecycle, PushBack
    <2>2. QED
      BY <1>1, <2>1, OnlyPushBackDelivers
  <1>2. QED
    BY <1>1, Invariance, PTL DEF SafeSpec, NoDeliveryAfterUnsubscribe

-----------------------------------------------------------------------------
(* NodeDRListener implements Subscription.                                 *)

\* Steps that Subscription does not see.
LEMMA HiddenStep ==
  ASSUME phaseBar' = phaseBar, UNCHANGED <<arrived, cache, batch, delivered>>
  PROVE  UNCHANGED Promise!vars
  BY DEF Promise!vars

\* The abstract phase, read off the variables it is made of.
LEMMA PhaseIs ==
  ASSUME IInv
  PROVE  /\ loop = "subscribing" => phaseBar = "opening"
         /\ loop = "failed" => phaseBar = "failed"
         /\ loop \notin {"subscribing", "failed"} =>
                /\ ~unsubscribing /\ ~unsubscribed => phaseBar = "active"
                /\ (unsubscribing \/ unsubscribed) /\ reader =>
                       phaseBar = "stopping"
                /\ ~reader => phaseBar = "closed"
  BY DEF IInv, TypeOK, Lifecycle, phaseBar

\* The steps of the threads, of the loop and of the pool that only prepare a
\* later one.
LEMMA QuietSteps ==
  ASSUME IInv,
         \/ SetJavascriptDatareader \/ Async \/ Take \/ CallbackReturns
         \/ AsyncEnds \/ ExecuteWorker \/ CloseCb
         \/ \E t \in Threads : Listening(t)
         \/ UNCHANGED vars
  PROVE  UNCHANGED Promise!vars
  <1>1. UNCHANGED <<arrived, delivered, unsubscribing, unsubscribed, reader>>
    BY DEF SetJavascriptDatareader, Async, Take, CallbackReturns, AsyncEnds,
       ExecuteWorker, CloseCb, Listening, OnDataAvailable, AsyncSend,
       ListenerReturns, vars, dataVars, flagVars, lifeVars
  <1>2. \/ loop' = loop
        \/ {loop, loop'} \cap {"subscribing", "failed"} = {}
    BY DEF SetJavascriptDatareader, Async, Take, CallbackReturns, AsyncEnds,
       ExecuteWorker, CloseCb, Listening, OnDataAvailable, AsyncSend,
       ListenerReturns, vars
  <1>3. phaseBar' = phaseBar
    BY <1>1, <1>2 DEF phaseBar
  <1>4. (cache \cup batch)' = cache \cup batch
    <2>1. CASE Take
      BY <2>1 DEF IInv, SampleFlow, Take
    <2>2. CASE ~Take
      BY <2>2 DEF SetJavascriptDatareader, Async, CallbackReturns, AsyncEnds,
         ExecuteWorker, CloseCb, Listening, OnDataAvailable, AsyncSend,
         ListenerReturns, vars, dataVars
    <2>3. QED
      BY <2>1, <2>2
  <1>5. QED
    BY <1>1, <1>3, <1>4 DEF Promise!vars

\* Creating the reader opens the subscription, a failure fails it.
LEMMA OpenSteps ==
  ASSUME IInv, IInv', CreateReader \/ SubscribeFails
  PROVE  Promise!Open \/ Promise!Fail
  BY DEF CreateReader, SubscribeFails, IInv, Lifecycle, phaseBar, Promise!Open,
      Promise!Fail, flagVars, dataVars

\* push_back delivers its sample or gives it up; an exception gives up all.
LEMMA PushSteps ==
  ASSUME IInv, IInv', TakeThrows \/ \E s \in Samples : PushBack(s)
  PROVE  \/ \E s \in Samples : Promise!Deliver(s)
         \/ \E D \in SUBSET Samples : Promise!Discard(D)
  <1>1. phaseBar \in {"active", "stopping"} /\ phaseBar' = phaseBar
    BY PhaseIs DEF TakeThrows, PushBack, IInv, TypeOK, Lifecycle, phaseBar,
       flagVars, lifeVars
  <1>2. CASE TakeThrows
    <2>1. (cache \cup batch)' = (cache \cup batch) \ batch
      BY <1>2 DEF TakeThrows, IInv, SampleFlow
    <2>2. Promise!Discard(batch)
      BY <1>1, <1>2, <2>1 DEF TakeThrows, Promise!Discard
    <2>3. batch \in SUBSET Samples
      BY DEF IInv, TypeOK
    <2>4. QED
      BY <2>2, <2>3
  <1>3. ASSUME NEW s \in Samples, PushBack(s)
        PROVE  Promise!Deliver(s) \/ Promise!Discard({s})
    <2>1. /\ s \in cache \cup batch
          /\ (cache \cup batch)' = (cache \cup batch) \ {s}
          /\ arrived' = arrived
      BY <1>3 DEF PushBack, IInv, SampleFlow
    <2>2. CASE delivered' = delivered
      BY <1>1, <2>1, <2>2 DEF Promise!Discard
    <2>3. CASE delivered' = delivered \cup {s} /\ ~unsubscribing
      <3>1. phaseBar = "active"
        BY <1>3, <2>3, PhaseIs DEF PushBack, IInv, TypeOK, Lifecycle
      <3>2. QED
        BY <1>1, <2>1, <2>3, <3>1 DEF Promise!Deliver
    <2>4. QED
      BY <1>3, <2>2, <2>3 DEF PushBack, SkipsSample
  <1>4. ASSUME NEW s \in Samples PROVE {s} \in SUBSET Samples
    OBVIOUS
  <1>5. QED
    BY <1>2, <1>3, <1>4

\* A sample arrives.
LEMMA ArriveSteps ==
  ASSUME IInv, NEW t \in Threads, NEW s \in Samples, Arrive(t, s)
  PROVE  Promise!Arrive(s)
  <1>1. phaseBar \in {"active", "stopping"}
    BY PhaseIs DEF Arrive, IInv, TypeOK, Lifecycle
  <1>2. phaseBar' = phaseBar
    BY DEF Arrive, phaseBar, flagVars
  <1>3. (cache \cup batch)' = (cache \cup batch) \cup {s}
    BY DEF Arrive
  <1>4. QED
    BY <1>1, <1>2, <1>3 DEF Arrive, Promise!Arrive

\* The first request stops the subscription; later ones change nothing.
LEMMA StopSteps ==
  ASSUME IInv, IInv', Unsubscribe \/ HandleOKCallback
  PROVE  Promise!Stop \/ UNCHANGED Promise!vars
  <1>1. UNCHANGED <<arrived, cache, batch, delivered, reader>>
    BY DEF Unsubscribe, HandleOKCallback, UnsubscribeNowI, dataVars, lifeVars
  <1>2. {loop, loop'} \cap {"subscribing", "failed"} = {}
    BY DEF Unsubscribe, HandleOKCallback, UnsubscribeNowI
  <1>3. \/ UNCHANGED <<unsubscribing, unsubscribed>>
        \/ reader' /\ (unsubscribing' \/ unsubscribed')
    BY <1>1 DEF Unsubscribe, HandleOKCallback, UnsubscribeNowI, IInv, TypeOK,
       Lifecycle
  <1>4. CASE UNCHANGED <<unsubscribing, unsubscribed>>
    <2>1. phaseBar' = phaseBar
      BY <1>1, <1>2, <1>4 DEF phaseBar
    <2>2. QED
      BY <1>1, <2>1 DEF Promise!vars
  <1>5. CASE reader' /\ (unsubscribing' \/ unsubscribed')
    <2>1. phaseBar' = "stopping"
      BY <1>2, <1>5 DEF IInv, TypeOK, phaseBar
    <2>2. phaseBar \in {"active", "stopping"}
      BY <1>1, <1>2, <1>5, PhaseIs DEF IInv, TypeOK
    <2>3. QED
      BY <1>1, <2>1, <2>2 DEF Promise!Stop, Promise!vars
  <1>6. QED
    BY <1>3, <1>4, <1>5

\* Deleting the DDS entities closes the subscription.
LEMMA CloseSteps ==
  ASSUME IInv, IInv', Detach
  PROVE  Promise!Close
  <1>1. phaseBar = "stopping"
    BY PhaseIs DEF Detach, IInv, TypeOK, Lifecycle, References, Subscribing
  <1>2. phaseBar' = "closed"
    BY DEF Detach, IInv, TypeOK, Lifecycle, phaseBar, flagVars
  <1>3. batch = {}
    BY DEF Detach, IInv, SampleFlow
  <1>4. QED
    BY <1>1, <1>2, <1>3 DEF Detach, Promise!Close

\* The initial state and every step map to what Subscription allows.
THEOREM Implementation == SafeSpec => Promise!SafeSpec
  <1>1. Init => Promise!Init
    BY DEF Init, Promise!Init, phaseBar
  <1>2. ASSUME IInv, IInv', [Next]_vars
        PROVE  [Promise!Next]_(Promise!vars)
    <2>1. CASE LoopRuns
      BY <1>2, <2>1, OpenSteps, PushSteps, CloseSteps, QuietSteps
      DEF LoopRuns, Promise!Next
    <2>2. CASE Dispatch \/ Unsubscribe \/ ExecuteWorker
      BY <1>2, <2>2, StopSteps, QuietSteps DEF Dispatch, Promise!Next
    <2>3. CASE \E t \in Threads : Listening(t)
      BY <1>2, <2>3, QuietSteps
    <2>4. CASE \E t \in Threads, s \in Samples : Arrive(t, s)
      BY <1>2, <2>4, ArriveSteps DEF Promise!Next
    <2>5. CASE UNCHANGED vars
      BY <1>2, <2>5, QuietSteps
    <2>6. QED
      BY <1>2, <2>1, <2>2, <2>3, <2>4, <2>5 DEF Next, Rest
  <1>3. QED
    BY <1>1, <1>2, Invariance, PTL DEF SafeSpec, Promise!SafeSpec

-----------------------------------------------------------------------------
(* NodeDRListener implements ListenerLife.                                 *)

\* A deferred unsubscribe() is followed by a worker: until one is called back,
\* async() is running or a worker is under way.
Pledge ==
    unsubscribing /\ ~unsubscribed =>
        handled = 0 /\ (receiving_samples \/ queued + ready > 0)

\* The pledge is kept by every step.
LEMMA PledgeInv == IInv /\ Pledge /\ [Next]_vars => Pledge'
  <1> SUFFICES ASSUME IInv, Pledge, [Next]_vars PROVE Pledge'
    OBVIOUS
  <1>0. queued \in Nat /\ ready \in Nat /\ handled \in Nat
    BY DEF IInv, TypeOK, CountersOK
  <1>1. ASSUME UNCHANGED <<unsubscribing, unsubscribed, handled>>,
               queued' + ready' = queued + ready,
               receiving_samples => receiving_samples'
        PROVE  Pledge'
    BY <1>0, <1>1 DEF Pledge
  <1>2. CASE AsyncEnds
    <2>1. /\ UNCHANGED <<unsubscribing, unsubscribed, handled, ready>>
          /\ queued' = IF unsubscribing THEN queued + 1 ELSE queued
      BY <1>2 DEF AsyncEnds, NeedsWorker
    <2> QED
      BY <1>0, <2>1 DEF Pledge
  <1>3. CASE Unsubscribe
    <2>1. /\ UNCHANGED <<queued, ready, handled, receiving_samples>>
          /\ \/ UNCHANGED <<unsubscribing, unsubscribed>>
             \/ unsubscribing' /\ receiving_samples /\ UNCHANGED unsubscribed
             \/ unsubscribed' \/ UNCHANGED <<unsubscribing, unsubscribed>>
      BY <1>3 DEF Unsubscribe, UnsubscribeNowI, Defers, workVars
    <2>2. ~unsubscribing => handled = 0
      BY <1>0 DEF IInv, WorkerBudget, Workers
    <2> QED
      BY <2>1, <2>2 DEF Pledge
  <1>4. CASE HandleOKCallback
    <2>1. CASE refs = {}
      <3>1. ~reader /\ loop = "idle"
        BY <1>4, <2>1 DEF HandleOKCallback, IInv, References
      <3>2. unsubscribed
        BY <3>1 DEF IInv, Lifecycle
      <3> QED
        BY <1>4, <2>1, <3>2 DEF HandleOKCallback, Pledge
    <2>2. CASE refs # {}
      BY <1>4, <2>2 DEF HandleOKCallback, UnsubscribeNowI, Pledge, IInv, TypeOK
    <2> QED
      BY <2>1, <2>2
  <1>5. CASE ExecuteWorker
    BY <1>0, <1>1, <1>5 DEF ExecuteWorker, flagVars
  <1>6. CASE Async
    <2>1. receiving_samples => receiving_samples'
      BY <1>6 DEF Async
    <2>2. UNCHANGED <<unsubscribing, unsubscribed, queued, ready, handled>>
      BY <1>6 DEF Async, workVars
    <2> QED
      BY <1>1, <2>1, <2>2
  <1>7. CASE \/ CreateReader \/ SubscribeFails \/ SetJavascriptDatareader
             \/ Take \/ (\E s \in Samples : PushBack(s)) \/ CallbackReturns
             \/ TakeThrows \/ Detach \/ CloseCb \/ UNCHANGED vars
             \/ (\E t \in Threads : Listening(t))
             \/ (\E t \in Threads, s \in Samples : Arrive(t, s))
    <2>1. UNCHANGED <<flagVars, workVars>>
      BY <1>7 DEF CreateReader, SubscribeFails, SetJavascriptDatareader, Take,
                  PushBack, CallbackReturns, TakeThrows, Detach, CloseCb,
                  Listening, OnDataAvailable, AsyncSend, ListenerReturns,
                  Arrive, vars
    <2> QED
      BY <1>0, <1>1, <2>1 DEF flagVars, workVars
  <1> QED
    BY <1>2, <1>3, <1>4, <1>5, <1>6, <1>7 DEF Next, LoopRuns, Dispatch, Rest

\* The abstract stage, read off the variables it is made of.
LEMMA StageIs ==
  ASSUME IInv
  PROVE  /\ loop = "failed" => stageBar = "failed"
         /\ loop \in {"subscribing", "created"} => stageBar = "unused"
         /\ loop \notin {"failed", "subscribing", "created"} =>
                /\ unsubscribed => stageBar = "closed"
                /\ ~unsubscribed /\ unsubscribing => stageBar = "stopping"
                /\ ~unsubscribed /\ ~unsubscribing => stageBar = "live"
  BY DEF IInv, TypeOK, stageBar

\* Steps that ListenerLife does not see.
LEMMA LifeIsSame ==
  ASSUME IInv, stageBar' = stageBar, handle' = handle,
         queued' + ready' = queued + ready,
         receiving_samples' = receiving_samples
  PROVE  UNCHANGED Life!vars
  BY DEF Life!vars

\* The DDS threads, the samples, the thread pool, and the entities deleted
\* after the handle was closed.
LEMMA QuietLife ==
  ASSUME IInv, IInv',
         \/ CreateReader \/ Take \/ (\E s \in Samples : PushBack(s))
         \/ CallbackReturns \/ TakeThrows \/ Detach \/ ExecuteWorker
         \/ (\E t \in Threads : Listening(t))
         \/ (\E t \in Threads, s \in Samples : Arrive(t, s))
         \/ UNCHANGED vars
  PROVE  UNCHANGED Life!vars
  <1>1. /\ UNCHANGED <<unsubscribing, unsubscribed, receiving_samples, handle>>
        /\ queued' + ready' = queued + ready
    <2>1. CASE ExecuteWorker
      BY <2>1 DEF ExecuteWorker, IInv, TypeOK, CountersOK, flagVars, lifeVars
    <2>2. CASE ~ExecuteWorker
      BY <2>2 DEF CreateReader, Take, PushBack, CallbackReturns, TakeThrows,
                  Detach, Listening, OnDataAvailable, AsyncSend,
                  ListenerReturns, Arrive, vars, flagVars, workVars, lifeVars
    <2> QED
      BY <2>1, <2>2
  <1>2. \/ loop' = loop
        \/ loop = "subscribing" /\ loop' = "created"
        \/ {loop, loop'} \cap {"failed", "subscribing", "created"} = {}
    BY DEF CreateReader, Take, PushBack, CallbackReturns, TakeThrows, Detach,
           ExecuteWorker, Listening, OnDataAvailable, AsyncSend,
           ListenerReturns, Arrive, vars
  <1>3. stageBar' = stageBar
    BY <1>1, <1>2 DEF stageBar
  <1> QED
    BY <1>1, <1>3, LifeIsSame

\* subscribe() returns the reader or throws.
LEMMA LifeBegins ==
  ASSUME IInv, IInv', SetJavascriptDatareader \/ SubscribeFails
  PROVE  Life!Subscribe
  <1>1. /\ loop \in {"subscribing", "created"}
        /\ ~unsubscribing /\ ~unsubscribed /\ handle = "open"
        /\ loop' \in {"idle", "failed"}
        /\ UNCHANGED <<unsubscribing, unsubscribed, handle, queued, ready,
                       receiving_samples>>
    BY DEF SetJavascriptDatareader, SubscribeFails, IInv, Lifecycle, flagVars,
           workVars, lifeVars
  <1>2. stageBar = "unused" /\ stageBar' \in {"live", "failed"}
    BY <1>1 DEF stageBar
  <1> QED
    BY <1>1, <1>2 DEF Life!Subscribe

\* async() begins: after a deferred unsubscribe() only if it was pending then,
\* with one worker under way.
LEMMA LifeTakes ==
  ASSUME IInv, IInv', Pledge, Async
  PROVE  Life!TakeBegins
  <1>1. /\ loop = "idle" /\ pending /\ handle = "open"
        /\ UNCHANGED <<handle, unsubscribing, unsubscribed, queued, ready>>
    BY DEF Async, lifeVars, workVars
  <1>2. loop' = "taking" /\ receiving_samples'
    BY DEF Async, IInv, Lifecycle
  <1>3. ~receiving_samples /\ ~unsubscribed
    BY <1>1 DEF IInv, Lifecycle
  <1>4. receiving_samples = FALSE /\ receiving_samples' = TRUE
    BY <1>2, <1>3 DEF IInv, TypeOK
  <1>5. unsubscribing => queued + ready = 1
    <2>1. queued \in Nat /\ ready \in Nat /\ handled \in Nat
      BY DEF IInv, TypeOK, CountersOK
    <2>2. Count(pending) = 1 /\ Count(receiving_samples) = 0
      BY <1>1, <1>3 DEF Count
    <2> QED
      BY <1>3, <2>1, <2>2 DEF Pledge, IInv, WorkerBudget, Workers, Dispatches
  <1>6. /\ stageBar' = stageBar
        /\ stageBar = IF unsubscribing THEN "stopping" ELSE "live"
    BY <1>1, <1>2, <1>3 DEF stageBar
  <1> QED
    BY <1>1, <1>4, <1>5, <1>6 DEF Life!TakeBegins

\* async() ends, with a worker if it was asked for.
LEMMA LifeTaken ==
  ASSUME IInv, IInv', AsyncEnds
  PROVE  Life!TakeEnds
  <1>1. /\ loop = "pushing" /\ loop' = "idle"
        /\ UNCHANGED <<handle, unsubscribing, unsubscribed, ready>>
        /\ receiving_samples' = FALSE
        /\ queued' = IF unsubscribing THEN queued + 1 ELSE queued
    BY DEF AsyncEnds, NeedsWorker, lifeVars
  <1>2. receiving_samples /\ ~unsubscribed
    BY <1>1 DEF IInv, Lifecycle
  <1>3. queued \in Nat /\ ready \in Nat
    BY DEF IInv, TypeOK, CountersOK
  <1>4. /\ stageBar' = stageBar
        /\ stageBar = IF unsubscribing THEN "stopping" ELSE "live"
    BY <1>1, <1>2 DEF stageBar
  <1> QED
    BY <1>1, <1>2, <1>3, <1>4 DEF Life!TakeEnds

\* unsubscribe_now_i, when it has something to do.
LEMMA LifeReleases ==
  ASSUME IInv, IInv', loop \in {"idle", "callback"}, ~unsubscribed,
         ~receiving_samples, NEW held, UnsubscribeNowI(held)
  PROVE  Life!Release
  <1>1. unsubscribed' /\ loop' = "detaching" /\ handle' = "closing"
    BY DEF UnsubscribeNowI
  <1>2. stageBar \in {"live", "stopping"} /\ stageBar' = "closed"
    BY <1>1 DEF stageBar
  <1> QED
    BY <1>1, <1>2 DEF Life!Release, Life!Holds

\* unsubscribe() gives the reader up or leaves word; of a reader whose
\* JavaScript object was cleared nothing more is said.
LEMMA LifeUnsubscribes ==
  ASSUME IInv, IInv', Unsubscribe
  PROVE  Life!Unsubscribe \/ UNCHANGED Life!vars
  <1>1. /\ loop \in {"idle", "callback"}
        /\ UNCHANGED <<queued, ready, receiving_samples>>
    BY DEF Unsubscribe, workVars
  <1>2. CASE ~js_dr
    <2>1. /\ loop' = "fault in unsubscribe"
          /\ UNCHANGED <<handle, unsubscribing, unsubscribed>>
      BY <1>2 DEF Unsubscribe, lifeVars
    <2>2. stageBar' = stageBar
      BY <1>1, <2>1 DEF stageBar
    <2> QED
      BY <1>1, <2>1, <2>2, LifeIsSame
  <1>3. CASE js_dr /\ receiving_samples
    <2>1. /\ unsubscribing' /\ loop' = loop
          /\ UNCHANGED <<handle, unsubscribed>>
      BY <1>3 DEF Unsubscribe, Defers, lifeVars
    <2>2. ~unsubscribed
      BY <1>3 DEF IInv, Lifecycle
    <2>3. stageBar \in {"live", "stopping"} /\ stageBar' = "stopping"
      BY <1>1, <2>1, <2>2 DEF stageBar
    <2> QED
      BY <1>1, <1>3, <2>1, <2>3 DEF Life!Unsubscribe, Life!Holds
  <1>4. CASE js_dr /\ ~receiving_samples
    <2>1. UnsubscribeNowI({"caller"})
      BY <1>4 DEF Unsubscribe, Defers
    <2>2. ~unsubscribed
      BY <1>1, <1>4 DEF IInv, Lifecycle
    <2>3. Life!Release
      BY <1>1, <1>4, <2>1, <2>2, LifeReleases
    <2> QED
      BY <1>1, <2>3 DEF Life!Unsubscribe
  <1> QED
    BY <1>2, <1>3, <1>4

\* A worker is called back, in vain if the reader was given up before.
LEMMA LifeWorks ==
  ASSUME IInv, IInv', HandleOKCallback
  PROVE  Life!WorkerCallback
  <1>1. loop = "idle" /\ ready > 0 /\ ready' = ready - 1
        /\ UNCHANGED <<queued, receiving_samples, unsubscribing>>
    BY DEF HandleOKCallback
  <1>2. queued \in Nat /\ ready \in Nat /\ ~receiving_samples
    BY <1>1 DEF IInv, TypeOK, CountersOK, Lifecycle
  <1>3. queued + ready > 0 /\ queued' + ready' = (queued + ready) - 1
    BY <1>1, <1>2
  <1>4. CASE ~unsubscribed
    <2>1. refs # {}
      BY <1>1, <1>4 DEF IInv, Lifecycle, References
    <2>2. UnsubscribeNowI({})
      BY <2>1 DEF HandleOKCallback
    <2>3. Life!Release
      BY <1>1, <1>2, <1>4, <2>2, LifeReleases
    <2> QED
      BY <1>1, <1>2, <1>3, <2>3 DEF Life!WorkerCallback
  <1>5. CASE unsubscribed
    <2>1. /\ UNCHANGED <<handle, unsubscribed>>
          /\ loop' \in {"idle", "fault in worker"}
      BY <1>1, <1>5 DEF HandleOKCallback, UnsubscribeNowI, lifeVars
    <2>2. stageBar = "closed" /\ stageBar' = stageBar
      BY <1>1, <1>5, <2>1 DEF stageBar
    <2> QED
      BY <1>1, <1>2, <1>3, <2>1, <2>2 DEF Life!WorkerCallback, Life!Holds
  <1> QED
    BY <1>4, <1>5

\* libuv has closed the handle.
LEMMA LifeCloses ==
  ASSUME IInv, IInv', CloseCb
  PROVE  Life!CloseCb
  <1>1. /\ loop = "idle" /\ handle = "closing" /\ handle' = "closed"
        /\ UNCHANGED <<loop, unsubscribing, unsubscribed, queued, ready,
                       receiving_samples>>
    BY DEF CloseCb, flagVars, workVars
  <1>2. ~receiving_samples
    BY <1>1 DEF IInv, Lifecycle
  <1>3. stageBar' = stageBar /\ stageBar # "unused"
    BY <1>1 DEF stageBar
  <1> QED
    BY <1>1, <1>2, <1>3 DEF Life!CloseCb

\* With all of its threads a listener lives as ListenerLife says: its reader is
\* given up and its handle closed at most once (src/NodeDRListener.cpp:157-175),
\* never under a running async(), and each worker follows an async() that saw
\* the request. NodeOpenDDSProofs shows the same of each reader of a program.
THEOREM ListenerLivesOnce == SafeSpec => LivesOnce
  <1>1. Init => Life!Init
    BY DEF Init, Life!Init, Life!None, stageBar
  <1>2. Init => Pledge
    BY DEF Init, Pledge
  <1>3. ASSUME IInv, IInv', Pledge, [Next]_vars
        PROVE  [Life!Next]_(Life!vars)
    <2>1. CASE LoopRuns
      BY <1>3, <2>1, QuietLife, LifeBegins, LifeTaken DEF LoopRuns, Life!Next
    <2>2. CASE Dispatch
      BY <1>3, <2>2, LifeTakes, LifeWorks, LifeCloses DEF Dispatch, Life!Next
    <2>3. CASE Unsubscribe
      BY <1>3, <2>3, LifeUnsubscribes DEF Life!Next
    <2>4. CASE \/ ExecuteWorker \/ (\E t \in Threads : Listening(t))
               \/ (\E t \in Threads, s \in Samples : Arrive(t, s))
               \/ UNCHANGED vars
      BY <1>3, <2>4, QuietLife
    <2> QED
      BY <1>3, <2>1, <2>2, <2>3, <2>4 DEF Next, Rest
  <1> QED
    BY <1>1, <1>2, <1>3, Invariance, PledgeInv, PTL
    DEF SafeSpec, LivesOnce, Life!Spec

-----------------------------------------------------------------------------
(* With a DataWriter that waits, for any number of threads, samples and    *)
(* writes. That the wait returns is left to TLC.                           *)

\* A step of the composition is one of the listener or leaves it alone.
LEMMA ListenerSteps == WriterNext => [Next]_vars
  <1> SUFFICES ASSUME WriterNext PROVE [Next]_vars
    OBVIOUS
  <1>1. CASE write \/ wait_for_acknowledgments \/ WaitEnds \/ Waits
    BY <1>1 DEF write, wait_for_acknowledgments, WaitEnds, Waits, allVars
  <1>2. CASE \E t \in Threads : Acknowledge(t) \/ Receives(t)
    BY <1>2 DEF Acknowledge, Receives
  <1>3. CASE \/ JavaScript(LoopRuns) \/ JavaScript(Dispatch)
             \/ JavaScript(Unsubscribe)
    BY <1>3 DEF JavaScript, Next
  <1>4. CASE \E t \in Threads : ThreadSteps(t)
    BY <1>4 DEF ThreadSteps, Stores, Locks, Listening, Next
  <1>5. CASE \/ ExecuteWorker /\ UNCHANGED writerVars
             \/ Rest /\ UNCHANGED writerVars
    BY <1>5 DEF Next
  <1> QED
    BY <1>1, <1>2, <1>3, <1>4, <1>5 DEF WriterNext

\* write() and wait_for_acknowledgments(), called from the loop or from inside
\* a sample callback, are nothing to the listener but time that passes.
THEOREM WaitingIsInvisible == WriterSpec => SafeSpec
  <1>1. WriterInit => Init
    BY DEF WriterInit
  <1>2. [WriterNext]_allVars => [Next]_vars
    BY ListenerSteps DEF allVars
  <1> QED
    BY <1>1, <1>2, PTL DEF WriterSpec, SafeSpec

\* So async() stays safe while the program waits: what take() uses is not
\* given up under it.
THEOREM TakeProtectedWhileWaiting == WriterSpec => []TakeProtected
  BY WaitingIsInvisible, TakeIsProtected, PTL

\* Nor does a wait break what subscribe() promises: the composition, too,
\* implements Subscription.
THEOREM PromiseKeptWhileWaiting == WriterSpec => Promise!SafeSpec
  BY WaitingIsInvisible, Implementation, PTL

\* The types of the composition.
THEOREM WriterTypes == WriterSpec => []WriterTypeOK
  <1>1. WriterInit => WriterTypeOK
    <2>1. ASSUME WriterInit
          PROVE  /\ waiting = FALSE /\ writes = 0 /\ unacknowledged = 0
                 /\ storing = {}
      BY <2>1 DEF WriterInit
    <2>2. 0 \in 0..MaxWrites /\ 0 \in 0..0
      BY MaxWritesAssumption
    <2> QED
      BY <2>1, <2>2 DEF WriterTypeOK
  <1>2. WriterTypeOK /\ [WriterNext]_allVars => WriterTypeOK'
    <2> SUFFICES ASSUME WriterTypeOK, [WriterNext]_allVars PROVE WriterTypeOK'
      OBVIOUS
    <2> USE MaxWritesAssumption DEF WriterTypeOK
    <2>1. CASE write
      BY <2>1 DEF write
    <2>2. CASE wait_for_acknowledgments \/ WaitEnds
      BY <2>2 DEF wait_for_acknowledgments, WaitEnds
    <2>3. CASE \E t \in Threads : Acknowledge(t)
      BY <2>3 DEF Acknowledge
    <2>4. CASE \E t \in Threads : Receives(t) \/ Stores(t)
      BY <2>4 DEF Receives, Stores
    <2>5. CASE UNCHANGED writerVars
      BY <2>5 DEF writerVars
    <2> QED
      BY <2>1, <2>2, <2>3, <2>4, <2>5
         DEF WriterNext, ThreadSteps, JavaScript, Waits, allVars
  <1> QED
    BY <1>1, <1>2, PTL DEF WriterSpec
=============================================================================
