----------------------- MODULE NodePBITListenerProofs -----------------------
(***************************************************************************)
(* Proofs about the reports of discovered participants, for any number of  *)
(* participants, threads and listeners. The invariant follows a listener:  *)
(* Fresh before subscribe_participant_topic() made it, Registered as long  *)
(* as its handle is open; Told says what the program knows while no thread *)
(* is in the listener and no send is pending, and Filled that a thread has *)
(* stored a sample before any send.                                        *)
(***************************************************************************)
EXTENDS NodePBITListener, FiniteSetTheorems, TLAPS

Fresh ==
    \A l \in Listeners : handle[l] = None =>
        /\ current # l /\ l \notin pending /\ reading # l
        /\ \A t \in Threads : dds[t] # "idle" => within[t] # l
        /\ infos_[l] = Nothing /\ part_data_[l] = Nothing
        /\ reported[l] = <<Nothing, Nothing>>

Registered ==
    /\ current # None => reader = "live" /\ handle[current] = "open"
    /\ reading # None => handle[reading] = "open"
    /\ \A l \in Listeners :
           handle[l] \in {"closing", "closed"} => reader # "live"
    /\ \A l \in Listeners : handle[l] = "open" /\ current # l =>
           l \in replaced \/ reader = "deleted"

Told ==
    fault = None => \A l \in Listeners :
        /\ handle[l] = "open" /\ l \notin pending
        /\ \A t \in Threads : dds[t] # "idle" => within[t] # l
        => /\ reading # l => reported[l] = <<infos_[l], part_data_[l]>>
           /\ reading = l => info = infos_[l]

Stored == \A t \in Threads : dds[t] = "storing" => sample[t] # Nothing

Filled ==
    fault = None /\ replaced = {} /\ reader # "deleted" =>
        \A l \in Listeners :
            /\ handle[l] = "open"
            /\ infos_[l] = Nothing \/ part_data_[l] = Nothing
            => /\ l \notin pending /\ reading # l
               /\ \A t \in Threads : dds[t] = "sending" => within[t] # l
               /\ (\E t \in Threads : dds[t] = "notify" /\ within[t] = l) =>
                     \/ \E p \in Participants : unread[p] # 0
                     \/ \E t \in Threads : dds[t] = "storing" /\ within[t] = l

IInv == /\ TypeOK /\ Fresh /\ Registered /\ Told /\ Stored /\ Filled
        /\ AsyncFindsSample /\ BacklogBounded

-----------------------------------------------------------------------------

LEMMA InitInv == Init => IInv
  <1> SUFFICES ASSUME Init PROVE IInv
    OBVIOUS
  <1> USE DEF Init
  <1>1. TypeOK
    BY PBITAssumption DEF TypeOK, Element
  <1>2. Fresh
    BY PBITAssumption DEF Fresh
  <1>3. Registered /\ Told /\ Stored /\ Filled /\ AsyncFindsSample
    BY DEF Registered, Told, Stored, Filled, AsyncFindsSample, None
  <1>4. BacklogBounded
    <2>1. /\ {p \in Participants : unread[p] # 0} = {}
          /\ {t \in Threads : dds[t] = "notify"} = {}
      OBVIOUS
    <2>2. Cardinality({}) = 0
      BY FS_EmptySet
    <2> QED
      BY <2>1, <2>2 DEF BacklogBounded
  <1> QED
    BY <1>1, <1>2, <1>3, <1>4 DEF IInv

-----------------------------------------------------------------------------
(* Types.                                                                  *)

LEMMA TypeStep ==
  ASSUME TypeOK, Registered, Next
  PROVE  TypeOK'
  <1> USE PBITAssumption DEF TypeOK
  <1>1. ASSUME NEW t \in Threads, NEW p \in Participants, Discover(t, p)
        PROVE  TypeOK'
    <2>1. version[p] + 1 \in 0..MaxVersion
      BY <1>1 DEF Discover
    <2>2. /\ version' \in [Participants -> 0..MaxVersion]
          /\ unread' \in [Participants -> 0..MaxVersion]
          /\ \A q \in Participants : unread'[q] \in {0, version'[q]}
      BY <1>1, <2>1 DEF Discover
    <2>3. /\ dds' \in [Threads -> {"idle", "notify", "storing", "sending"}]
          /\ within' \in [Threads -> Listeners \cup {None}]
          /\ \A u \in Threads : dds'[u] # "idle" => within'[u] # None
          /\ backlog' \in Nat
      BY <1>1 DEF Discover
    <2> QED
      BY <1>1, <2>2, <2>3 DEF Discover, sequences, loopVars
  <1>2. ASSUME NEW t \in Threads, NEW p \in Participants, TakeBegins(t, p)
        PROVE  TypeOK'
    <2>1. <<p, unread[p]>> \in Element
      BY <1>2 DEF TakeBegins, Element, Taken, Versions
    <2>2. within[t] \in Listeners
      BY <1>2 DEF TakeBegins
    <2>3. /\ sample' \in [Threads -> Element]
          /\ part_data_' \in [Listeners -> Element]
          /\ infos_' \in [Listeners -> Element]
      <3> DEFINE taken == <<p, unread[p]>>
      <3>1. /\ sample' = [sample EXCEPT ![t] = taken]
            /\ \/ /\ part_data_' = [part_data_ EXCEPT ![within[t]] = taken]
                  /\ UNCHANGED infos_
               \/ /\ infos_' = [infos_ EXCEPT ![within[t]] = taken]
                  /\ UNCHANGED part_data_
        BY <1>2 DEF TakeBegins
      <3> HIDE DEF taken
      <3>2. taken \in Element
        BY <2>1 DEF taken
      <3>3. sample' \in [Threads -> Element]
        BY <3>1, <3>2
      <3>4. /\ [part_data_ EXCEPT ![within[t]] = taken]
                  \in [Listeners -> Element]
            /\ [infos_ EXCEPT ![within[t]] = taken] \in [Listeners -> Element]
        BY <2>2, <3>2
      <3> QED
        BY <3>1, <3>3, <3>4
    <2>4. /\ unread' \in [Participants -> 0..MaxVersion]
          /\ \A q \in Participants : unread'[q] \in {0, version[q]}
      BY <1>2 DEF TakeBegins, ReadAndKept
    <2>5. /\ dds' \in [Threads -> {"idle", "notify", "storing", "sending"}]
          /\ \A u \in Threads : dds'[u] # "idle" => within[u] # None
      BY <1>2 DEF TakeBegins
    <2>6. UNCHANGED <<reader, version, current, backlog, replaced, handle,
                      pending, within, reading, info, reported, fault>>
      BY <1>2 DEF TakeBegins, loopVars
    <2> QED
      BY <2>3, <2>4, <2>5, <2>6
  <1>3. ASSUME NEW t \in Threads, TakeEnds(t) PROVE TypeOK'
    <2>1. within[t] \in Listeners /\ sample[t] \in Element /\ Nothing \in Element
      BY <1>3 DEF TakeEnds, Element
    <2> QED
      BY <1>3, <2>1 DEF TakeEnds, readerVars, loopVars
  <1>4. ASSUME NEW t \in Threads, TakesNothing(t) PROVE TypeOK'
    BY <1>4 DEF TakesNothing, readerVars, sequences, loopVars
  <1>5. ASSUME NEW t \in Threads, AsyncSend(t) PROVE TypeOK'
    BY <1>5 DEF AsyncSend, Sends, SendsFrom, readerVars, sequences, loopVars
  <1>6. ASSUME NEW l \in Listeners, Subscribe(l) PROVE TypeOK'
    BY <1>6 DEF Subscribe, sequences, threadVars, loopVars
  <1>7. CASE Unsubscribe
    BY <1>7 DEF Unsubscribe, ReaderGoes, Closing, sequences, threadVars,
       loopVars
  <1>8. CASE DeleteParticipant
    BY <1>8 DEF DeleteParticipant, ReaderGoes, sequences, threadVars, loopVars
  <1>9. ASSUME NEW l \in Listeners, CloseCb(l) PROVE TypeOK'
    BY <1>9 DEF CloseCb, readerVars, sequences, threadVars, loopVars
  <1>10. ASSUME NEW l \in Listeners, AsyncBegins(l) PROVE TypeOK'
    BY <1>10 DEF AsyncBegins, readerVars, sequences, threadVars
  <1>11. CASE AsyncEnds
    <2>1. reading \in Listeners /\ Nothing \in Element
      BY <1>11 DEF AsyncEnds, Element
    <2> QED
      BY <1>11, <2>1 DEF AsyncEnds, readerVars, sequences, threadVars
  <1> QED
    BY <1>1, <1>2, <1>3, <1>4, <1>5, <1>6, <1>7, <1>8, <1>9, <1>10, <1>11
       DEF Next

-----------------------------------------------------------------------------
(* A listener before it is made, and while its handle is open.             *)

LEMMA FreshStep ==
  ASSUME TypeOK, Fresh, Registered, Next
  PROVE  Fresh'
  <1> USE PBITAssumption DEF TypeOK, Fresh
  <1>1. ASSUME NEW t \in Threads, NEW p \in Participants, Discover(t, p)
        PROVE  Fresh'
    BY <1>1 DEF Discover, sequences, loopVars
  <1>2. ASSUME NEW t \in Threads, NEW p \in Participants, TakeBegins(t, p)
        PROVE  Fresh'
    <2>1. handle[within[t]] # None /\ within[t] \in Listeners
      BY <1>2 DEF TakeBegins
    <2>2. \A l \in Listeners : l # within[t] =>
              infos_'[l] = infos_[l] /\ part_data_'[l] = part_data_[l]
      BY <1>2, <2>1 DEF TakeBegins
    <2>3. \A u \in Threads : dds'[u] # "idle" => dds[u] # "idle"
      BY <1>2 DEF TakeBegins
    <2> QED
      BY <1>2, <2>1, <2>2, <2>3 DEF TakeBegins, loopVars
  <1>3. ASSUME NEW t \in Threads, TakeEnds(t) PROVE Fresh'
    <2>1. handle[within[t]] # None /\ within[t] \in Listeners
      BY <1>3 DEF TakeEnds
    <2> QED
      BY <1>3, <2>1 DEF TakeEnds, readerVars, loopVars
  <1>4. ASSUME NEW t \in Threads, TakesNothing(t) PROVE Fresh'
    BY <1>4 DEF TakesNothing, readerVars, sequences, loopVars
  <1>5. ASSUME NEW t \in Threads, AsyncSend(t) PROVE Fresh'
    BY <1>5 DEF AsyncSend, Sends, SendsFrom, readerVars, sequences, loopVars
  <1>6. ASSUME NEW l \in Listeners, Subscribe(l) PROVE Fresh'
    BY <1>6 DEF Subscribe, sequences, threadVars, loopVars, None
  <1>7. CASE Unsubscribe
    BY <1>7 DEF Unsubscribe, ReaderGoes, Closing, sequences, threadVars,
       loopVars, None
  <1>8. CASE DeleteParticipant
    BY <1>8 DEF DeleteParticipant, ReaderGoes, sequences, threadVars, loopVars
  <1>9. ASSUME NEW l \in Listeners, CloseCb(l) PROVE Fresh'
    BY <1>9 DEF CloseCb, readerVars, sequences, threadVars, loopVars, None
  <1>10. ASSUME NEW l \in Listeners, AsyncBegins(l) PROVE Fresh'
    BY <1>10 DEF AsyncBegins, readerVars, sequences, threadVars, None
  <1>11. CASE AsyncEnds
    <2>1. handle[reading] = "open" /\ reading \in Listeners
      BY <1>11 DEF AsyncEnds, Registered
    <2> QED
      BY <1>11, <2>1 DEF AsyncEnds, readerVars, sequences, threadVars, None
  <1> QED
    BY <1>1, <1>2, <1>3, <1>4, <1>5, <1>6, <1>7, <1>8, <1>9, <1>10, <1>11
       DEF Next

LEMMA RegisteredStep ==
  ASSUME TypeOK, Registered, Next
  PROVE  Registered'
  <1> USE PBITAssumption DEF TypeOK, Registered
  <1>1. ASSUME UNCHANGED <<reader, current, handle, reading, replaced>>
        PROVE  Registered'
    BY <1>1
  <1>2. ASSUME NEW t \in Threads, NEW p \in Participants,
               Discover(t, p) \/ TakeBegins(t, p)
        PROVE  Registered'
    BY <1>1, <1>2 DEF Discover, TakeBegins, loopVars
  <1>3. ASSUME NEW t \in Threads,
               TakeEnds(t) \/ TakesNothing(t) \/ AsyncSend(t)
        PROVE  Registered'
    BY <1>1, <1>3 DEF TakeEnds, TakesNothing, AsyncSend, readerVars, loopVars
  <1>6. ASSUME NEW l \in Listeners, Subscribe(l) PROVE Registered'
    BY <1>6 DEF Subscribe, loopVars, None
  <1>7. CASE Unsubscribe
    BY <1>7 DEF Unsubscribe, ReaderGoes, Closing, loopVars
  <1>8. CASE DeleteParticipant
    BY <1>8 DEF DeleteParticipant, ReaderGoes, loopVars
  <1>9. ASSUME NEW l \in Listeners, CloseCb(l) PROVE Registered'
    BY <1>9 DEF CloseCb, readerVars, loopVars
  <1>10. ASSUME NEW l \in Listeners, AsyncBegins(l) PROVE Registered'
    BY <1>10 DEF AsyncBegins, readerVars
  <1>11. CASE AsyncEnds
    BY <1>11 DEF AsyncEnds, readerVars
  <1> QED
    BY <1>2, <1>3, <1>6, <1>7, <1>8, <1>9, <1>10, <1>11 DEF Next

-----------------------------------------------------------------------------
(* What the program has been told.                                         *)

LEMMA ToldStep ==
  ASSUME TypeOK, Fresh, Registered, Told, Next
  PROVE  Told'
  <1> DEFINE Out(l) == \A t \in Threads : dds[t] # "idle" => within[t] # l
             Due(l) == handle[l] = "open" /\ l \notin pending /\ Out(l)
             Knows(l) ==
                 /\ reading # l => reported[l] = <<infos_[l], part_data_[l]>>
                 /\ reading = l => info = infos_[l]
  <1>0. fault = None /\ \A l \in Listeners : Due(l) => Knows(l)
    BY DEF Told, Next, Discover, TakeBegins, TakeEnds, TakesNothing, AsyncSend,
       Subscribe, Unsubscribe, DeleteParticipant, CloseCb, AsyncBegins,
       AsyncEnds, Running
  <1> SUFFICES ASSUME NEW l \in Listeners, Due(l)', fault' = None
               PROVE  Knows(l)'
    BY DEF Told
  <1> USE PBITAssumption DEF TypeOK
  <1>1. ASSUME Due(l), UNCHANGED <<reading, info, reported, infos_, part_data_>>
        PROVE  Knows(l)'
    BY <1>0, <1>1
  <1>2. ASSUME NEW t \in Threads, NEW p \in Participants, Discover(t, p)
        PROVE  Knows(l)'
    <2>1. Due(l)
      BY <1>2 DEF Discover
    <2> QED
      BY <1>1, <1>2, <2>1 DEF Discover, sequences, loopVars
  <1>3. ASSUME NEW t \in Threads, NEW p \in Participants, TakeBegins(t, p)
        PROVE  Knows(l)'
    <2>1. within[t] # l /\ within[t] \in Listeners
      BY <1>3 DEF TakeBegins
    <2>2. Due(l)
      BY <1>3 DEF TakeBegins
    <2>3. infos_'[l] = infos_[l] /\ part_data_'[l] = part_data_[l]
      BY <1>3, <2>1 DEF TakeBegins
    <2> QED
      BY <1>0, <1>3, <2>2, <2>3 DEF TakeBegins, loopVars
  <1>4. ASSUME NEW t \in Threads, TakeEnds(t) PROVE Knows(l)'
    <2>1. within[t] # l /\ within[t] \in Listeners
      BY <1>4 DEF TakeEnds
    <2>2. Due(l)
      BY <1>4 DEF TakeEnds
    <2> QED
      BY <1>0, <1>4, <2>1, <2>2 DEF TakeEnds, loopVars
  <1>5. ASSUME NEW t \in Threads, TakesNothing(t) PROVE Knows(l)'
    <2>1. Due(l)
      BY <1>5 DEF TakesNothing
    <2> QED
      BY <1>1, <1>5, <2>1 DEF TakesNothing, sequences, loopVars
  <1>6. ASSUME NEW t \in Threads, AsyncSend(t) PROVE Knows(l)'
    <2>1. within[t] # l
      BY <1>6 DEF AsyncSend, Sends
    <2>2. Due(l)
      BY <1>6, <2>1 DEF AsyncSend
    <2> QED
      BY <1>1, <1>6, <2>2 DEF AsyncSend, sequences, loopVars
  <1>7. ASSUME NEW m \in Listeners, Subscribe(m) PROVE Knows(l)'
    <2>1. CASE m = l
      BY <1>7, <2>1 DEF Subscribe, Fresh, sequences, threadVars, loopVars
    <2>2. CASE m # l
      <3>1. Due(l)
        BY <1>7, <2>2 DEF Subscribe, threadVars
      <3> QED
        BY <1>1, <1>7, <3>1 DEF Subscribe, sequences, loopVars
    <2> QED
      BY <2>1, <2>2
  <1>8. CASE Unsubscribe
    <2>1. Due(l)
      BY <1>8 DEF Unsubscribe, Closing, threadVars
    <2> QED
      BY <1>1, <1>8, <2>1 DEF Unsubscribe, sequences, loopVars
  <1>9. CASE DeleteParticipant
    BY <1>1, <1>9 DEF DeleteParticipant, sequences, threadVars, loopVars
  <1>10. ASSUME NEW m \in Listeners, CloseCb(m) PROVE Knows(l)'
    <2>1. Due(l)
      BY <1>10 DEF CloseCb, threadVars
    <2> QED
      BY <1>1, <1>10, <2>1 DEF CloseCb, sequences, loopVars
  <1>11. ASSUME NEW m \in Listeners, AsyncBegins(m) PROVE Knows(l)'
    <2>1. /\ reading = None /\ reading' = m /\ info' = infos_[m]
          /\ pending' = pending \ {m}
          /\ UNCHANGED <<sequences, threadVars, handle, reported>>
      BY <1>0, <1>11 DEF AsyncBegins, None
    <2>2. CASE m = l
      BY <2>1, <2>2 DEF sequences
    <2>3. CASE m # l
      <3>1. Due(l)
        BY <2>1, <2>3 DEF threadVars
      <3> QED
        BY <1>0, <2>1, <2>3, <3>1 DEF sequences
    <2> QED
      BY <2>2, <2>3
  <1>12. CASE AsyncEnds
    <2>1. /\ reading \in Listeners /\ reading' = None
          /\ reported' = [reported EXCEPT ![reading] =
                              <<info, part_data_[reading]>>]
          /\ UNCHANGED <<sequences, threadVars, handle, pending>>
      BY <1>0, <1>12 DEF AsyncEnds, None
    <2>2. Due(l)
      BY <2>1 DEF threadVars
    <2> QED
      BY <1>0, <2>1, <2>2 DEF sequences
  <1> QED
    BY <1>2, <1>3, <1>4, <1>5, <1>6, <1>7, <1>8, <1>9, <1>10, <1>11, <1>12
       DEF Next

-----------------------------------------------------------------------------
(* Samples in the sequences.                                               *)

LEMMA StoredStep ==
  ASSUME TypeOK, Stored, Next
  PROVE  Stored'
  <1> USE PBITAssumption DEF TypeOK, Stored
  <1>1. ASSUME NEW t \in Threads, NEW p \in Participants,
               Discover(t, p) \/ TakeBegins(t, p)
        PROVE  Stored'
    <2>1. CASE Discover(t, p)
      BY <2>1 DEF Discover
    <2>2. CASE TakeBegins(t, p)
      BY <2>2 DEF TakeBegins, Nothing
    <2> QED
      BY <1>1, <2>1, <2>2
  <1>2. ASSUME NEW t \in Threads,
               TakeEnds(t) \/ TakesNothing(t) \/ AsyncSend(t)
        PROVE  Stored'
    BY <1>2 DEF TakeEnds, TakesNothing, AsyncSend
  <1>3. ASSUME UNCHANGED threadVars PROVE Stored'
    BY <1>3 DEF threadVars
  <1> QED
    BY <1>1, <1>2, <1>3 DEF Next, Subscribe, Unsubscribe, DeleteParticipant,
       CloseCb, AsyncBegins, AsyncEnds

\* There is no way back from these.
LEMMA OneWay ==
  ASSUME Registered, Next
  PROVE  /\ fault = None /\ replaced \subseteq replaced'
         /\ reader = "deleted" => reader' = "deleted"
  <1>1. fault = None
    BY DEF Next, Discover, TakeBegins, TakeEnds, TakesNothing, AsyncSend,
       Subscribe, Unsubscribe, DeleteParticipant, CloseCb, AsyncBegins,
       AsyncEnds, Running
  <1>2. ASSUME NEW l \in Listeners, Subscribe(l)
        PROVE  replaced \subseteq replaced' /\ UNCHANGED reader
    BY <1>2 DEF Subscribe
  <1>3. CASE Unsubscribe
    BY <1>1, <1>3 DEF Unsubscribe, ReaderGoes, Registered
  <1>4. CASE DeleteParticipant
    BY <1>1, <1>4 DEF DeleteParticipant, ReaderGoes
  <1>5. CASE UNCHANGED <<reader, replaced>>
    BY <1>1, <1>5
  <1> QED
    BY <1>1, <1>2, <1>3, <1>4, <1>5
       DEF Next, Discover, TakeBegins, TakeEnds, TakesNothing, AsyncSend,
       CloseCb, AsyncBegins, AsyncEnds, readerVars

\* The only listener with an open handle, while no listener was displaced and
\* the participant lives, is that of the reader.
LEMMA OnlyListener ==
  ASSUME TypeOK, Registered, replaced = {}, reader # "deleted",
         NEW l \in Listeners, handle[l] = "open"
  PROVE  current = l /\ reader = "live"
  BY PBITAssumption DEF TypeOK, Registered

\* And no thread is in another.
LEMMA OnlyWithin ==
  ASSUME TypeOK, Fresh, Registered, replaced = {}, reader # "deleted",
         NEW l \in Listeners, handle[l] = "open",
         NEW t \in Threads, dds[t] # "idle"
  PROVE  within[t] = l
  <1>1. within[t] \in Listeners /\ handle[within[t]] # None
    BY DEF TypeOK, Fresh
  <1>2. handle[within[t]] \in {"open", "closing", "closed"}
    BY <1>1 DEF TypeOK
  <1>3. current = l /\ reader = "live"
    BY OnlyListener
  <1>4. CASE handle[within[t]] = "open"
    BY <1>1, <1>3, <1>4, OnlyListener
  <1>5. CASE handle[within[t]] \in {"closing", "closed"}
    BY <1>1, <1>3, <1>5 DEF Registered
  <1> QED
    BY <1>2, <1>4, <1>5

LEMMA FilledStep ==
  ASSUME TypeOK, Fresh, Registered, Stored, Filled, Next
  PROVE  Filled'
  <1> DEFINE Incomplete(l) == infos_[l] = Nothing \/ part_data_[l] = Nothing
             Waiting(l) ==
                 (\E t \in Threads : dds[t] = "notify" /\ within[t] = l) =>
                     \/ \E p \in Participants : unread[p] # 0
                     \/ \E t \in Threads : dds[t] = "storing" /\ within[t] = l
             Silent(l) ==
                 /\ l \notin pending /\ reading # l
                 /\ \A t \in Threads : dds[t] = "sending" => within[t] # l
  <1>0. /\ fault = None /\ replaced \subseteq replaced'
        /\ reader = "deleted" => reader' = "deleted"
    BY OneWay
  <1> SUFFICES ASSUME NEW l \in Listeners, handle'[l] = "open",
                      replaced' = {}, reader' # "deleted", fault' = None,
                      Incomplete(l)'
               PROVE  Silent(l)' /\ Waiting(l)'
    BY DEF Filled
  <1>1. replaced = {} /\ reader # "deleted"
    BY <1>0
  <1>2. handle[l] = "open" /\ Incomplete(l) => Silent(l) /\ Waiting(l)
    BY <1>0, <1>1 DEF Filled
  <1>3. handle[l] = "open" =>
            /\ current = l /\ reader = "live"
            /\ \A t \in Threads : dds[t] # "idle" => within[t] = l
    BY <1>1, OnlyListener, OnlyWithin
  <1> USE PBITAssumption DEF TypeOK
  <1>4. ASSUME NEW t \in Threads, NEW p \in Participants, Discover(t, p)
        PROVE  Silent(l)' /\ Waiting(l)'
    <2>1. handle[l] = "open" /\ Incomplete(l) /\ current # None
      BY <1>3, <1>4 DEF Discover, sequences
    <2>2. unread'[p] # 0
      BY <1>4 DEF Discover
    <2> QED
      BY <1>2, <1>4, <2>1, <2>2 DEF Discover, loopVars
  <1>5. ASSUME NEW t \in Threads, NEW p \in Participants, TakeBegins(t, p)
        PROVE  Silent(l)' /\ Waiting(l)'
    <2>1. handle[l] = "open" /\ within[t] = l
      BY <1>3, <1>5 DEF TakeBegins
    <2>2. <<p, unread[p]>> # Nothing
      BY <1>5 DEF TakeBegins, Nothing
    <2>3. Incomplete(l)
      BY <1>5, <2>1, <2>2 DEF TakeBegins
    <2>4. dds'[t] = "storing" /\ within'[t] = l
      BY <1>5, <2>1 DEF TakeBegins
    <2> QED
      BY <1>2, <1>5, <2>1, <2>3, <2>4 DEF TakeBegins, loopVars
  <1>6. ASSUME NEW t \in Threads, TakeEnds(t) PROVE FALSE
    <2>1. handle[l] = "open" /\ within[t] = l /\ sample[t] # Nothing
      BY <1>3, <1>6 DEF TakeEnds, Stored
    <2> QED
      BY <1>6, <2>1 DEF TakeEnds
  <1>7. ASSUME NEW t \in Threads, TakesNothing(t) PROVE FALSE
    <2>1. handle[l] = "open" /\ within[t] = l /\ Incomplete(l)
      BY <1>3, <1>7 DEF TakesNothing, sequences
    <2> QED
      BY <1>2, <1>7, <2>1 DEF TakesNothing
  <1>8. ASSUME NEW t \in Threads, AsyncSend(t) PROVE FALSE
    <2>1. handle[l] = "open" /\ within[t] = l /\ Incomplete(l)
      BY <1>3, <1>8 DEF AsyncSend, SendsFrom, sequences
    <2> QED
      BY <1>2, <1>8, <2>1 DEF AsyncSend, SendsFrom
  <1>9. ASSUME NEW m \in Listeners, Subscribe(m)
        PROVE  Silent(l)' /\ Waiting(l)'
    <2>1. current = None
      BY <1>9 DEF Subscribe
    <2>2. l = m
      BY <1>3, <1>9, <2>1 DEF Subscribe
    <2> QED
      BY <1>9, <2>2 DEF Subscribe, Fresh, threadVars, loopVars
  <1>10. CASE Unsubscribe
    BY <1>3, <1>10 DEF Unsubscribe, Closing
  <1>11. CASE DeleteParticipant
    BY <1>11 DEF DeleteParticipant
  <1>12. ASSUME NEW m \in Listeners, CloseCb(m)
         PROVE  Silent(l)' /\ Waiting(l)'
    BY <1>2, <1>12 DEF CloseCb, readerVars, sequences, threadVars, loopVars
  <1>13. ASSUME NEW m \in Listeners, AsyncBegins(m)
         PROVE  Silent(l)' /\ Waiting(l)'
    <2>1. /\ handle[l] = "open" /\ Incomplete(l)
          /\ m \in pending /\ reading' = m /\ pending' = pending \ {m}
          /\ UNCHANGED <<unread, dds, within>>
      BY <1>0, <1>13 DEF AsyncBegins, None, readerVars, sequences, threadVars
    <2> QED
      BY <1>2, <2>1
  <1>14. CASE AsyncEnds
    <2>1. /\ handle[l] = "open" /\ Incomplete(l) /\ reading' = None
          /\ UNCHANGED <<unread, dds, within, pending>>
      BY <1>14 DEF AsyncEnds, readerVars, sequences, threadVars
    <2> QED
      BY <1>2, <2>1
  <1> QED
    BY <1>4, <1>5, <1>6, <1>7, <1>8, <1>9, <1>10, <1>11, <1>12, <1>13, <1>14
       DEF Next

-----------------------------------------------------------------------------
(* What async() finds.                                                     *)

LEMMA FindsStep ==
  ASSUME TypeOK, Registered, Filled, AsyncFindsSample, Next
  PROVE  AsyncFindsSample'
  <1> USE PBITAssumption DEF TypeOK
  <1>0. /\ fault = None /\ replaced \subseteq replaced'
        /\ reader = "deleted" => reader' = "deleted"
    BY OneWay
  <1>1. CASE fault' = None
    BY <1>1 DEF AsyncFindsSample
  <1>2. ASSUME NEW l \in Listeners, AsyncBegins(l) PROVE AsyncFindsSample'
    <2> SUFFICES ASSUME fault' # None, replaced = {}, reader # "deleted"
                 PROVE  FALSE
      BY <1>0 DEF AsyncFindsSample
    <2>1. l \in pending /\ handle[l] = "open" /\ current = l
      BY <1>2, OnlyListener DEF AsyncBegins
    <2>2. ~Freed(l)
      BY <2>1 DEF Freed
    <2>3. infos_[l] = Nothing
      BY <1>0, <1>2, <2>2 DEF AsyncBegins
    <2> QED
      BY <1>0, <2>1, <2>3 DEF Filled
  <1>3. CASE AsyncEnds
    <2> SUFFICES ASSUME fault' # None, replaced = {}, reader # "deleted"
                 PROVE  FALSE
      BY <1>0 DEF AsyncFindsSample
    <2>1. /\ reading \in Listeners /\ handle[reading] = "open"
          /\ part_data_[reading] = Nothing
      BY <1>0, <1>3 DEF AsyncEnds, Registered
    <2> QED
      BY <1>0, <2>1 DEF Filled
  <1>4. CASE UNCHANGED fault
    BY <1>0, <1>1, <1>4
  <1> QED
    BY <1>2, <1>3, <1>4 DEF Next, Discover, TakeBegins, TakeEnds, TakesNothing,
       AsyncSend, Subscribe, Unsubscribe, DeleteParticipant, CloseCb, loopVars

-----------------------------------------------------------------------------
(* The backlog.                                                            *)

Unread == {p \in Participants : unread[p] # 0}
Notified == {t \in Threads : dds[t] = "notify"}

\* The two are finite, so their sizes can be compared.
LEMMA SizesAreNumbers ==
  /\ IsFiniteSet(Unread) /\ Cardinality(Unread) \in Nat
  /\ IsFiniteSet(Notified) /\ Cardinality(Notified) \in Nat
  <1>1. Unread \subseteq Participants /\ Notified \subseteq Threads
    BY DEF Unread, Notified
  <1> QED
    BY <1>1, PBITAssumption, FS_Subset, FS_CardinalityType

LEMMA BacklogStep ==
  ASSUME TypeOK, BacklogBounded, Next
  PROVE  BacklogBounded'
  <1> DEFINE U == Cardinality(Unread)
             N == Cardinality(Notified)
  <1>0. /\ U <= backlog + N /\ U \in Nat /\ N \in Nat /\ backlog \in Nat
        /\ IsFiniteSet(Unread) /\ IsFiniteSet(Notified)
    BY SizesAreNumbers DEF TypeOK, BacklogBounded, Unread, Notified
  <1> SUFFICES Cardinality(Unread') <= backlog' + Cardinality(Notified')
    BY DEF BacklogBounded, Unread, Notified
  <1> HIDE DEF U, N
  <1> USE PBITAssumption DEF TypeOK
  <1>1. ASSUME NEW t \in Threads, NEW p \in Participants, Discover(t, p)
        PROVE  Cardinality(Unread') <= backlog' + Cardinality(Notified')
    <2>1. Unread' = Unread \cup {p} /\ (p \in Unread <=> unread[p] # 0)
      BY <1>1 DEF Discover, Unread
    <2>2. Cardinality(Unread') = IF unread[p] = 0 THEN U + 1 ELSE U
      BY <1>0, <2>1, FS_AddElement DEF U
    <2>3. CASE current # None
      <3>1. Notified' = Notified \cup {t} /\ t \notin Notified
        BY <1>1, <2>3 DEF Discover, Notified
      <3>2. Cardinality(Notified') = N + 1 /\ UNCHANGED backlog
        BY <1>0, <1>1, <2>3, <3>1, FS_AddElement DEF Discover, N
      <3> QED
        BY <1>0, <2>2, <3>2
    <2>4. CASE current = None
      <3>1. Notified' = Notified
        BY <1>1, <2>4 DEF Discover, Notified
      <3>2. backlog' = IF unread[p] = 0 THEN backlog + 1 ELSE backlog
        BY <1>1, <2>4 DEF Discover
      <3> QED
        BY <1>0, <2>2, <3>1, <3>2 DEF N
    <2> QED
      BY <2>3, <2>4
  <1>2. ASSUME NEW t \in Threads, NEW p \in Participants, TakeBegins(t, p)
        PROVE  Cardinality(Unread') <= backlog' + Cardinality(Notified')
    <2>1. Unread' = Unread \ {p} /\ p \in Unread
      BY <1>2 DEF TakeBegins, ReadAndKept, Unread
    <2>2. Notified' = Notified \ {t} /\ t \in Notified
      BY <1>2 DEF TakeBegins, Notified
    <2>3. Cardinality(Unread') = U - 1 /\ Cardinality(Notified') = N - 1
      BY <1>0, <2>1, <2>2, FS_RemoveElement DEF U, N
    <2> QED
      BY <1>0, <1>2, <2>3 DEF TakeBegins
  <1>3. ASSUME Unread' = {}, backlog' = backlog
        PROVE  Cardinality(Unread') <= backlog' + Cardinality(Notified')
    <2>1. Cardinality(Unread') = 0
      BY <1>3, FS_EmptySet
    <2>2. Notified' \subseteq Threads
      BY DEF Notified
    <2>3. Cardinality(Notified') \in Nat
      BY <2>2, FS_Subset, FS_CardinalityType
    <2> QED
      BY <1>0, <1>3, <2>1, <2>3
  <1>4. ASSUME NEW t \in Threads, TakesNothing(t)
        PROVE  Cardinality(Unread') <= backlog' + Cardinality(Notified')
    BY <1>3, <1>4 DEF TakesNothing, readerVars, Unread
  <1>5. CASE Unsubscribe \/ DeleteParticipant
    BY <1>3, <1>5 DEF Unsubscribe, DeleteParticipant, ReaderGoes, Unread
  <1>6. ASSUME UNCHANGED <<unread, backlog>>, Notified' = Notified
        PROVE  Cardinality(Unread') <= backlog' + Cardinality(Notified')
    BY <1>0, <1>6 DEF U, N, Unread
  <1>7. ASSUME NEW t \in Threads, TakeEnds(t) \/ AsyncSend(t)
        PROVE  Cardinality(Unread') <= backlog' + Cardinality(Notified')
    <2>1. Notified' = Notified
      BY <1>7 DEF TakeEnds, AsyncSend, SendsFrom, Notified
    <2> QED
      BY <1>6, <1>7, <2>1 DEF TakeEnds, AsyncSend, readerVars
  <1>8. CASE UNCHANGED <<unread, backlog, dds>>
    BY <1>6, <1>8 DEF Notified
  <1> QED
    BY <1>1, <1>2, <1>4, <1>5, <1>7, <1>8 DEF Next, Subscribe, CloseCb,
       AsyncBegins, AsyncEnds, readerVars, threadVars

-----------------------------------------------------------------------------

LEMMA NextInv == IInv /\ [Next]_vars => IInv'
  <1>1. ASSUME IInv, Next PROVE IInv'
    BY <1>1, TypeStep, FreshStep, RegisteredStep, ToldStep, StoredStep,
       FilledStep, FindsStep, BacklogStep DEF IInv
  <1>2. ASSUME IInv, UNCHANGED vars PROVE IInv'
    <2> USE <1>2 DEF IInv, vars, readerVars, sequences, threadVars, loopVars
    <2>1. TypeOK' /\ Fresh' /\ Registered' /\ AsyncFindsSample'
      BY DEF TypeOK, Fresh, Registered, AsyncFindsSample
    <2>2. Told' /\ Stored' /\ Filled' /\ BacklogBounded'
      BY DEF Told, Stored, Filled, BacklogBounded
    <2> QED
      BY <2>1, <2>2
  <1> QED
    BY <1>1, <1>2

LEMMA Invariance == Spec => []IInv
  BY InitInv, NextInv, PTL DEF Spec

-----------------------------------------------------------------------------
(* The theorems.                                                           *)

\* Every value has its type.
THEOREM TypeCorrect == Spec => []TypeOK
  <1>1. IInv => TypeOK
    BY DEF IInv
  <1> QED
    BY <1>1, Invariance, PTL

\* When the threads are out of a listener and its sends dispatched, the
\* program knows the last sample taken (src/NodePBITListener.cpp:95, 106).
THEOREM LastSampleIsTold == Spec => []SettledIsCurrent
  <1>1. IInv => SettledIsCurrent
    BY DEF IInv, Told, SettledIsCurrent, Within
  <1> QED
    BY <1>1, Invariance, PTL

\* async() finds its listener and a sample, whichever order DDS threads and
\* the loop run in, unless the program displaced a listener or deleted the
\* participant (src/NodePBITListener.cpp:106).
THEOREM SampleIsFound == Spec => []AsyncFindsSample
  <1>1. IInv => AsyncFindsSample
    BY DEF IInv
  <1> QED
    BY <1>1, Invariance, PTL

\* The listener takes one sample each time it is called, and that is enough
\* (src/NodePBITListener.cpp:95).
THEOREM BacklogIsBounded == Spec => []BacklogBounded
  <1>1. IInv => BacklogBounded
    BY DEF IInv
  <1> QED
    BY <1>1, Invariance, PTL

\* How a listener can be freed before its handle is closed
\* (src/node-opendds.cpp:318).
THEOREM DanglingExplained == Spec => []DanglingHandlesExplained
  <1>1. IInv => DanglingHandlesExplained
    BY DEF IInv, Registered, Freed, DanglingHandlesExplained
  <1> QED
    BY <1>1, Invariance, PTL
=============================================================================
