------------------------- MODULE NodeOpenDDSProofs -------------------------
(***************************************************************************)
(* Proofs about the add-on, each with an invariant of its own:             *)
(*   IInv          how often OpenDDS was asked to delete a participant:    *)
(*                 only factory, vector, participants and objects matter;  *)
(*   HandleInv     the state of a reader says what its handle and its      *)
(*                 participant are, and so what may free a listener;       *)
(*   WorkersMatch  how many workers a reader in a state can have;          *)
(*   OwnInv        what a participant owns is what its readers and writers *)
(*                 took and failed calls left behind. It needs HandleInv:  *)
(*                 the participant of a reader that is unsubscribed lives. *)
(* At the end, that each reader's part implements ListenerLife and each    *)
(* participant's ParticipantEntities.                                      *)
(***************************************************************************)
EXTENDS NodeOpenDDS, FiniteSetTheorems, TLAPS

RegistryType ==
    /\ participants_ \subseteq Participants
    /\ part \in [Participants -> {"none", "live", "deleted"}]
    /\ deletions \in [Participants -> Nat]
    /\ cleared \subseteq Participants

\* How often OpenDDS was asked to delete p. What delete_participant() did not
\* delete, finalize() did; the program may then do so, too.
DeletedAsCalled(p) ==
    CASE part[p] # "deleted" -> deletions[p] = 0 /\ p \notin cleared
      [] part[p] = "deleted" /\ p \notin cleared ->
             deletions[p] = 1 /\ factory = "final"
      [] part[p] = "deleted" /\ p \in cleared -> deletions[p] \in {1, 2}

AllDeletedAsCalled == \A p \in Participants : DeletedAsCalled(p)

Registered == participants_ = {p \in Participants : part[p] = "live"}

NoneAtTheEnd ==
    factory \notin {"none", "live"} => \A p \in Participants : part[p] # "live"

IInv == RegistryType /\ AllDeletedAsCalled /\ Registered /\ NoneAtTheEnd

\* At first there is no participant.
LEMMA InitInv == Init => IInv
  BY DEF Init, IInv, RegistryType, AllDeletedAsCalled, DeletedAsCalled,
         Registered, NoneAtTheEnd

\* A step that leaves the registry alone keeps its invariant.
LEMMA RegistryUnchanged ==
  ASSUME IInv, UNCHANGED registryVars
  PROVE  IInv'
  BY DEF registryVars, IInv, RegistryType, AllDeletedAsCalled, DeletedAsCalled,
         Registered, NoneAtTheEnd

\* Every step preserves the invariant.
LEMMA NextInv == IInv /\ [Next]_vars => IInv'
  <1> SUFFICES ASSUME IInv, [Next]_vars PROVE IInv'
    OBVIOUS
  <1>1. CASE initialize
    BY <1>1 DEF initialize, IInv, RegistryType, AllDeletedAsCalled,
                DeletedAsCalled, Registered, NoneAtTheEnd
  <1>2. CASE \E p \in Participants : create_participant(p)
    <2> PICK p \in Participants : create_participant(p)
      BY <1>2
    <2>1. /\ factory = "live" /\ factory' = "live"
          /\ part[p] = "none" /\ part' = [part EXCEPT ![p] = "live"]
          /\ participants_' = participants_ \cup {p}
          /\ deletions' = deletions /\ cleared' = cleared
      BY DEF create_participant
    <2>2. RegistryType' /\ Registered'
      BY <2>1 DEF IInv, RegistryType, Registered
    <2>3. AllDeletedAsCalled' /\ NoneAtTheEnd'
      BY <2>1 DEF IInv, RegistryType, AllDeletedAsCalled, DeletedAsCalled,
                  NoneAtTheEnd
    <2> QED
      BY <2>2, <2>3 DEF IInv
  <1>3. CASE \E p \in Participants : delete_participant(p)
    <2> PICK p \in Participants : delete_participant(p)
      BY <1>3
    <2>1. /\ part[p] # "none" /\ p \notin cleared
          /\ cleared' = cleared \cup {p}
          /\ participants_' = participants_ \ {p}
          /\ part' = [q \in Participants |->
                         IF q \in {p} THEN "deleted" ELSE part[q]]
          /\ deletions' = [q \in Participants |->
                 IF q \in {p} THEN deletions[q] + 1 ELSE deletions[q]]
          /\ factory' = factory
      BY DEF delete_participant, Erase, DeleteAll
    <2>2. RegistryType'
      BY <2>1 DEF IInv, RegistryType
    <2>3. ASSUME NEW q \in Participants, q # p PROVE DeletedAsCalled(q)'
      BY <2>1, <2>3 DEF IInv, AllDeletedAsCalled, DeletedAsCalled
    <2>4. DeletedAsCalled(p)'
      <3>1. part'[p] = "deleted" /\ p \in cleared'
            /\ deletions'[p] = deletions[p] + 1
        BY <2>1
      <3>2. deletions[p] \in {0, 1}
        BY <2>1 DEF IInv, RegistryType, AllDeletedAsCalled, DeletedAsCalled
      <3> QED
        BY <3>1, <3>2 DEF DeletedAsCalled
    <2>5. Registered' /\ NoneAtTheEnd'
      BY <2>1 DEF IInv, Registered, NoneAtTheEnd
    <2> QED
      BY <2>2, <2>3, <2>4, <2>5 DEF IInv, AllDeletedAsCalled
  <1>4. CASE finalize
    <2>1. /\ factory' = "final" /\ participants_' = {} /\ cleared' = cleared
          /\ part' = [q \in Participants |->
                         IF q \in participants_ THEN "deleted" ELSE part[q]]
          /\ deletions' = [q \in Participants |->
                 IF q \in participants_ THEN deletions[q] + 1
                 ELSE deletions[q]]
      BY <1>4 DEF finalize, DeleteAll
    <2>2. \A q \in Participants : q \in participants_ <=> part[q] = "live"
      BY DEF IInv, Registered
    <2>3. RegistryType'
      BY <2>1 DEF IInv, RegistryType
    <2>4. ASSUME NEW q \in Participants PROVE DeletedAsCalled(q)'
      <3>1. DeletedAsCalled(q)
        BY DEF IInv, AllDeletedAsCalled
      <3>2. CASE part[q] = "live"
        <4>1. deletions[q] = 0 /\ q \notin cleared
          BY <3>1, <3>2 DEF DeletedAsCalled
        <4>2. part'[q] = "deleted" /\ deletions'[q] = 1
          BY <2>1, <2>2, <3>2, <4>1
        <4> QED
          BY <2>1, <4>1, <4>2 DEF DeletedAsCalled
      <3>3. CASE part[q] # "live"
        <4>1. part'[q] = part[q] /\ deletions'[q] = deletions[q]
          BY <2>1, <2>2, <3>3
        <4> QED
          BY <2>1, <3>1, <4>1 DEF DeletedAsCalled
      <3> QED
        BY <3>2, <3>3
    <2>5. Registered' /\ NoneAtTheEnd'
      BY <2>1, <2>2 DEF IInv, Registered, NoneAtTheEnd
    <2> QED
      BY <2>3, <2>4, <2>5 DEF IInv, AllDeletedAsCalled
  <1>5. CASE \E p \in Participants : create_datawriter(p)
    BY <1>5, RegistryUnchanged DEF create_datawriter
  <1>6. CASE \E p \in Participants : SubscribeFailsEarly(p)
    BY <1>6, RegistryUnchanged DEF SubscribeFailsEarly
  <1>7. CASE \E p \in Participants, r \in Readers : SubscribeFailsLate(p, r)
    BY <1>7, RegistryUnchanged DEF SubscribeFailsLate
  <1>8. CASE \E p \in Participants, r \in Readers : subscribe(p, r)
    BY <1>8, RegistryUnchanged DEF subscribe
  <1>9. CASE \E r \in Readers : unsubscribe(r)
    BY <1>9, RegistryUnchanged DEF unsubscribe, unsubscribe_now
  <1>15. CASE \E r \in Readers : UnsubscribeOrphan(r)
    BY <1>15, RegistryUnchanged DEF UnsubscribeOrphan
  <1>10. CASE \E r \in Readers : TakeBegins(r)
    BY <1>10, RegistryUnchanged DEF TakeBegins
  <1>11. CASE TakeEnds
    BY <1>11, RegistryUnchanged DEF TakeEnds
  <1>12. CASE \E r \in Readers : WorkerCallback(r)
    BY <1>12, RegistryUnchanged DEF WorkerCallback, unsubscribe_now
  <1>13. CASE \E r \in Readers : CloseCb(r)
    BY <1>13, RegistryUnchanged DEF CloseCb
  <1>14. CASE UNCHANGED vars
    BY <1>14, RegistryUnchanged DEF vars
  <1> QED
    BY <1>1, <1>2, <1>3, <1>4, <1>5, <1>6, <1>7, <1>8, <1>9, <1>10, <1>11,
       <1>12, <1>13, <1>14, <1>15 DEF Next

\* The invariant holds in every reachable state.
THEOREM Invariance == Spec => []IInv
  BY InitInv, NextInv, PTL DEF Spec

\* However delete_participant() (src/node-opendds.cpp:134-145) and finalize()
\* (:737-748) follow each other, participants_ holds the participants that
\* live, finalize() leaves none and deletes none a second time, and
\* delete_participant() does so, once, only to what finalize() deleted.
THEOREM DeletedAgainByProgramOnly == Spec => DeletionsExplained
  <1> DEFINE
        Counts == /\ participants_ = {p \in Participants : part[p] = "live"}
                  /\ factory = "final" => participants_ = {}
                  /\ \A p \in Participants : deletions[p] <= 2
        Again == \A p \in Participants :
                    part[p] = "deleted" /\ deletions'[p] # deletions[p] =>
                        factory = "final" /\ p \notin cleared
  <1>1. IInv => Counts
    <2> SUFFICES ASSUME IInv PROVE Counts
      OBVIOUS
    <2>1. ASSUME NEW p \in Participants PROVE deletions[p] <= 2
      <3>1. deletions[p] \in {0, 1, 2}
        BY DEF IInv, RegistryType, AllDeletedAsCalled, DeletedAsCalled
      <3> QED
        BY <3>1
    <2> QED
      BY <2>1 DEF IInv, Registered, NoneAtTheEnd
  <1>2. IInv /\ [Next]_vars => [Again]_vars
    <2> SUFFICES ASSUME IInv, Next, NEW p \in Participants,
                        part[p] = "deleted", deletions'[p] # deletions[p]
                 PROVE  factory = "final" /\ p \notin cleared
      OBVIOUS
    <2>1. CASE UNCHANGED deletions
      BY <2>1
    <2>2. CASE finalize
      BY <2>2 DEF finalize, DeleteAll, IInv, Registered
    <2>3. ASSUME NEW q \in Participants, delete_participant(q)
          PROVE  factory = "final" /\ p \notin cleared
      <3>1. p = q /\ p \notin cleared
        BY <2>3 DEF delete_participant, DeleteAll
      <3> QED
        BY <3>1 DEF IInv, AllDeletedAsCalled, DeletedAsCalled
    <2> QED
      BY <2>1, <2>2, <2>3
      DEF Next, initialize, create_participant, create_datawriter,
          SubscribeFailsEarly, SubscribeFailsLate, subscribe, unsubscribe,
          unsubscribe_now, UnsubscribeOrphan, TakeBegins, TakeEnds,
          WorkerCallback, CloseCb, registryVars
  <1> HIDE DEF Counts, Again
  <1>3. Spec => []Counts /\ [][Again]_vars
    BY <1>1, <1>2, Invariance, PTL DEF Spec
  <1>4. DeletionsExplained <=> []Counts /\ [][Again]_vars
    BY DEF DeletionsExplained, Counts, Again
  <1> QED
    BY <1>3, <1>4, PTL

-----------------------------------------------------------------------------
(* Readers, their handles and the reader async() takes from.               *)

ReaderType ==
    /\ reader \in [Readers -> ReaderStates]
    /\ owner \in [Readers -> Participants \cup {None}]
    /\ handle \in [Readers -> {None, "open", "closing", "closed"}]
    /\ taking \in Readers \cup {None}

ByState ==
    \A r \in Readers :
        /\ reader[r] \in {"live", "stopping"} =>
               /\ owner[r] \in Participants /\ part[owner[r]] = "live"
               /\ handle[r] = "open"
        /\ reader[r] = "unused" => handle[r] = None
        /\ reader[r] = "closed" => handle[r] \in {"closing", "closed"}
        /\ reader[r] = "orphan" =>
               owner[r] \in Participants /\ part[owner[r]] = "deleted"

Kept == taking # None => Has(taking) \/ reader[taking] = "orphan"

FaultExplained ==
    fault = "take" => \E r \in Readers : Freed(r) /\ reader[r] = "orphan"

HandleInv == ReaderType /\ ByState /\ Kept /\ FaultExplained

\* At first there is no reader.
LEMMA InitHandles == Init => HandleInv
  BY DEF Init, HandleInv, ReaderType, ReaderStates, ByState, Kept,
         FaultExplained, None

\* Deleting participants makes orphans of their readers.
LEMMA DeleteAllHandles ==
  ASSUME RegistryType, HandleInv, NEW D \in SUBSET Participants, DeleteAll(D),
         fault = None
  PROVE  HandleInv'
  <1> USE NamesAssumption DEF HandleInv, ReaderType, RegistryType
  <1>1. /\ part' = [p \in Participants |->
                       IF p \in D THEN "deleted" ELSE part[p]]
        /\ reader' = [r \in Readers |->
                         IF owner[r] \in D /\ Has(r) THEN "orphan"
                         ELSE reader[r]]
        /\ UNCHANGED <<owner, handle, taking, fault>>
    BY DEF DeleteAll, runVars
  <1>2. ReaderType'
    BY <1>1 DEF ReaderStates
  <1>3. ByState'
    <2> SUFFICES ASSUME NEW r \in Readers
                 PROVE  /\ reader'[r] \in {"live", "stopping"} =>
                              /\ owner[r] \in Participants
                              /\ part'[owner[r]] = "live"
                              /\ handle[r] = "open"
                        /\ reader'[r] = "unused" => handle[r] = None
                        /\ reader'[r] = "closed" =>
                              handle[r] \in {"closing", "closed"}
                        /\ reader'[r] = "orphan" =>
                              /\ owner[r] \in Participants
                              /\ part'[owner[r]] = "deleted"
      BY <1>1 DEF ByState
    <2>1. CASE owner[r] \in D /\ Has(r)
      BY <1>1, <2>1
    <2>2. CASE ~(owner[r] \in D /\ Has(r))
      BY <1>1, <2>2 DEF ByState, Has
    <2> QED
      BY <2>1, <2>2
  <1>4. Kept'
    BY <1>1 DEF Kept, Has
  <1>5. FaultExplained'
    BY <1>1 DEF FaultExplained, None
  <1> QED
    BY <1>2, <1>3, <1>4, <1>5

\* A subscription ends whose reader async() does not take from.
LEMMA UnsubscribeHandles ==
  ASSUME HandleInv, NEW r \in Readers, taking # r, fault = None, Has(r),
         unsubscribe_now(r), UNCHANGED <<taking, fault>>
  PROVE  HandleInv'
  <1> USE DEF HandleInv, ReaderType
  <1>1. /\ reader' = [reader EXCEPT ![r] = "closed"]
        /\ handle' = [handle EXCEPT ![r] = "closing"]
        /\ UNCHANGED <<owner, part>>
    BY DEF unsubscribe_now, HandleClosed, registryVars
  <1>2. ReaderType' /\ ByState'
    BY <1>1 DEF ByState, ReaderStates
  <1>3. Kept' /\ FaultExplained'
    BY <1>1 DEF Kept, Has, FaultExplained, None
  <1> QED
    BY <1>2, <1>3

\* Every step preserves the invariant.
LEMMA NextHandles == RegistryType /\ HandleInv /\ [Next]_vars => HandleInv'
  <1> SUFFICES ASSUME RegistryType, HandleInv, [Next]_vars PROVE HandleInv'
    OBVIOUS
  <1> USE NamesAssumption DEF HandleInv, ReaderType, RegistryType
  <1>1. ASSUME UNCHANGED <<part, readerVars, taking, fault>> PROVE HandleInv'
    BY <1>1 DEF readerVars, ByState, Kept, Has, FaultExplained, Freed
  <1>2. CASE initialize
    BY <1>1, <1>2 DEF initialize, runVars
  <1>3. ASSUME NEW p \in Participants, create_participant(p) PROVE HandleInv'
    <2>1. /\ part[p] = "none" /\ part' = [part EXCEPT ![p] = "live"]
          /\ UNCHANGED <<reader, owner, handle, taking, fault>>
      BY <1>3 DEF create_participant, readerVars, runVars
    <2> QED
      BY <2>1 DEF ByState, Kept, Has, FaultExplained, Freed
  <1>4. ASSUME NEW p \in Participants, delete_participant(p) PROVE HandleInv'
    BY <1>4, DeleteAllHandles DEF delete_participant, Running
  <1>5. CASE finalize
    BY <1>5, DeleteAllHandles DEF finalize, Running
  <1>6. ASSUME NEW p \in Participants,
               create_datawriter(p) \/ SubscribeFailsEarly(p)
        PROVE  HandleInv'
    BY <1>1, <1>6 DEF create_datawriter, SubscribeFailsEarly, registryVars,
                      runVars
  <1>7. ASSUME NEW p \in Participants, NEW r \in Readers,
               SubscribeFailsLate(p, r)
        PROVE  HandleInv'
    <2>1. /\ reader[r] = "unused" /\ reader' = [reader EXCEPT ![r] = "failed"]
          /\ owner' = [owner EXCEPT ![r] = p]
          /\ handle' = [handle EXCEPT ![r] = "open"]
          /\ fault = None /\ UNCHANGED <<part, taking, fault>>
      BY <1>7 DEF SubscribeFailsLate, Running, registryVars, runVars
    <2>2. ReaderType' /\ ByState'
      BY <2>1 DEF ByState, ReaderStates
    <2>3. Kept' /\ FaultExplained'
      BY <2>1 DEF Kept, Has, FaultExplained, None
    <2> QED
      BY <2>2, <2>3
  <1>8. ASSUME NEW p \in Participants, NEW r \in Readers, subscribe(p, r)
        PROVE  HandleInv'
    <2>1. /\ reader[r] = "unused" /\ reader' = [reader EXCEPT ![r] = "live"]
          /\ owner' = [owner EXCEPT ![r] = p] /\ part[p] = "live"
          /\ handle' = [handle EXCEPT ![r] = "open"]
          /\ fault = None /\ UNCHANGED <<part, taking, fault>>
      BY <1>8 DEF subscribe, Running, registryVars, runVars
    <2>2. ReaderType' /\ ByState'
      BY <2>1 DEF ByState, ReaderStates
    <2>3. Kept' /\ FaultExplained'
      BY <2>1 DEF Kept, Has, FaultExplained, None
    <2> QED
      BY <2>2, <2>3
  <1>9. ASSUME NEW r \in Readers, unsubscribe(r) PROVE HandleInv'
    <2>1. fault = None /\ Has(r) /\ UNCHANGED <<taking, fault>>
      BY <1>9 DEF unsubscribe, Running, runVars
    <2>2. CASE Defers(r)
      <3>1. /\ reader' = [reader EXCEPT ![r] = "stopping"]
            /\ UNCHANGED <<owner, handle, part>>
        BY <1>9, <2>2 DEF unsubscribe, registryVars
      <3>2. ReaderType' /\ ByState'
        BY <2>1, <3>1 DEF ByState, ReaderStates, Has
      <3>3. Kept' /\ FaultExplained'
        BY <2>1, <3>1 DEF Kept, Has, FaultExplained, None
      <3> QED
        BY <3>2, <3>3
    <2>3. CASE ~Defers(r)
      BY <1>9, <2>1, <2>3, UnsubscribeHandles DEF unsubscribe, Defers
    <2> QED
      BY <2>2, <2>3
  <1>15. ASSUME NEW r \in Readers, UnsubscribeOrphan(r) PROVE HandleInv'
    <2>1. fault' = "unsubscribe" /\ UNCHANGED <<part, readerVars, taking>>
      BY <1>15 DEF UnsubscribeOrphan, registryVars
    <2> QED
      BY <2>1 DEF readerVars, ByState, Kept, Has, FaultExplained
  <1>10. ASSUME NEW r \in Readers, TakeBegins(r) PROVE HandleInv'
    <2>1. /\ reader[r] \in {"live", "stopping"} /\ taking' = r /\ fault = None
          /\ UNCHANGED <<part, reader, owner, handle, fault>>
      BY <1>10 DEF TakeBegins, WasPending, Running, registryVars, readerVars
    <2> QED
      BY <2>1 DEF ByState, Kept, Has, FaultExplained, None
  <1>11. CASE TakeEnds
    <2>1. /\ taking \in Readers /\ taking' = None /\ fault = None
          /\ IF Freed(taking) THEN fault' = "take" ELSE fault' = fault
          /\ UNCHANGED <<part, reader, owner, handle>>
      BY <1>11 DEF TakeEnds, Running, registryVars, readerVars
    <2>2. ReaderType' /\ ByState' /\ Kept'
      BY <2>1 DEF ByState, Kept
    <2>3. FaultExplained'
      BY <2>1 DEF Kept, Freed, Has, FaultExplained, None
    <2> QED
      BY <2>2, <2>3
  <1>12. ASSUME NEW r \in Readers, WorkerCallback(r) PROVE HandleInv'
    <2>1. taking = None /\ fault = None /\ UNCHANGED taking
      BY <1>12 DEF WorkerCallback, Running
    <2>2. CASE unsubscribe_now(r) /\ Has(r) /\ fault' = fault
      BY <2>1, <2>2, UnsubscribeHandles
    <2>3. CASE /\ UNCHANGED <<registryVars, readerVars>>
               /\ fault' \in {fault, "worker"}
      BY <2>1, <2>3 DEF registryVars, readerVars, ByState, Kept, Has,
                        FaultExplained, None
    <2> QED
      BY <1>12, <2>2, <2>3 DEF WorkerCallback
  <1>13. ASSUME NEW r \in Readers, CloseCb(r) PROVE HandleInv'
    <2>1. /\ handle[r] = "closing" /\ handle' = [handle EXCEPT ![r] = "closed"]
          /\ fault = None /\ UNCHANGED <<part, reader, owner, taking, fault>>
      BY <1>13 DEF CloseCb, Running, registryVars, runVars
    <2>2. ReaderType' /\ ByState'
      BY <2>1 DEF ByState, None
    <2>3. Kept' /\ FaultExplained'
      BY <2>1 DEF Kept, Has, FaultExplained, None
    <2> QED
      BY <2>2, <2>3
  <1>14. CASE UNCHANGED vars
    BY <1>1, <1>14 DEF vars, registryVars, runVars
  <1> QED
    BY <1>2, <1>3, <1>4, <1>5, <1>6, <1>7, <1>8, <1>9, <1>10, <1>11, <1>12,
       <1>13, <1>14, <1>15 DEF Next

LEMMA HandleInvariance == Spec => []HandleInv
  <1>1. IInv => RegistryType
    BY DEF IInv
  <1> QED
    BY <1>1, InitHandles, NextHandles, Invariance, PTL DEF Spec

\* A listener is freed before its handle is closed only where subscribe() threw
\* (src/node-opendds.cpp:266) or the participant was deleted (:142).
THEOREM DanglingExplained == Spec => []DanglingHandlesExplained
  <1>1. HandleInv => DanglingHandlesExplained
    BY DEF HandleInv, ReaderType, ReaderStates, ByState, Freed, Has,
           DanglingHandlesExplained, None
  <1> QED
    BY <1>1, HandleInvariance, PTL

\* The reader async() takes from keeps its listener whatever its callbacks
\* unsubscribe (src/NodeDRListener.cpp:140), unless they delete the participant.
THEOREM TakingReaderStays == Spec => []TakingReaderIsKept
  <1>1. HandleInv => TakingReaderIsKept
    BY DEF HandleInv, ReaderType, ByState, Kept, FaultExplained,
           TakingReaderIsKept
  <1> QED
    BY <1>1, HandleInvariance, PTL

-----------------------------------------------------------------------------
(* The names of ContentFilteredTopics and the workers of a reader.         *)

\* The next name has one digit that is not zero, wherever it is.
OneDigitName == \E k \in Positions, e \in 1..9 : cft_name = SingleDigit(k, e)

\* A worker is made when async() ends on a reader that is stopping; async()
\* was dispatched for it with at most one made before.
WorkersMatch ==
    /\ workers \in [Readers -> 0..2]
    /\ \A r \in Readers :
           /\ reader[r] \in {"unused", "live"} => workers[r] = 0
           /\ taking = r => workers[r] <= 1

\* increment() turns a name with one digit that is not zero into another.
LEMMA NextName ==
  ASSUME NEW k \in Positions, NEW e \in 1..9
  PROVE  \E i \in Positions, d \in 1..9 :
             increment(SingleDigit(k, e)) = SingleDigit(i, d)
  <1> DEFINE name == SingleDigit(k, e)
  <1>1. name[k] = e /\ \A j \in Positions \ {k} : name[j] = 0
    BY DEF SingleDigit
  <1>2. FirstNonZero(name) = k
    <2>1. \A j \in 1..(k - 1) : j \in Positions \ {k}
      BY DigitsAssumption DEF Positions
    <2>2. IsFirstNonZero(name, k)
      BY <1>1, <2>1 DEF IsFirstNonZero
    <2>3. \A j : IsFirstNonZero(name, j) => j = k
      BY <1>1 DEF IsFirstNonZero
    <2> QED
      BY <2>2, <2>3 DEF FirstNonZero
  <1>3. CASE e # 9
    <2>1. [name EXCEPT ![k] = e + 1] = SingleDigit(k, e + 1)
      BY DEF SingleDigit
    <2>2. e + 1 \in 1..9
      BY <1>3
    <2> QED
      BY <1>1, <1>2, <1>3, <2>1, <2>2 DEF increment
  <1>4. CASE e = 9 /\ k = 1
    <2>1. increment(name) = SingleDigit(Digits, 1)
      BY <1>1, <1>2, <1>4 DEF increment, InitialName
    <2> QED
      BY <2>1, DigitsAssumption DEF Positions
  <1>5. CASE e = 9 /\ k # 1
    <2>1. k - 1 \in Positions /\ k - 1 # k
      BY <1>5, DigitsAssumption DEF Positions
    <2>2. Carry(name, k) = SingleDigit(k - 1, 1)
      BY <2>1 DEF Carry, SingleDigit
    <2>3. increment(name) = SingleDigit(k - 1, 1)
      BY <1>1, <1>2, <1>5, <2>2 DEF increment
    <2> QED
      BY <2>1, <2>3
  <1> QED
    BY <1>3, <1>4, <1>5

\* Such a name is a name.
LEMMA OneDigitIsName == OneDigitName => cft_name \in Names
  BY DEF OneDigitName, SingleDigit, Names

\* subscribe() keeps the names so, whether it uses a filter or not.
LEMMA ChoosesName ==
  ASSUME OneDigitName, NEW p \in Participants, NEW filtered \in BOOLEAN,
         NEW new, ChoosesTopic(p, filtered, new)
  PROVE  OneDigitName'
  <1>1. cft_name' \in {cft_name, increment(cft_name)}
    BY DEF ChoosesTopic
  <1>2. PICK k \in Positions, e \in 1..9 : cft_name = SingleDigit(k, e)
    BY DEF OneDigitName
  <1>3. PICK i \in Positions, d \in 1..9 :
          increment(cft_name) = SingleDigit(i, d)
    BY <1>2, NextName
  <1> QED
    BY <1>1, <1>2, <1>3 DEF OneDigitName

\* At first the name is 000001 and there is no worker.
LEMMA InitNames == Init => OneDigitName /\ WorkersMatch
  <1>1. Digits \in Positions /\ 1 \in 1..9
    BY DigitsAssumption DEF Positions
  <1> QED
    BY <1>1, NamesAssumption
    DEF Init, OneDigitName, InitialName, WorkersMatch, None

\* Every step keeps the names so.
LEMMA NextNames == OneDigitName /\ [Next]_vars => OneDigitName'
  <1> SUFFICES ASSUME OneDigitName, [Next]_vars PROVE OneDigitName'
    OBVIOUS
  <1>1. ASSUME UNCHANGED cft_name PROVE OneDigitName'
    BY <1>1 DEF OneDigitName
  <1>2. CASE initialize
    BY <1>1, <1>2 DEF initialize, ownedVars
  <1>3. CASE finalize
    BY <1>1, <1>3 DEF finalize, DeleteAll
  <1>4. ASSUME NEW p \in Participants,
               create_participant(p) \/ delete_participant(p)
                   \/ create_datawriter(p)
        PROVE  OneDigitName'
    BY <1>1, <1>4 DEF create_participant, delete_participant, DeleteAll,
                      create_datawriter, ownedVars
  <1>5. ASSUME NEW p \in Participants, SubscribeFailsEarly(p)
        PROVE  OneDigitName'
    BY <1>5, ChoosesName DEF SubscribeFailsEarly, ChoosesTopicInVain
  <1>6. ASSUME NEW p \in Participants, NEW r \in Readers,
               SubscribeFailsLate(p, r) \/ subscribe(p, r)
        PROVE  OneDigitName'
    BY <1>6, ChoosesName
    DEF SubscribeFailsLate, subscribe, ChoosesTopicInVain
  <1>7. ASSUME NEW r \in Readers, unsubscribe(r) \/ WorkerCallback(r)
        PROVE  OneDigitName'
    BY <1>1, <1>7 DEF unsubscribe, WorkerCallback, unsubscribe_now, ownedVars
  <1>8. ASSUME NEW r \in Readers,
               TakeBegins(r) \/ CloseCb(r) \/ UnsubscribeOrphan(r)
        PROVE  OneDigitName'
    BY <1>1, <1>8 DEF TakeBegins, CloseCb, UnsubscribeOrphan, ownedVars
  <1>9. CASE TakeEnds
    BY <1>1, <1>9 DEF TakeEnds, ownedVars
  <1>10. CASE UNCHANGED vars
    BY <1>1, <1>10 DEF vars, ownedVars
  <1> QED
    BY <1>2, <1>3, <1>4, <1>5, <1>6, <1>7, <1>8, <1>9, <1>10 DEF Next

\* Every step keeps the number of workers that goes with a reader's state.
LEMMA NextWorkers ==
  HandleInv /\ WorkersMatch /\ [Next]_vars => WorkersMatch'
  <1> SUFFICES ASSUME HandleInv, WorkersMatch, [Next]_vars
               PROVE  WorkersMatch'
    OBVIOUS
  <1> USE NamesAssumption DEF HandleInv, ReaderType
  <1>1. ASSUME UNCHANGED <<workers, taking>>,
               \A r \in Readers :
                   reader'[r] \in {"unused", "live"} =>
                       reader[r] \in {"unused", "live"}
        PROVE  WorkersMatch'
    BY <1>1 DEF WorkersMatch
  <1>2. CASE initialize
    BY <1>1, <1>2 DEF initialize, runVars, readerVars
  <1>3. ASSUME NEW D, DeleteAll(D) PROVE WorkersMatch'
    BY <1>1, <1>3 DEF DeleteAll, runVars
  <1>4. CASE finalize
    BY <1>3, <1>4 DEF finalize
  <1>5. ASSUME NEW p \in Participants, delete_participant(p)
        PROVE  WorkersMatch'
    BY <1>3, <1>5 DEF delete_participant
  <1>6. ASSUME NEW p \in Participants,
               create_participant(p) \/ create_datawriter(p)
                   \/ SubscribeFailsEarly(p)
        PROVE  WorkersMatch'
    BY <1>1, <1>6 DEF create_participant, create_datawriter,
                      SubscribeFailsEarly, runVars, readerVars
  <1>7. ASSUME NEW p \in Participants, NEW r \in Readers,
               SubscribeFailsLate(p, r) \/ subscribe(p, r)
        PROVE  WorkersMatch'
    BY <1>1, <1>7 DEF SubscribeFailsLate, subscribe, runVars
  <1>8. ASSUME NEW r \in Readers, unsubscribe(r) PROVE WorkersMatch'
    BY <1>1, <1>8 DEF unsubscribe, unsubscribe_now, runVars
  <1>14. ASSUME NEW r \in Readers, UnsubscribeOrphan(r) PROVE WorkersMatch'
    BY <1>1, <1>14 DEF UnsubscribeOrphan, readerVars
  <1>9. ASSUME NEW r \in Readers, TakeBegins(r) PROVE WorkersMatch'
    <2>1. /\ workers[r] <= 1 /\ taking' = r
          /\ UNCHANGED <<reader, workers>>
      BY <1>9 DEF TakeBegins, WasPending, WorkersMatch, readerVars
    <2> QED
      BY <2>1 DEF WorkersMatch
  <1>10. CASE TakeEnds
    <2>1. taking \in Readers /\ taking' = None /\ reader' = reader
      BY <1>10 DEF TakeEnds, readerVars
    <2>2. \/ workers' = workers
          \/ /\ reader[taking] = "stopping"
             /\ workers' = [workers EXCEPT ![taking] = @ + 1]
      BY <1>10 DEF TakeEnds, Plus
    <2> QED
      BY <2>1, <2>2 DEF WorkersMatch
  <1>11. ASSUME NEW r \in Readers, WorkerCallback(r) PROVE WorkersMatch'
    <2>1. /\ taking = None /\ taking' = None
          /\ workers[r] > 0 /\ workers' = [workers EXCEPT ![r] = @ + (-1)]
      BY <1>11 DEF WorkerCallback, Plus
    <2>2. reader' = reader \/ reader' = [reader EXCEPT ![r] = "closed"]
      BY <1>11 DEF WorkerCallback, unsubscribe_now, readerVars
    <2> QED
      BY <2>1, <2>2 DEF WorkersMatch
  <1>12. ASSUME NEW r \in Readers, CloseCb(r) PROVE WorkersMatch'
    BY <1>1, <1>12 DEF CloseCb, runVars
  <1>13. CASE UNCHANGED vars
    BY <1>1, <1>13 DEF vars, runVars, readerVars
  <1> QED
    BY <1>2, <1>4, <1>5, <1>6, <1>7, <1>8, <1>9, <1>10, <1>11, <1>12, <1>13,
       <1>14
    DEF Next

-----------------------------------------------------------------------------
(* What a participant owns. Used(p) are the names its readers hold and     *)
(* LeftBehind(p) those it owns that no reader will release.                *)

OwnedType ==
    /\ cfts \in [Participants -> SUBSET Names]
    /\ topics \in [Participants -> Nat]
    /\ subscribers \in [Participants -> Nat]
    /\ publishers \in [Participants -> Nat]
    /\ writers \in [Participants -> 0..MaxWriters]
    /\ failures \in [Participants -> 0..MaxFailures]
    /\ filter \in [Readers -> SUBSET Names]

Counted(p) ==
    /\ IsFiniteSet(ReadersOf(p))
    /\ topics[p] - Cardinality(ReadersOf(p)) - writers[p] \in 0..failures[p]
    /\ publishers[p] - writers[p] \in 0..failures[p]
    /\ subscribers[p] - Cardinality(ReadersOf(p)) \in 0..failures[p]

Used(p) == UNION {filter[r] : r \in ReadersOf(p)}
LeftBehind(p) == cfts[p] \ Used(p)

Filtered(p) ==
    /\ Used(p) \subseteq cfts[p]
    /\ \A r, s \in ReadersOf(p) : r # s => filter[r] \cap filter[s] = {}
    /\ IsFiniteSet(LeftBehind(p))
    /\ Cardinality(LeftBehind(p)) <= failures[p]

Balanced == \A p \in Participants : Counted(p) /\ Filtered(p)

\* A participant that a step neither adds to nor takes from stays balanced.
LEMMA BalancedElsewhere ==
  ASSUME NEW p \in Participants, Counted(p), Filtered(p),
         ReadersOf(p)' = ReadersOf(p),
         \A r \in ReadersOf(p) : filter'[r] = filter[r],
         topics'[p] = topics[p], subscribers'[p] = subscribers[p],
         publishers'[p] = publishers[p], writers'[p] = writers[p],
         failures'[p] = failures[p], cfts'[p] = cfts[p]
  PROVE  Counted(p)' /\ Filtered(p)'
  <1>1. Counted(p)'
    BY DEF Counted
  <1>2. Used(p)' = Used(p)
    BY DEF Used
  <1>3. LeftBehind(p)' = LeftBehind(p)
    BY <1>2 DEF LeftBehind
  <1> QED
    BY <1>1, <1>2, <1>3 DEF Filtered

\* Readers stay those of their participant.
LEMMA SameReaders ==
  ASSUME UNCHANGED <<reader, owner>>, NEW p
  PROVE  ReadersOf(p)' = ReadersOf(p)
  BY DEF ReadersOf, Has

\* A step that leaves alone what is owned and who reads keeps the balance.
LEMMA BalanceUnchanged ==
  ASSUME OwnedType, Balanced,
         UNCHANGED <<ownedVars, reader, owner, filter>>
  PROVE  OwnedType' /\ Balanced'
  <1>1. OwnedType'
    BY DEF OwnedType, ownedVars
  <1>2. ASSUME NEW p \in Participants PROVE Counted(p)' /\ Filtered(p)'
    BY SameReaders, BalancedElsewhere DEF Balanced, ownedVars
  <1> QED
    BY <1>1, <1>2 DEF Balanced

\* At first nothing is owned.
LEMMA InitBalance == Init => OwnedType /\ Balanced
  <1> SUFFICES ASSUME Init PROVE OwnedType /\ Balanced
    OBVIOUS
  <1>1. OwnedType
    BY BoundsAssumption DEF Init, OwnedType
  <1>2. ASSUME NEW p \in Participants PROVE Counted(p) /\ Filtered(p)
    <2>1. ReadersOf(p) = {}
      BY DEF Init, ReadersOf, Has
    <2>2. Counted(p)
      BY <2>1, FS_EmptySet DEF Init, Counted
    <2>3. LeftBehind(p) = {} /\ Used(p) = {}
      BY <2>1 DEF Init, LeftBehind, Used
    <2>4. Filtered(p)
      BY <2>1, <2>3, FS_EmptySet DEF Init, Filtered
    <2> QED
      BY <2>2, <2>4
  <1> QED
    BY <1>1, <1>2 DEF Balanced

\* Deleting participants leaves them nothing and the others what they had.
LEMMA DeleteAllBalance ==
  ASSUME OwnedType, Balanced, HandleInv, NEW D \in SUBSET Participants,
         DeleteAll(D)
  PROVE  OwnedType' /\ Balanced'
  <1> USE DEF HandleInv, ReaderType
  <1>1. OwnedType'
    BY BoundsAssumption DEF OwnedType, DeleteAll
  <1>2. ASSUME NEW p \in Participants \ D PROVE Counted(p)' /\ Filtered(p)'
    <2>1. ReadersOf(p)' = ReadersOf(p)
      BY DEF DeleteAll, ReadersOf, Has
    <2> QED
      BY <2>1, BalancedElsewhere DEF DeleteAll, Balanced
  <1>3. ASSUME NEW p \in D PROVE Counted(p)' /\ Filtered(p)'
    <2>1. ReadersOf(p)' = {}
      BY DEF DeleteAll, ReadersOf, Has
    <2>2. /\ topics'[p] = 0 /\ subscribers'[p] = 0 /\ publishers'[p] = 0
          /\ writers'[p] = 0 /\ cfts'[p] = {} /\ failures'[p] \in Nat
      BY BoundsAssumption DEF DeleteAll, OwnedType
    <2>3. Counted(p)'
      BY <2>1, <2>2, FS_EmptySet DEF Counted
    <2>4. LeftBehind(p)' = {} /\ Used(p)' = {}
      BY <2>1, <2>2 DEF LeftBehind, Used
    <2>5. Filtered(p)'
      BY <2>1, <2>2, <2>4, FS_EmptySet DEF Filtered
    <2> QED
      BY <2>3, <2>5
  <1> QED
    BY <1>1, <1>2, <1>3 DEF Balanced

\* A failed subscribe() leaves one topic, perhaps one Subscriber and perhaps
\* one filter behind, each counted as a failure.
LEMMA FailureBalance ==
  ASSUME OwnedType, Balanced, OneDigitName, NEW p \in Participants,
         failures[p] < MaxFailures, failures' = Plus(failures, p, 1),
         topics' = Plus(topics, p, 1),
         NEW n \in 0..1, subscribers' = Plus(subscribers, p, n),
         NEW filtered \in BOOLEAN,
         NEW new \in {{}, {cft_name}}, ChoosesTopic(p, filtered, new),
         UNCHANGED <<publishers, writers, filter>>,
         \A q \in Participants : ReadersOf(q)' = ReadersOf(q)
  PROVE  OwnedType' /\ Balanced'
  <1>1. cft_name \in Names /\ cfts' = [cfts EXCEPT ![p] = @ \cup new]
    BY OneDigitIsName DEF ChoosesTopic
  <1>2. OwnedType'
    BY <1>1, BoundsAssumption DEF OwnedType, Plus
  <1>3. ASSUME NEW q \in Participants, q # p PROVE Counted(q)' /\ Filtered(q)'
    BY <1>1, <1>3, BalancedElsewhere DEF Balanced, OwnedType, Plus
  <1>4. Counted(p)'
    <2>1. /\ Counted(p) /\ ReadersOf(p)' = ReadersOf(p)
          /\ topics'[p] = topics[p] + 1 /\ subscribers'[p] = subscribers[p] + n
          /\ failures'[p] = failures[p] + 1
          /\ publishers'[p] = publishers[p] /\ writers'[p] = writers[p]
      BY DEF Balanced, OwnedType, Plus
    <2>2. /\ topics[p] \in Nat /\ subscribers[p] \in Nat /\ writers[p] \in Nat
          /\ publishers[p] \in Nat /\ failures[p] \in Nat
          /\ Cardinality(ReadersOf(p)) \in Nat
      BY <2>1, BoundsAssumption, FS_CardinalityType DEF OwnedType, Counted
    <2> QED
      BY <2>1, <2>2 DEF Counted
  <1>5. Filtered(p)'
    <2>1. Filtered(p) /\ ReadersOf(p)' = ReadersOf(p) /\ Used(p)' = Used(p)
      BY DEF Balanced, Used
    <2>2. cfts'[p] = cfts[p] \cup new /\ failures'[p] = failures[p] + 1
      BY <1>1 DEF OwnedType, Plus
    <2>3. failures[p] \in Nat
      BY BoundsAssumption DEF OwnedType
    <2>4. /\ IsFiniteSet(LeftBehind(p)')
          /\ Cardinality(LeftBehind(p)') <= failures'[p]
      <3>1. /\ IsFiniteSet(LeftBehind(p) \cup {cft_name})
            /\ Cardinality(LeftBehind(p) \cup {cft_name}) <= failures[p] + 1
        <4>1. /\ IsFiniteSet(LeftBehind(p))
              /\ Cardinality(LeftBehind(p)) <= failures[p]
              /\ Cardinality(LeftBehind(p)) \in Nat
          BY <2>1, FS_CardinalityType DEF Filtered
        <4> DEFINE L == LeftBehind(p)
        <4>2. /\ IsFiniteSet(L \cup {cft_name})
              /\ Cardinality(L \cup {cft_name}) =
                    IF cft_name \in L THEN Cardinality(L)
                    ELSE Cardinality(L) + 1
          BY <4>1, FS_AddElement, Zenon
        <4> QED
          BY <2>3, <4>1, <4>2
      <3>2. LeftBehind(p)' \in SUBSET (LeftBehind(p) \cup {cft_name})
        BY <2>1, <2>2 DEF LeftBehind
      <3>3. /\ IsFiniteSet(LeftBehind(p)')
            /\ Cardinality(LeftBehind(p)')
                   <= Cardinality(LeftBehind(p) \cup {cft_name})
        BY <3>1, <3>2, FS_Subset
      <3> QED
        BY <2>2, <2>3, <3>1, <3>3, FS_CardinalityType
    <2> QED
      BY <2>1, <2>2, <2>4 DEF Filtered
  <1> QED
    BY <1>2, <1>3, <1>4, <1>5 DEF Balanced

\* A subscribe() that succeeds takes one topic, one Subscriber and, for its
\* reader alone, perhaps one filter that the participant did not have.
LEMMA SubscribeBalance ==
  ASSUME OwnedType, Balanced, OneDigitName,
         NEW p \in Participants, NEW r \in Readers, subscribe(p, r),
         ReaderType
  PROVE  OwnedType' /\ Balanced'
  <1> USE DEF ReaderType
  <1>1. PICK new \in {{}, {cft_name}} :
          /\ new \cap cfts[p] = {}
          /\ cfts' = [cfts EXCEPT ![p] = @ \cup new]
          /\ filter' = [filter EXCEPT ![r] = new]
    BY DEF subscribe, ChoosesTopic, NameFor
  <1>2. /\ reader[r] = "unused"
        /\ reader' = [reader EXCEPT ![r] = "live"]
        /\ owner' = [owner EXCEPT ![r] = p]
        /\ topics' = Plus(topics, p, 1)
        /\ subscribers' = Plus(subscribers, p, 1)
        /\ UNCHANGED <<publishers, writers, failures>>
    BY DEF subscribe
  <1>3. OwnedType'
    BY <1>1, <1>2, OneDigitIsName DEF OwnedType, Plus
  <1>4. r \notin ReadersOf(p) /\ ReadersOf(p)' = ReadersOf(p) \cup {r}
    BY <1>2 DEF ReadersOf, Has
  <1>5. ASSUME NEW q \in Participants, q # p PROVE Counted(q)' /\ Filtered(q)'
    <2>1. ReadersOf(q)' = ReadersOf(q) /\ r \notin ReadersOf(q)
      BY <1>2, <1>5 DEF ReadersOf, Has
    <2>2. \A s \in ReadersOf(q) : filter'[s] = filter[s]
      BY <1>1, <2>1 DEF OwnedType, ReadersOf
    <2> QED
      BY <1>1, <1>2, <1>5, <2>1, <2>2, BalancedElsewhere
      DEF Balanced, OwnedType, Plus
  <1>6. Counted(p)'
    <2>1. /\ Counted(p) /\ IsFiniteSet(ReadersOf(p))
          /\ Cardinality(ReadersOf(p)) \in Nat
      BY FS_CardinalityType DEF Balanced, Counted
    <2>2. /\ IsFiniteSet(ReadersOf(p)')
          /\ Cardinality(ReadersOf(p)') = Cardinality(ReadersOf(p)) + 1
      BY <1>4, <2>1, FS_AddElement
    <2>3. /\ topics'[p] = topics[p] + 1 /\ subscribers'[p] = subscribers[p] + 1
          /\ failures'[p] = failures[p]
          /\ publishers'[p] = publishers[p] /\ writers'[p] = writers[p]
      BY <1>2 DEF OwnedType, Plus
    <2>4. /\ topics[p] \in Nat /\ subscribers[p] \in Nat /\ writers[p] \in Nat
          /\ publishers[p] \in Nat /\ failures[p] \in Nat
      BY BoundsAssumption DEF OwnedType
    <2> QED
      BY <2>1, <2>2, <2>3, <2>4 DEF Counted
  <1>7. Filtered(p)'
    <2>1. /\ Filtered(p) /\ cfts'[p] = cfts[p] \cup new
          /\ failures'[p] = failures[p]
      BY <1>1, <1>2 DEF Balanced, OwnedType
    <2>2. filter'[r] = new /\ \A s \in ReadersOf(p) : filter'[s] = filter[s]
      BY <1>1, <1>4 DEF OwnedType, ReadersOf
    <2>3. Used(p)' = Used(p) \cup new
      BY <1>4, <2>2 DEF Used
    <2>4. Used(p)' \subseteq cfts'[p] /\ LeftBehind(p)' = LeftBehind(p)
      BY <1>1, <2>1, <2>3 DEF Filtered, LeftBehind
    <2>5. \A s \in ReadersOf(p) : filter[s] \cap new = {}
      BY <1>1, <2>1 DEF Filtered, Used
    <2>6. \A s, t \in ReadersOf(p)' : s # t => filter'[s] \cap filter'[t] = {}
      BY <1>4, <2>1, <2>2, <2>5 DEF Filtered
    <2> QED
      BY <2>1, <2>4, <2>6 DEF Filtered
  <1> QED
    BY <1>3, <1>5, <1>6, <1>7 DEF Balanced

\* unsubscribe_now_i releases what its subscribe() took.
LEMMA UnsubscribeBalance ==
  ASSUME OwnedType, Balanced, HandleInv,
         NEW r \in Readers, Has(r), unsubscribe_now(r)
  PROVE  OwnedType' /\ Balanced'
  <1> USE DEF HandleInv, ReaderType
  <1> PICK p \in Participants : p = owner[r]
    BY DEF ByState, Has
  <1>1. /\ reader' = [reader EXCEPT ![r] = "closed"]
        /\ topics' = Plus(topics, p, -1)
        /\ subscribers' = Plus(subscribers, p, -1)
        /\ cfts' = [cfts EXCEPT ![p] = @ \ filter[r]]
        /\ UNCHANGED <<owner, filter, publishers, writers, failures>>
    BY DEF unsubscribe_now, TopicsDeleted
  <1>2. r \in ReadersOf(p) /\ ReadersOf(p)' = ReadersOf(p) \ {r}
    BY <1>1 DEF ReadersOf, Has
  <1>3. ASSUME NEW q \in Participants, q # p PROVE Counted(q)' /\ Filtered(q)'
    <2>1. ReadersOf(q)' = ReadersOf(q)
      BY <1>1, <1>3 DEF ReadersOf, Has
    <2> QED
      BY <1>1, <1>3, <2>1, BalancedElsewhere DEF Balanced, OwnedType, Plus
  <1>4. /\ Counted(p) /\ IsFiniteSet(ReadersOf(p))
        /\ Cardinality(ReadersOf(p)) \in Nat
    BY <1>1, FS_CardinalityType DEF Balanced, Counted
  <1>5. Cardinality(ReadersOf(p)) # 0
    BY <1>2, <1>4, FS_EmptySet
  <1>6. /\ IsFiniteSet(ReadersOf(p)')
        /\ Cardinality(ReadersOf(p)') = Cardinality(ReadersOf(p)) - 1
    BY <1>2, <1>4, FS_RemoveElement
  <1>7. /\ topics'[p] = topics[p] - 1 /\ subscribers'[p] = subscribers[p] - 1
        /\ failures'[p] = failures[p]
        /\ publishers'[p] = publishers[p] /\ writers'[p] = writers[p]
    BY <1>1 DEF OwnedType, Plus
  <1>8. /\ topics[p] \in Nat /\ subscribers[p] \in Nat /\ writers[p] \in Nat
        /\ publishers[p] \in Nat /\ failures[p] \in Nat
    BY <1>1, BoundsAssumption DEF OwnedType
  <1>9. topics[p] - 1 \in Nat /\ subscribers[p] - 1 \in Nat
    BY <1>4, <1>5, <1>8 DEF Counted
  <1>10. OwnedType'
    BY <1>1, <1>9 DEF OwnedType, Plus
  <1>11. Counted(p)'
    BY <1>4, <1>6, <1>7, <1>8 DEF Counted
  <1>12. Filtered(p)'
    <2>1. Filtered(p) /\ cfts'[p] = cfts[p] \ filter[r]
      BY <1>1 DEF Balanced, OwnedType
    <2>2. \A s \in ReadersOf(p) \ {r} : filter[s] \cap filter[r] = {}
      BY <1>2, <2>1 DEF Filtered
    <2>3. Used(p)' = Used(p) \ filter[r] /\ filter[r] \subseteq Used(p)
      BY <1>1, <1>2, <2>2 DEF Used
    <2>4. Used(p)' \subseteq cfts'[p] /\ LeftBehind(p)' = LeftBehind(p)
      BY <2>1, <2>3 DEF Filtered, LeftBehind
    <2> QED
      BY <1>1, <1>2, <1>7, <2>1, <2>4 DEF Filtered
  <1> QED
    BY <1>3, <1>10, <1>11, <1>12 DEF Balanced

\* A writer takes one topic and one Publisher; a failed create_datawriter()
\* leaves at most these behind.
LEMMA WriterBalance ==
  ASSUME OwnedType, Balanced, NEW p \in Participants, create_datawriter(p)
  PROVE  OwnedType' /\ Balanced'
  <1>1. PICK m \in 0..1, n \in 0..1, w \in 0..1, f \in 0..1 :
          /\ topics' = Plus(topics, p, m)
          /\ publishers' = Plus(publishers, p, n)
          /\ writers' = Plus(writers, p, w)
          /\ failures' = Plus(failures, p, f)
          /\ \/ w = 1 /\ f = 0 /\ m = 1 /\ n = 1 /\ writers[p] < MaxWriters
             \/ w = 0 /\ f = 1 /\ failures[p] < MaxFailures
    <2>1. UNCHANGED writers => writers' = Plus(writers, p, 0)
      BY DEF Plus, OwnedType
    <2>2. UNCHANGED failures => failures' = Plus(failures, p, 0)
      BY DEF Plus, OwnedType
    <2> QED
      BY <2>1, <2>2 DEF create_datawriter
  <1>2. UNCHANGED <<cfts, subscribers, reader, owner, filter>>
    BY DEF create_datawriter, readerVars
  <1>3. OwnedType'
    BY <1>1, <1>2, BoundsAssumption DEF OwnedType, Plus
  <1>4. \A q \in Participants : ReadersOf(q)' = ReadersOf(q)
    BY <1>2, SameReaders
  <1>5. ASSUME NEW q \in Participants, q # p PROVE Counted(q)' /\ Filtered(q)'
    BY <1>1, <1>2, <1>4, <1>5, BalancedElsewhere DEF Balanced, OwnedType, Plus
  <1>6. /\ topics'[p] = topics[p] + m /\ publishers'[p] = publishers[p] + n
        /\ writers'[p] = writers[p] + w /\ failures'[p] = failures[p] + f
    BY <1>1 DEF OwnedType, Plus
  <1>7. /\ Counted(p) /\ Filtered(p) /\ Cardinality(ReadersOf(p)) \in Nat
        /\ topics[p] \in Nat /\ subscribers[p] \in Nat /\ writers[p] \in Nat
        /\ publishers[p] \in Nat /\ failures[p] \in Nat
    BY BoundsAssumption, FS_CardinalityType DEF OwnedType, Balanced, Counted
  <1>8. Counted(p)'
    BY <1>1, <1>2, <1>4, <1>6, <1>7 DEF Counted
  <1>9. Filtered(p)'
    <2>1. Used(p)' = Used(p) /\ LeftBehind(p)' = LeftBehind(p)
      BY <1>2, <1>4 DEF Used, LeftBehind
    <2>2. Cardinality(LeftBehind(p)) \in Nat
      BY <1>7, FS_CardinalityType DEF Filtered
    <2>3. Cardinality(LeftBehind(p)) <= failures'[p]
      BY <1>6, <1>7, <2>2 DEF Filtered
    <2> QED
      BY <1>2, <1>4, <1>7, <2>1, <2>3 DEF Filtered
  <1> QED
    BY <1>3, <1>5, <1>8, <1>9 DEF Balanced

OwnInv == OwnedType /\ OneDigitName /\ Balanced

\* Every step keeps the participants balanced.
LEMMA NextBalance ==
  RegistryType /\ HandleInv /\ OwnInv /\ [Next]_vars => OwnedType' /\ Balanced'
  <1> SUFFICES ASSUME RegistryType, HandleInv, OwnedType, OneDigitName,
                      Balanced, [Next]_vars
               PROVE  OwnedType' /\ Balanced'
    BY DEF OwnInv
  <1>1. CASE initialize
    BY <1>1, BalanceUnchanged DEF initialize, readerVars
  <1>2. CASE finalize
    BY <1>2, DeleteAllBalance DEF finalize, RegistryType
  <1>3. ASSUME NEW p \in Participants, create_participant(p)
        PROVE  OwnedType' /\ Balanced'
    BY <1>3, BalanceUnchanged DEF create_participant, readerVars
  <1>4. ASSUME NEW p \in Participants, delete_participant(p)
        PROVE  OwnedType' /\ Balanced'
    BY <1>4, DeleteAllBalance DEF delete_participant
  <1>5. ASSUME NEW p \in Participants, create_datawriter(p)
        PROVE  OwnedType' /\ Balanced'
    BY <1>5, WriterBalance
  <1>6. ASSUME NEW p \in Participants, SubscribeFailsEarly(p)
        PROVE  OwnedType' /\ Balanced'
    <2>1. subscribers' = Plus(subscribers, p, 0)
      BY <1>6 DEF SubscribeFailsEarly, OwnedType, Plus
    <2>2. \A q \in Participants : ReadersOf(q)' = ReadersOf(q)
      BY <1>6, SameReaders DEF SubscribeFailsEarly, readerVars
    <2>3. PICK filtered \in BOOLEAN, new \in {{}, {cft_name}} :
            ChoosesTopic(p, filtered, new)
      BY <1>6 DEF SubscribeFailsEarly, ChoosesTopicInVain, NameFor
    <2> QED
      BY <1>6, <2>1, <2>2, <2>3, FailureBalance
      DEF SubscribeFailsEarly, readerVars
  <1>7. ASSUME NEW p \in Participants, NEW r \in Readers,
               SubscribeFailsLate(p, r)
        PROVE  OwnedType' /\ Balanced'
    <2>1. \A q \in Participants : ReadersOf(q)' = ReadersOf(q)
      BY <1>7 DEF SubscribeFailsLate, HandleInv, ReaderType, ReadersOf, Has
    <2>2. PICK filtered \in BOOLEAN, new \in {{}, {cft_name}} :
            ChoosesTopic(p, filtered, new)
      BY <1>7 DEF SubscribeFailsLate, ChoosesTopicInVain, NameFor
    <2> QED
      BY <1>7, <2>1, <2>2, FailureBalance DEF SubscribeFailsLate
  <1>8. ASSUME NEW p \in Participants, NEW r \in Readers, subscribe(p, r)
        PROVE  OwnedType' /\ Balanced'
    BY <1>8, SubscribeBalance DEF HandleInv
  <1>9. ASSUME NEW r \in Readers, unsubscribe(r)
        PROVE  OwnedType' /\ Balanced'
    <2>1. CASE unsubscribe_now(r)
      BY <1>9, <2>1, UnsubscribeBalance DEF unsubscribe
    <2>2. CASE ~unsubscribe_now(r)
      <3>1. /\ Has(r) /\ reader' = [reader EXCEPT ![r] = "stopping"]
            /\ UNCHANGED <<owner, filter, ownedVars>>
        BY <1>9, <2>2 DEF unsubscribe
      <3>2. OwnedType'
        BY <3>1 DEF OwnedType, ownedVars
      <3>3. ASSUME NEW q \in Participants PROVE Counted(q)' /\ Filtered(q)'
        <4>1. ReadersOf(q)' = ReadersOf(q)
          BY <3>1 DEF HandleInv, ReaderType, ReadersOf, Has
        <4> QED
          BY <3>1, <4>1, BalancedElsewhere DEF Balanced, ownedVars
      <3> QED
        BY <3>2, <3>3 DEF Balanced
    <2> QED
      BY <2>1, <2>2
  <1>10. ASSUME NEW r \in Readers,
                TakeBegins(r) \/ CloseCb(r) \/ UnsubscribeOrphan(r)
         PROVE  OwnedType' /\ Balanced'
    BY <1>10, BalanceUnchanged
    DEF TakeBegins, CloseCb, UnsubscribeOrphan, readerVars
  <1>11. CASE TakeEnds
    BY <1>11, BalanceUnchanged DEF TakeEnds, readerVars
  <1>12. ASSUME NEW r \in Readers, WorkerCallback(r)
         PROVE  OwnedType' /\ Balanced'
    BY <1>12, UnsubscribeBalance, BalanceUnchanged
    DEF WorkerCallback, readerVars
  <1>13. CASE UNCHANGED vars
    BY <1>13, BalanceUnchanged DEF vars, readerVars
  <1> QED
    BY <1>1, <1>2, <1>3, <1>4, <1>5, <1>6, <1>7, <1>8, <1>9, <1>10, <1>11,
       <1>12, <1>13 DEF Next

\* What is owned stays balanced, and workers go with the readers' states.
LEMMA OwnInvariance == Spec => [](OwnInv /\ WorkersMatch)
  <1>1. Init => OwnInv /\ WorkersMatch
    BY InitBalance, InitNames DEF OwnInv
  <1>2. IInv /\ HandleInv /\ OwnInv /\ [Next]_vars => OwnInv'
    BY NextBalance, NextNames DEF OwnInv, IInv
  <1> QED
    BY <1>1, <1>2, NextWorkers, Invariance, HandleInvariance, PTL DEF Spec

\* A living participant's topics, Subscribers and ContentFilteredTopics are
\* those of its readers and writers, and what failed calls left behind:
\* unsubscribe_now_i releases all that subscribe() took and nothing another
\* subscription still uses (src/node-opendds.cpp:279-390).
THEOREM NothingLeaksOrIsShared == Spec => []EntitiesBalanced
  <1>1. Balanced => EntitiesBalanced
    BY DEF Balanced, Counted, Filtered, LeftBehind, Used, EntitiesBalanced
  <1> QED
    BY <1>1, OwnInvariance, PTL DEF OwnInv

\* The factory is initialized once and then finalized at most once.
LEMMA FactoryType == Spec => []((factory \in {"none", "live", "final"}) /\
                                (fault \in {None} \cup Faults))
  <1> DEFINE Typed == /\ factory \in {"none", "live", "final"}
                      /\ fault \in {None} \cup Faults
  <1>1. Init => Typed
    BY DEF Init
  <1>2. Typed /\ [Next]_vars => Typed'
    BY DEF Next, Faults, initialize, finalize, create_participant,
           delete_participant, UnsubscribeOrphan, DeleteAll, create_datawriter, SubscribeFailsEarly,
           SubscribeFailsLate, subscribe, unsubscribe, unsubscribe_now,
           TakeBegins, TakeEnds, WorkerCallback, CloseCb, vars, registryVars,
           runVars
  <1> QED
    BY <1>1, <1>2, PTL DEF Spec

\* Every variable keeps its type: counts of entities never go below zero, and a
\* listener never has more than two workers.
THEOREM TypeCorrect == Spec => []TypeOK
  <1>1. IInv /\ HandleInv /\ OwnInv /\ WorkersMatch
            /\ factory \in {"none", "live", "final"}
            /\ fault \in {None} \cup Faults
        => TypeOK
    BY OneDigitIsName
    DEF IInv, RegistryType, HandleInv, ReaderType, OwnInv, OwnedType,
        WorkersMatch, TypeOK
  <1> QED
    BY <1>1, Invariance, HandleInvariance, OwnInvariance, FactoryType, PTL

-----------------------------------------------------------------------------
(* Each reader's part of the add-on implements ListenerLife.               *)

\* A listener is not touched by what does not change these.
LEMMA LifeUnchanged ==
  ASSUME NEW r \in Readers, reader'[r] = reader[r], handle'[r] = handle[r],
         workers'[r] = workers[r], (taking = r) <=> (taking' = r)
  PROVE  UNCHANGED Life(r)!vars
  BY DEF Life!vars

\* At first a listener is not there.
LEMMA LifeInit ==
  ASSUME Init, NEW r \in Readers
  PROVE  Life(r)!Init
  BY NamesAssumption DEF Init, Life!Init, None, Life!None

\* subscribe() and its late failure make one.
LEMMA LifeSubscribes ==
  ASSUME HandleInv, WorkersMatch, NEW p, NEW q \in Readers,
         subscribe(p, q) \/ SubscribeFailsLate(p, q), NEW r \in Readers
  PROVE  [Life(r)!Next]_(Life(r)!vars)
  <1>1. /\ reader[q] = "unused"
        /\ \E s \in {"live", "failed"} : reader' = [reader EXCEPT ![q] = s]
        /\ handle' = [handle EXCEPT ![q] = "open"]
        /\ UNCHANGED <<workers, taking>>
    BY DEF subscribe, SubscribeFailsLate, runVars
  <1>2. CASE r # q
    BY <1>1, <1>2, LifeUnchanged DEF HandleInv, ReaderType
  <1>3. CASE r = q
    BY <1>1, <1>3 DEF HandleInv, ReaderType, Life!Subscribe, Life!Next
  <1> QED
    BY <1>2, <1>3

\* Deleting participants makes orphans, also of a reader being taken from.
LEMMA LifeOrphans ==
  ASSUME HandleInv, WorkersMatch, NEW D, DeleteAll(D), NEW r \in Readers
  PROVE  [Life(r)!Next]_(Life(r)!vars)
  <1>1. /\ reader'[r] = IF owner[r] \in D /\ Has(r) THEN "orphan" ELSE reader[r]
        /\ UNCHANGED <<handle, workers, taking>>
    BY DEF DeleteAll, runVars
  <1>2. CASE owner[r] \in D /\ Has(r)
    BY <1>1, <1>2 DEF Has, Life!Holds, Life!Orphan, Life!Next
  <1>3. CASE ~(owner[r] \in D /\ Has(r))
    BY <1>1, <1>3, LifeUnchanged
  <1> QED
    BY <1>2, <1>3

\* A reader is given up while async() does not take from it.
LEMMA LifeReleases ==
  ASSUME HandleInv, NEW q \in Readers, Has(q), taking # q, unsubscribe_now(q)
  PROVE  /\ Life(q)!Release
         /\ \A r \in Readers :
                r # q => reader'[r] = reader[r] /\ handle'[r] = handle[r]
  BY DEF unsubscribe_now, HandleClosed, HandleInv, ReaderType, Has,
         Life!Holds, Life!Release

\* unsubscribe(), of the reader being taken from or of another.
LEMMA LifeUnsubscribes ==
  ASSUME HandleInv, WorkersMatch, NEW q \in Readers, unsubscribe(q),
         NEW r \in Readers
  PROVE  [Life(r)!Next]_(Life(r)!vars)
  <1>1. Has(q) /\ UNCHANGED <<workers, taking>>
    BY DEF unsubscribe, runVars
  <1>2. CASE taking = q /\ reader' = [reader EXCEPT ![q] = "stopping"]
                       /\ handle' = handle
    <2>1. CASE r = q
      BY <1>1, <1>2, <2>1 DEF HandleInv, ReaderType, Has, Life!Holds,
                             Life!Unsubscribe, Life!Next
    <2>2. CASE r # q
      BY <1>1, <1>2, <2>2, LifeUnchanged DEF HandleInv, ReaderType
    <2> QED
      BY <2>1, <2>2
  <1>3. CASE taking # q /\ unsubscribe_now(q)
    <2>1. CASE r = q
      BY <1>1, <1>3, <2>1, LifeReleases DEF Life!Unsubscribe, Life!Next
    <2>2. CASE r # q
      BY <1>1, <1>3, <2>2, LifeReleases, LifeUnchanged
    <2> QED
      BY <2>1, <2>2
  <1> QED
    BY <1>2, <1>3 DEF unsubscribe, Defers

\* async() begins; of one reader at a time.
LEMMA LifeTakes ==
  ASSUME HandleInv, WorkersMatch, NEW q \in Readers, TakeBegins(q),
         NEW r \in Readers
  PROVE  [Life(r)!Next]_(Life(r)!vars)
  <1>1. /\ taking = None /\ taking' = q /\ handle[q] = "open"
        /\ reader[q] = "live" \/ (reader[q] = "stopping" /\ workers[q] = 1)
        /\ UNCHANGED <<reader, handle, workers>>
    BY DEF TakeBegins, WasPending, readerVars
  <1>2. taking # q /\ taking # r
    BY <1>1, NamesAssumption
  <1>3. CASE r = q
    BY <1>1, <1>2, <1>3 DEF Life!TakeBegins, Life!Next
  <1>4. CASE r # q
    BY <1>1, <1>2, <1>4, LifeUnchanged
  <1> QED
    BY <1>3, <1>4

\* async() ends. That its listener is freed only as an orphan is part of the
\* invariant: no worker is made for one.
LEMMA LifeTaken ==
  ASSUME HandleInv, WorkersMatch, TakeEnds, NEW r \in Readers
  PROVE  [Life(r)!Next]_(Life(r)!vars)
  <1>1. /\ taking \in Readers /\ taking' = None
        /\ UNCHANGED <<reader, handle>>
    BY DEF TakeEnds, readerVars, HandleInv, ReaderType
  <1>2. taking' # r
    BY <1>1, NamesAssumption
  <1>3. workers' = IF reader[taking] = "stopping"
                   THEN [workers EXCEPT ![taking] = @ + 1] ELSE workers
    <2>1. CASE Freed(taking)
      BY <2>1 DEF TakeEnds, Freed, Has
    <2>2. CASE ~Freed(taking)
      BY <2>2 DEF TakeEnds, Plus
    <2> QED
      BY <2>1, <2>2
  <1>4. CASE r = taking
    BY <1>1, <1>2, <1>3, <1>4 DEF WorkersMatch, Life!TakeEnds, Life!Next
  <1>5. CASE r # taking
    BY <1>1, <1>2, <1>3, <1>5, LifeUnchanged DEF WorkersMatch
  <1> QED
    BY <1>4, <1>5

\* A worker is called back.
LEMMA LifeWorks ==
  ASSUME HandleInv, WorkersMatch, NEW q \in Readers, WorkerCallback(q),
         NEW r \in Readers
  PROVE  [Life(r)!Next]_(Life(r)!vars)
  <1>1. /\ taking = None /\ taking' = None
        /\ workers[q] > 0 /\ workers' = [workers EXCEPT ![q] = @ + (-1)]
    BY DEF WorkerCallback, Plus
  <1>2. taking # q /\ taking # r /\ taking' # r /\ taking' # q
    BY <1>1, NamesAssumption
  <1>3. workers[q] \in Nat /\ workers'[q] = workers[q] - 1
    BY <1>1 DEF WorkersMatch
  <1>4. CASE Has(q) /\ unsubscribe_now(q)
    <2>1. CASE r = q
      BY <1>1, <1>2, <1>3, <1>4, <2>1, LifeReleases
      DEF Life!WorkerCallback, Life!Next
    <2>2. CASE r # q
      BY <1>1, <1>2, <1>4, <2>2, LifeReleases, LifeUnchanged DEF WorkersMatch
    <2> QED
      BY <2>1, <2>2
  <1>5. CASE ~Has(q) /\ UNCHANGED <<reader, handle>>
    <2>1. CASE r = q
      BY <1>1, <1>2, <1>3, <1>5, <2>1
      DEF Has, Life!Holds, Life!WorkerCallback, Life!Next
    <2>2. CASE r # q
      BY <1>1, <1>2, <1>5, <2>2, LifeUnchanged DEF WorkersMatch
    <2> QED
      BY <2>1, <2>2
  <1> QED
    BY <1>4, <1>5 DEF WorkerCallback, Freed, Has, readerVars

\* libuv has closed the handle.
LEMMA LifeCloses ==
  ASSUME HandleInv, WorkersMatch, NEW q \in Readers, CloseCb(q),
         NEW r \in Readers
  PROVE  [Life(r)!Next]_(Life(r)!vars)
  <1>1. /\ taking = None /\ taking' = None
        /\ handle[q] = "closing" /\ handle' = [handle EXCEPT ![q] = "closed"]
        /\ UNCHANGED <<reader, workers>>
    BY DEF CloseCb, runVars
  <1>2. taking # q
    BY <1>1, NamesAssumption
  <1>3. CASE r = q
    BY <1>1, <1>2, <1>3 DEF HandleInv, ReaderType, Life!CloseCb, Life!Next
  <1>4. CASE r # q
    BY <1>1, <1>4, LifeUnchanged DEF HandleInv, ReaderType
  <1> QED
    BY <1>3, <1>4

\* Every step of the add-on is one of each listener's life or no part of it.
LEMMA LifeSteps ==
  ASSUME HandleInv, WorkersMatch, [Next]_vars, NEW r \in Readers
  PROVE  [Life(r)!Next]_(Life(r)!vars)
  <1>1. CASE finalize \/ \E p \in Participants : delete_participant(p)
    BY <1>1, LifeOrphans DEF finalize, delete_participant
  <1>2. CASE \E p \in Participants, q \in Readers :
                 subscribe(p, q) \/ SubscribeFailsLate(p, q)
    BY <1>2, LifeSubscribes
  <1>3. CASE \E q \in Readers : unsubscribe(q)
    BY <1>3, LifeUnsubscribes
  <1>4. CASE TakeEnds \/ \E q \in Readers : TakeBegins(q)
    BY <1>4, LifeTakes, LifeTaken
  <1>5. CASE \E q \in Readers : WorkerCallback(q) \/ CloseCb(q)
    BY <1>5, LifeWorks, LifeCloses
  <1>6. CASE \/ initialize
             \/ \E p \in Participants :
                    \/ create_participant(p) \/ create_datawriter(p)
                    \/ SubscribeFailsEarly(p)
             \/ \E q \in Readers : UnsubscribeOrphan(q)
             \/ UNCHANGED vars
    <2>1. UNCHANGED <<reader, handle, workers, taking>>
      BY <1>6 DEF UnsubscribeOrphan, initialize, create_participant, create_datawriter,
                  SubscribeFailsEarly, vars, readerVars, runVars
    <2> QED
      BY <2>1, LifeUnchanged
  <1> QED
    BY <1>1, <1>2, <1>3, <1>4, <1>5, <1>6 DEF Next

\* What NodeDRListener implements for one subscription holds of each of a
\* program's: unsubscribe_now_i gives a reader up and closes its handle at most
\* once (src/NodeDRListener.cpp:157-175), never under its own async(), whatever
\* callbacks unsubscribe and whichever participants are deleted meanwhile.
THEOREM ListenersKeepTheirLife == Spec => ListenersLiveOnce
  <1> DEFINE Steps == \A r \in Readers : [Life(r)!Next]_(Life(r)!vars)
  <1>1. Init => \A r \in Readers : Life(r)!Init
    BY LifeInit
  <1>2. HandleInv /\ WorkersMatch /\ [Next]_vars => Steps
    BY LifeSteps
  <1> HIDE DEF Steps
  <1>3. Spec => [][Steps]_vars
    BY <1>2, HandleInvariance, OwnInvariance, PTL DEF Spec
  <1>4. Spec => Init
    BY DEF Spec
  <1> QED
    BY <1>1, <1>3, <1>4 DEF ListenersLiveOnce, Steps

-----------------------------------------------------------------------------
(* Each participant's part of the add-on implements ParticipantEntities.   *)

\* A step that changes nothing a participant owns is no part of it.
LEMMA OwnedUnchanged ==
  ASSUME NEW p \in Participants, part'[p] = part[p],
         ReadersOf(p)' = ReadersOf(p),
         \A r \in ReadersOf(p) : filter'[r] = filter[r],
         topics'[p] = topics[p], subscribers'[p] = subscribers[p],
         publishers'[p] = publishers[p], writers'[p] = writers[p],
         cfts'[p] = cfts[p]
  PROVE  UNCHANGED Owned(p)!vars
  <1>1. UNCHANGED LeftOf(p)
    BY DEF LeftOf
  <1>2. UNCHANGED [r \in ReadersOf(p) |-> filter[r]]
    OBVIOUS
  <1> QED
    BY <1>1, <1>2 DEF Owned!vars

\* At first there is no participant and nothing to own.
LEMMA OwnedInit ==
  ASSUME Init, NEW p \in Participants
  PROVE  Owned(p)!Init
  <1>1. ReadersOf(p) = {} /\ Cardinality({}) = 0
    BY FS_EmptySet DEF Init, ReadersOf, Has
  <1>2. LeftOf(p) = [topics |-> 0 - 0 - 0, subscribers |-> 0 - 0,
                     publishers |-> 0 - 0, filters |-> {}]
    BY <1>1 DEF Init, LeftOf
  <1>3. LeftOf(p) = Owned(p)!Nothing
    BY <1>2 DEF Owned!Nothing
  <1> QED
    BY <1>1, <1>3 DEF Init, Owned!Init, Owned!NoSubscription

\* The numbers of a participant's entities are numbers, and its filters are
\* those of its readers and those left behind.
LEMMA OwnedNumbers ==
  ASSUME OwnedType, Balanced, NEW p \in Participants
  PROVE  /\ topics[p] \in Nat /\ subscribers[p] \in Nat
         /\ publishers[p] \in Nat /\ writers[p] \in Nat
         /\ IsFiniteSet(ReadersOf(p)) /\ Cardinality(ReadersOf(p)) \in Nat
         /\ Owned(p)!Filters = cfts[p]
         /\ LeftOf(p).filters = LeftBehind(p)
  <1>1. IsFiniteSet(ReadersOf(p)) /\ Cardinality(ReadersOf(p)) \in Nat
    BY FS_CardinalityType DEF Balanced, Counted
  <1>2. LeftOf(p).filters = LeftBehind(p)
    BY DEF LeftOf, LeftBehind, Used
  <1>3. Owned(p)!Filters = LeftBehind(p) \cup Used(p)
    BY <1>2 DEF Owned!Filters, Used
  <1>4. LeftBehind(p) \cup Used(p) = cfts[p]
    BY DEF Balanced, Filtered, LeftBehind
  <1> QED
    BY <1>1, <1>2, <1>3, <1>4, BoundsAssumption DEF OwnedType

\* create_participant() makes one that owns nothing yet.
LEMMA OwnedCreated ==
  ASSUME RegistryType, NEW q \in Participants, create_participant(q),
         NEW p \in Participants
  PROVE  [Owned(p)!Next]_(Owned(p)!vars)
  <1>1. /\ part[q] = "none" /\ part' = [part EXCEPT ![q] = "live"]
        /\ UNCHANGED <<cfts, topics, subscribers, publishers, writers, reader,
                       owner, filter>>
    BY DEF create_participant, ownedVars, readerVars
  <1>2. ReadersOf(p)' = ReadersOf(p)
    BY <1>1, SameReaders
  <1>3. CASE p = q
    <2>1. UNCHANGED LeftOf(p)
      BY <1>1, <1>2 DEF LeftOf
    <2>2. UNCHANGED [r \in ReadersOf(p) |-> filter[r]]
      BY <1>1, <1>2
    <2> QED
      BY <1>1, <1>3, <2>1, <2>2 DEF RegistryType, Owned!Create, Owned!Next
  <1>4. CASE p # q
    BY <1>1, <1>2, <1>4, OwnedUnchanged DEF RegistryType
  <1> QED
    BY <1>3, <1>4

\* Deleting participants leaves them nothing, and the others theirs.
LEMMA OwnedDeleted ==
  ASSUME HandleInv, NEW D \in SUBSET Participants,
         \A q \in D : part[q] # "none", DeleteAll(D), NEW p \in Participants
  PROVE  [Owned(p)!Next]_(Owned(p)!vars)
  <1> USE DEF HandleInv, ReaderType
  <1>1. CASE p \in D
    <2>1. ReadersOf(p)' = {} /\ Cardinality({}) = 0
      BY <1>1, FS_EmptySet DEF DeleteAll, ReadersOf, Has
    <2>2. /\ topics'[p] = 0 /\ subscribers'[p] = 0 /\ publishers'[p] = 0
          /\ writers'[p] = 0 /\ cfts'[p] = {}
          /\ part[p] # "none" /\ part'[p] = "deleted"
      BY <1>1 DEF DeleteAll
    <2>3. LeftOf(p)' = Owned(p)!Nothing
      BY <2>1, <2>2 DEF LeftOf, Owned!Nothing
    <2>4. [r \in ReadersOf(p) |-> filter[r]]' = Owned(p)!NoSubscription
      BY <2>1 DEF Owned!NoSubscription
    <2> QED
      BY <2>2, <2>3, <2>4 DEF Owned!Delete, Owned!Next
  <1>2. CASE p \notin D
    <2>1. ReadersOf(p)' = ReadersOf(p)
      BY <1>2 DEF DeleteAll, ReadersOf, Has
    <2> QED
      BY <1>2, <2>1, OwnedUnchanged DEF DeleteAll
  <1> QED
    BY <1>1, <1>2

\* A call that fails leaves at most one of each behind. The name of a filter
\* that the participant has already, when that is why the call failed, is no
\* name of another filter.
LEMMA OwnedFails ==
  ASSUME OwnedType, Balanced, OneDigitName, NEW q \in Participants,
         part[q] = "live", UNCHANGED <<part, writers, filter>>,
         NEW m \in 0..1, topics' = Plus(topics, q, m),
         NEW n \in 0..1, subscribers' = Plus(subscribers, q, n),
         NEW k \in 0..1, publishers' = Plus(publishers, q, k),
         NEW new \in {{}, {cft_name}}, cfts' = [cfts EXCEPT ![q] = @ \cup new],
         \A s \in Participants : ReadersOf(s)' = ReadersOf(s),
         NEW p \in Participants
  PROVE  [Owned(p)!Next]_(Owned(p)!vars)
  <1>1. CASE p # q
    BY <1>1, OwnedUnchanged DEF OwnedType, Plus
  <1>2. CASE p = q
    <2> DEFINE fresh == new \ cfts[p]
    <2>1. fresh \in Owned(p)!Choices
      BY OneDigitIsName DEF Owned!Choices
    <2>2. fresh \cap Owned(p)!Filters = {}
      BY OwnedNumbers
    <2>3. /\ topics'[p] = topics[p] + m /\ subscribers'[p] = subscribers[p] + n
          /\ publishers'[p] = publishers[p] + k /\ cfts'[p] = cfts[p] \cup new
          /\ ReadersOf(p)' = ReadersOf(p)
      BY <1>2 DEF OwnedType, Plus
    <2>4. LeftBehind(p)' = LeftBehind(p) \cup fresh
      <3>1. Used(p)' = Used(p) /\ Used(p) \subseteq cfts[p]
        BY <2>3 DEF Used, Balanced, Filtered
      <3> QED
        BY <2>3, <3>1 DEF LeftBehind
    <2>5. LeftOf(p)' = [topics |-> LeftOf(p).topics + m,
                        subscribers |-> LeftOf(p).subscribers + n,
                        publishers |-> LeftOf(p).publishers + k,
                        filters |-> LeftOf(p).filters \cup fresh]
      <3>1. LeftOf(p)' = [topics |-> topics'[p] - Cardinality(ReadersOf(p))
                                         - writers[p],
                          subscribers |-> subscribers'[p]
                                              - Cardinality(ReadersOf(p)),
                          publishers |-> publishers'[p] - writers[p],
                          filters |-> LeftBehind(p)']
        BY <2>3 DEF LeftOf, LeftBehind, Used
      <3>2. /\ topics'[p] - Cardinality(ReadersOf(p)) - writers[p]
                 = LeftOf(p).topics + m
            /\ subscribers'[p] - Cardinality(ReadersOf(p))
                 = LeftOf(p).subscribers + n
            /\ publishers'[p] - writers[p] = LeftOf(p).publishers + k
        BY <2>3, OwnedNumbers DEF LeftOf
      <3> QED
        BY <2>4, <3>1, <3>2, OwnedNumbers
    <2>6. UNCHANGED [r \in ReadersOf(p) |-> filter[r]]
      BY <2>3
    <2> HIDE DEF fresh
    <2>7. Owned(p)!Fail(fresh)
      BY <1>2, <2>2, <2>5, <2>6 DEF Owned!Fail
    <2> QED
      BY <2>1, <2>7 DEF Owned!Next
  <1> QED
    BY <1>1, <1>2

\* create_datawriter() makes a writer or fails.
LEMMA OwnedWrites ==
  ASSUME OwnedType, Balanced, OneDigitName, NEW q \in Participants,
         create_datawriter(q), NEW p \in Participants
  PROVE  [Owned(p)!Next]_(Owned(p)!vars)
  <1>1. /\ part[q] = "live"
        /\ UNCHANGED <<cfts, subscribers, part, reader, owner, filter>>
    BY DEF create_datawriter, registryVars, readerVars
  <1>2. \A s \in Participants : ReadersOf(s)' = ReadersOf(s)
    BY <1>1, SameReaders
  <1>3. CASE /\ writers' = Plus(writers, q, 1)
             /\ topics' = Plus(topics, q, 1)
             /\ publishers' = Plus(publishers, q, 1)
    <2>1. CASE p # q
      BY <1>1, <1>2, <1>3, <2>1, OwnedUnchanged DEF OwnedType, Plus
    <2>2. CASE p = q
      <3>1. /\ topics'[p] = topics[p] + 1 /\ publishers'[p] = publishers[p] + 1
            /\ writers'[p] = writers[p] + 1
            /\ ReadersOf(p)' = ReadersOf(p)
        BY <1>2, <1>3, <2>2 DEF OwnedType, Plus
      <3>2. /\ topics'[p] - Cardinality(ReadersOf(p)) - writers'[p]
                 = topics[p] - Cardinality(ReadersOf(p)) - writers[p]
            /\ publishers'[p] - writers'[p] = publishers[p] - writers[p]
        BY <3>1, OwnedNumbers
      <3>3. UNCHANGED LeftOf(p)
        BY <1>1, <3>1, <3>2 DEF LeftOf
      <3>4. UNCHANGED [r \in ReadersOf(p) |-> filter[r]]
        BY <1>1, <3>1
      <3> QED
        BY <1>1, <2>2, <3>1, <3>3, <3>4 DEF Owned!Write, Owned!Next
    <2> QED
      BY <2>1, <2>2
  <1>4. CASE /\ \E m \in 0..1 : topics' = Plus(topics, q, m)
             /\ \E k \in 0..1 : publishers' = Plus(publishers, q, k)
             /\ UNCHANGED writers
    <2>1. PICK m \in 0..1, k \in 0..1 : /\ topics' = Plus(topics, q, m)
                                        /\ publishers' = Plus(publishers, q, k)
      BY <1>4
    <2>2. /\ subscribers' = Plus(subscribers, q, 0)
          /\ cfts' = [cfts EXCEPT ![q] = @ \cup {}]
      BY <1>1 DEF OwnedType, Plus
    <2>3. 0 \in 0..1 /\ {} \in {{}, {cft_name}}
      OBVIOUS
    <2> QED
      BY <1>1, <1>2, <1>4, <2>1, <2>2, <2>3, OwnedFails, Zenon
  <1> QED
    BY <1>3, <1>4 DEF create_datawriter

\* subscribe() takes for its reader what the participant did not have.
LEMMA OwnedSubscribes ==
  ASSUME OwnedType, Balanced, OneDigitName, ReaderType,
         NEW q \in Participants, NEW r \in Readers, subscribe(q, r),
         NEW p \in Participants
  PROVE  [Owned(p)!Next]_(Owned(p)!vars)
  <1> USE DEF ReaderType
  <1>1. PICK new \in {{}, {cft_name}} :
          /\ new \cap cfts[q] = {}
          /\ cfts' = [cfts EXCEPT ![q] = @ \cup new]
          /\ filter' = [filter EXCEPT ![r] = new]
    BY DEF subscribe, ChoosesTopic, NameFor
  <1>2. /\ part[q] = "live" /\ reader[r] = "unused"
        /\ reader' = [reader EXCEPT ![r] = "live"]
        /\ owner' = [owner EXCEPT ![r] = q]
        /\ topics' = Plus(topics, q, 1)
        /\ subscribers' = Plus(subscribers, q, 1)
        /\ UNCHANGED <<part, publishers, writers>>
    BY DEF subscribe, registryVars
  <1>3. CASE p # q
    <2>1. ReadersOf(p)' = ReadersOf(p) /\ r \notin ReadersOf(p)
      BY <1>2, <1>3 DEF ReadersOf, Has
    <2>2. \A s \in ReadersOf(p) : filter'[s] = filter[s]
      BY <1>1, <2>1 DEF OwnedType, ReadersOf
    <2> QED
      BY <1>1, <1>2, <1>3, <2>1, <2>2, OwnedUnchanged DEF OwnedType, Plus
  <1>4. CASE p = q
    <2>1. r \notin ReadersOf(p) /\ ReadersOf(p)' = ReadersOf(p) \cup {r}
      BY <1>2, <1>4 DEF ReadersOf, Has
    <2>2. Cardinality(ReadersOf(p)') = Cardinality(ReadersOf(p)) + 1
      BY <2>1, OwnedNumbers, FS_AddElement
    <2>3. filter'[r] = new /\ \A s \in ReadersOf(p) : filter'[s] = filter[s]
      BY <1>1, <2>1 DEF OwnedType, ReadersOf
    <2>4. LeftBehind(p)' = LeftBehind(p)
      <3>1. Used(p)' = Used(p) \cup new
        BY <2>1, <2>3 DEF Used
      <3>2. cfts'[p] = cfts[p] \cup new /\ Used(p) \subseteq cfts[p]
        BY <1>1, <1>4 DEF OwnedType, Balanced, Filtered
      <3> QED
        BY <1>1, <1>4, <3>1, <3>2 DEF LeftBehind
    <2>5. /\ topics'[p] = topics[p] + 1 /\ subscribers'[p] = subscribers[p] + 1
          /\ publishers'[p] = publishers[p] /\ writers'[p] = writers[p]
      BY <1>2, <1>4 DEF OwnedType, Plus
    <2>6. /\ topics'[p] - Cardinality(ReadersOf(p)') - writers'[p]
               = topics[p] - Cardinality(ReadersOf(p)) - writers[p]
          /\ subscribers'[p] - Cardinality(ReadersOf(p)')
               = subscribers[p] - Cardinality(ReadersOf(p))
      BY <2>2, <2>5, OwnedNumbers
    <2>7. UNCHANGED LeftOf(p)
      BY <2>4, <2>5, <2>6 DEF LeftOf, LeftBehind, Used
    <2>8. [s \in ReadersOf(p) |-> filter[s]]'
            = [s \in ReadersOf(p) \cup {r} |-> IF s = r THEN new ELSE filter[s]]
      BY <2>1, <2>3
    <2>9. new \in Owned(p)!Choices
      BY OneDigitIsName DEF Owned!Choices
    <2>10. Owned(p)!Subscribe(r, new)
      BY <1>1, <1>2, <1>4, <2>1, <2>7, <2>8, OwnedNumbers DEF Owned!Subscribe
    <2> QED
      BY <2>9, <2>10 DEF Owned!Next
  <1> QED
    BY <1>3, <1>4

\* unsubscribe_now_i gives back what its subscribe() took, no more and no less.
LEMMA OwnedUnsubscribes ==
  ASSUME OwnedType, Balanced, HandleInv,
         NEW r \in Readers, Has(r), unsubscribe_now(r), NEW p \in Participants
  PROVE  [Owned(p)!Next]_(Owned(p)!vars)
  <1> USE DEF HandleInv, ReaderType
  <1> PICK q \in Participants : q = owner[r]
    BY DEF ByState, Has
  <1>1. /\ part[q] = "live" /\ reader' = [reader EXCEPT ![r] = "closed"]
        /\ topics' = Plus(topics, q, -1)
        /\ subscribers' = Plus(subscribers, q, -1)
        /\ cfts' = [cfts EXCEPT ![q] = @ \ filter[r]]
        /\ UNCHANGED <<part, owner, filter, publishers, writers>>
    BY DEF unsubscribe_now, TopicsDeleted, ByState, Has, registryVars
  <1>2. CASE p # q
    <2>1. ReadersOf(p)' = ReadersOf(p)
      BY <1>1, <1>2 DEF ReadersOf, Has
    <2> QED
      BY <1>1, <1>2, <2>1, OwnedUnchanged DEF OwnedType, Plus
  <1>3. CASE p = q
    <2>1. r \in ReadersOf(p) /\ ReadersOf(p)' = ReadersOf(p) \ {r}
      BY <1>1, <1>3 DEF ReadersOf, Has
    <2>2. Cardinality(ReadersOf(p)') = Cardinality(ReadersOf(p)) - 1
      BY <2>1, OwnedNumbers, FS_RemoveElement
    <2>3. LeftBehind(p)' = LeftBehind(p)
      <3>1. Filtered(p) /\ cfts'[p] = cfts[p] \ filter[r]
        BY <1>1, <1>3 DEF Balanced, OwnedType
      <3>2. \A s \in ReadersOf(p) \ {r} : filter[s] \cap filter[r] = {}
        BY <2>1, <3>1 DEF Filtered
      <3>3. Used(p)' = Used(p) \ filter[r] /\ filter[r] \subseteq Used(p)
        BY <1>1, <2>1, <3>2 DEF Used
      <3> QED
        BY <3>1, <3>3 DEF LeftBehind
    <2>4. /\ topics'[p] = topics[p] - 1 /\ subscribers'[p] = subscribers[p] - 1
          /\ publishers'[p] = publishers[p] /\ writers'[p] = writers[p]
      BY <1>1, <1>3 DEF OwnedType, Plus
    <2>5. /\ topics'[p] - Cardinality(ReadersOf(p)') - writers'[p]
               = topics[p] - Cardinality(ReadersOf(p)) - writers[p]
          /\ subscribers'[p] - Cardinality(ReadersOf(p)')
               = subscribers[p] - Cardinality(ReadersOf(p))
      BY <2>2, <2>4, OwnedNumbers
    <2>6. UNCHANGED LeftOf(p)
      BY <2>3, <2>4, <2>5 DEF LeftOf, LeftBehind, Used
    <2>7. [s \in ReadersOf(p) |-> filter[s]]'
            = [s \in ReadersOf(p) \ {r} |-> filter[s]]
      BY <1>1, <2>1
    <2>8. Owned(p)!Unsubscribe(r)
      BY <1>1, <1>3, <2>1, <2>6, <2>7 DEF Owned!Unsubscribe
    <2> QED
      BY <2>8 DEF Owned!Next
  <1> QED
    BY <1>2, <1>3

\* subscribe() that throws takes nothing for a reader.
LEMMA OwnedSubscribeFails ==
  ASSUME OwnedType, Balanced, OneDigitName, ReaderType, NEW q \in Participants,
         \/ SubscribeFailsEarly(q)
         \/ \E r \in Readers : SubscribeFailsLate(q, r),
         NEW p \in Participants
  PROVE  [Owned(p)!Next]_(Owned(p)!vars)
  <1>1. \A s \in Participants : ReadersOf(s)' = ReadersOf(s)
    <2>1. CASE SubscribeFailsEarly(q)
      BY <2>1, SameReaders DEF SubscribeFailsEarly, readerVars
    <2>2. ASSUME NEW r \in Readers, SubscribeFailsLate(q, r)
          PROVE  \A s \in Participants : ReadersOf(s)' = ReadersOf(s)
      BY <2>2 DEF SubscribeFailsLate, ReaderType, ReadersOf, Has
    <2> QED
      BY <2>1, <2>2
  <1>2. /\ part[q] = "live" /\ UNCHANGED <<part, publishers, writers, filter>>
        /\ topics' = Plus(topics, q, 1)
        /\ UNCHANGED subscribers \/ subscribers' = Plus(subscribers, q, 1)
        /\ ChoosesTopicInVain(q)
    BY DEF SubscribeFailsEarly, SubscribeFailsLate, registryVars, readerVars
  <1>3. PICK n \in 0..1 : subscribers' = Plus(subscribers, q, n)
    <2>1. UNCHANGED subscribers => subscribers' = Plus(subscribers, q, 0)
      BY DEF OwnedType, Plus
    <2> QED
      BY <1>2, <2>1
  <1>4. publishers' = Plus(publishers, q, 0)
    BY <1>2 DEF OwnedType, Plus
  <1>5. PICK new \in {{}, {cft_name}} :
          cfts' = [cfts EXCEPT ![q] = @ \cup new]
    BY <1>2 DEF ChoosesTopicInVain, ChoosesTopic, NameFor
  <1>6. 0 \in 0..1 /\ 1 \in 0..1
    OBVIOUS
  <1> QED
    BY <1>1, <1>2, <1>3, <1>4, <1>5, <1>6, OwnedFails, Zenon

\* Every step of the add-on is one of each participant's or no part of it.
LEMMA OwnedSteps ==
  ASSUME IInv, HandleInv, OwnInv, [Next]_vars, NEW p \in Participants
  PROVE  [Owned(p)!Next]_(Owned(p)!vars)
  <1> USE DEF OwnInv
  <1>1. CASE finalize
    BY <1>1, OwnedDeleted DEF finalize, IInv, RegistryType, Registered
  <1>2. ASSUME NEW q \in Participants, delete_participant(q)
        PROVE  [Owned(p)!Next]_(Owned(p)!vars)
    BY <1>2, OwnedDeleted DEF delete_participant
  <1>3. ASSUME NEW q \in Participants,
               create_participant(q) \/ create_datawriter(q)
        PROVE  [Owned(p)!Next]_(Owned(p)!vars)
    BY <1>3, OwnedCreated, OwnedWrites DEF IInv
  <1>4. ASSUME NEW q \in Participants,
               \/ SubscribeFailsEarly(q)
               \/ \E r \in Readers : SubscribeFailsLate(q, r)
        PROVE  [Owned(p)!Next]_(Owned(p)!vars)
    BY <1>4, OwnedSubscribeFails DEF HandleInv
  <1>5. ASSUME NEW q \in Participants, NEW r \in Readers, subscribe(q, r)
        PROVE  [Owned(p)!Next]_(Owned(p)!vars)
    BY <1>5, OwnedSubscribes DEF HandleInv
  <1>6. ASSUME NEW r \in Readers, Has(r), unsubscribe_now(r)
        PROVE  [Owned(p)!Next]_(Owned(p)!vars)
    BY <1>6, OwnedUnsubscribes
  <1>7. ASSUME NEW r \in Readers, Has(r), UNCHANGED <<registryVars, ownedVars>>,
               reader' = [reader EXCEPT ![r] = "stopping"],
               UNCHANGED <<owner, filter>>
        PROVE  UNCHANGED Owned(p)!vars
    <2>1. ReadersOf(p)' = ReadersOf(p)
      BY <1>7 DEF HandleInv, ReaderType, ReadersOf, Has
    <2> QED
      BY <1>7, <2>1, OwnedUnchanged DEF registryVars, ownedVars
  <1>8. ASSUME UNCHANGED <<part, ownedVars, reader, owner, filter>>
        PROVE  UNCHANGED Owned(p)!vars
    BY <1>8, SameReaders, OwnedUnchanged DEF ownedVars
  <1>9. ASSUME NEW r \in Readers, unsubscribe(r) \/ WorkerCallback(r)
        PROVE  [Owned(p)!Next]_(Owned(p)!vars)
    BY <1>6, <1>7, <1>8, <1>9
    DEF unsubscribe, WorkerCallback, registryVars, readerVars
  <1>10. ASSUME \/ initialize \/ TakeEnds \/ UNCHANGED vars
                \/ \E r \in Readers :
                       TakeBegins(r) \/ CloseCb(r) \/ UnsubscribeOrphan(r)
         PROVE  UNCHANGED <<part, ownedVars, reader, owner, filter>>
    BY <1>10 DEF initialize, TakeEnds, TakeBegins, CloseCb, UnsubscribeOrphan,
                 vars, registryVars, readerVars
  <1> QED
    BY <1>1, <1>2, <1>3, <1>4, <1>5, <1>8, <1>9, <1>10 DEF Next

\* What each participant owns is owned by one subscription, by one writer or by
\* nobody: a step of the program, in a callback or out of one, is one call on
\* that participant (src/node-opendds.cpp:214-360, 480-491) or none. So
\* unsubscribe_now_i gives back all its subscription took, once, in a living
\* participant, and what a failed call left goes only with the participant.
THEOREM ParticipantsOwnTheirEntities == Spec => EntitiesHaveOwners
  <1> DEFINE Steps == \A p \in Participants : [Owned(p)!Next]_(Owned(p)!vars)
  <1>1. Init => \A p \in Participants : Owned(p)!Init
    BY OwnedInit
  <1>2. IInv /\ HandleInv /\ OwnInv /\ [Next]_vars => Steps
    BY OwnedSteps
  <1> HIDE DEF Steps
  <1>3. Spec => [][Steps]_vars
    BY <1>2, Invariance, HandleInvariance, OwnInvariance, PTL DEF Spec
  <1>4. Spec => Init
    BY DEF Spec
  <1> QED
    BY <1>1, <1>3, <1>4 DEF EntitiesHaveOwners, Steps
=============================================================================
