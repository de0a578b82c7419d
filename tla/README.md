# A verification model of node-opendds

node-opendds is a Node.js add-on that lets a JavaScript program publish and
subscribe with OpenDDS. The code is small; what is hard about it is where it
stands: between the transport threads of OpenDDS, the event loop of libuv, the
garbage collector of V8 and counted references that each of them may drop.
These modules model that code, TLC checks them on small instances, and TLAPS
proves most of their safety properties for instances of any size.

Paths below are relative to the repository (`src/...` is its source directory).

## Inventory

| Component | State | Operations |
|---|---|---|
| Factory, participants (`src/node-opendds.cpp`) | the factory in a JS object, `participants_` | `initialize`, `create_participant`, `delete_participant`, `finalize` |
| Subscriptions (`src/node-opendds.cpp`) | topics, subscribers, readers, ContentFilteredTopics in OpenDDS; the reader in a JS object; `cft_name` | `subscribe`, `unsubscribe` |
| Sample listener (`src/NodeDRListener.*`) | `mutex_`, `receiving_samples_`, `unsubscribing_`, `unsubscribed_`, `dp_`, `js_dr_`, the uv handle, its reference count | `on_data_available`, `async`, `push_back`, `unsubscribe`, `unsubscribe_now`, `close_cb`, `UnsubscribeWorker` |
| Discovered participants (`src/NodePBITListener.*`) | `part_data_`, `infos_`, the uv handle; no lock | `on_data_available`, `async`, `shutdown`, `close_cb`, `(un)subscribe_participant_topic` |
| Sample to JavaScript (`src/NodeValueWriter.*`) | `object_stack_`, `next_key_`, `next_index_`, `result_` | `begin_...`, `end_...`, `write_...`, `get_result` |
| JavaScript to sample (`src/NodeValueReader.*`) | stacks of objects, property names and indices | `begin_...`, `members_remaining`, `member_has_value`, `read_...` |
| DataWriters (`src/node-opendds.cpp`) | topics and writers in OpenDDS | `create_datawriter`, `register_instance`, `write`, `unregister_instance`, `dispose`, `wait_for_acknowledgments` |
| Type libraries (`load`), entry point (`lib/node-opendds.js`), build | none while the program runs | |

How they interact:

- A DDS thread stores a sample and calls `on_data_available`, which only calls
  `uv_async_send`. libuv merges sends; the loop later dispatches `async`, which
  calls `take` with the listener itself as the container: OpenDDS calls
  `push_back` for each sample, which converts it with the `NodeValueWriter` of
  the subscription and calls the program's callback.
- The callback may call anything, `unsubscribe` of its own reader included
  (`test/test_subscriber.js` does so from a timer). While `async` is running
  `unsubscribe` only sets `unsubscribing_`, and the end of `async` queues an
  `UnsubscribeWorker`, whose callback does the work in a later loop event.
- `unsubscribe_now_i` closes the uv handle and deletes reader, subscriber and
  topics. The listener lives as long as its references: the reader's, those of
  DDS threads that call it, and one taken for the time `uv_close` needs.
- `write` and the instance operations read a JavaScript object with a
  `NodeValueReader` into a C++ value and hand that to OpenDDS. Getters of the
  object run meanwhile and may call the add-on again.
- `wait_for_acknowledgments` blocks the JavaScript thread until DDS threads have
  received what it waits for; the same threads wait for listeners' mutexes.
- `delete_participant` and `finalize` delete everything below a participant and
  tell no listener.

What is hard to test: interleavings of DDS threads, loop and thread pool around
the three flags; the order of `close_cb`, pending sends and workers; calls from
inside callbacks; failures between two creations of a call; a name that comes
back after 54 uses; a write that fails in the middle of a sample; a reader's
cursor after nested values and unions; integers beyond 2^53. `hazards` in
`PROJECT.json` lists them at their lines, with the properties that watch them.

What makes each component correct:

- *Sample listener*: nothing freed or deleted is used; no sample is lost or
  delivered twice; none is delivered after `unsubscribe`; each wake-up and each
  request to stop has its effect; nothing leaks.
- *Factory and subscriptions*: `finalize` deletes each participant that is left
  and none again; `unsubscribe` gives back what `subscribe` took; handles do not
  outlive listeners.
- *Names*: no two ContentFilteredTopics of a participant share one.
- *Discovered participants*: the newest sample is reported, and the sequences
  are never read empty or from a freed listener.
- *Value writer*: the JavaScript value is the sample, whatever came before it.
- *Value reader*: each part of a sample comes from its own place in the value,
  none is skipped, and a value is refused only if it does not fit the type. (Maps
  and fixed-point numbers are always refused.)
- *64-bit integers*: the same on both sides, wherever a form can hold them.
- *DataWriters*: values are freed, the program is told what happened; a wait for
  acknowledgments ends.

## Modules

| Module | Models | Role |
|---|---|---|
| `Subscription` | what `subscribe(..., callback)` promises | abstract specification |
| `ListenerLife` | handle, workers and stage of one listener, without threads | abstract specification, between the next one and `NodeOpenDDS` |
| `NodeDRListener` | one subscription with its threads, loop, handle, workers | core; implements `Subscription` and `ListenerLife` |
| `NodeDRListenerProofs` | | its theorems, and those of `Acknowledgments` |
| `ParticipantEntities` | what OpenDDS holds for one participant, and whose it is | abstract specification of a participant's part of `NodeOpenDDS` |
| `CftNames` | `cft_name` and `increment()` as operators | used by the next two |
| `ContentFilteredTopics` | one participant's filtered topics over time | when names return |
| `ContentFilteredTopicsProofs` | | its theorems |
| `NodeOpenDDS` | factory, participants, `subscribe`, `unsubscribe`, `create_datawriter`, all of a program's calls | composes the names with listeners reduced to their handle and workers; implements `ListenerLife` for each, and `ParticipantEntities` for each participant |
| `NodeOpenDDSProofs` | | its theorems |
| `NodePBITListener` | reports of discovered participants | |
| `NodePBITListenerProofs` | | its theorems |
| `NodeValueWriter` | samples to JavaScript values | |
| `NodeValueWriterProofs` | | its theorems |
| `NodeValueReader` | JavaScript values to samples | |
| `NodeValueReaderProofs` | | its theorems |
| `Int64Values` | 64-bit integers through writer and reader, again and again | |
| `Int64ValuesProofs` | | its theorems |
| `DataWriter` | `register_instance`, `write`, `unregister_instance`, `dispose` | |
| `DataWriterProofs` | | its theorems |
| `Acknowledgments` | `write`, `wait_for_acknowledgments` beside a subscription | composes a DataWriter with `NodeDRListener`; implements its safety part |
| `MC...` | | model checking: symmetry sets |

Names follow the source (`receiving_samples`, `unsubscribing`, `next_key_`,
`increment`, ...). An operator whose name ends in `_Bug` is a plausible mistake
in the operator after it; no action uses it. `mutants` in `PROJECT.json` pairs
each with the property that rejects it.

### NodeDRListener

`loop` is where the JavaScript thread is, `dds[t]` where DDS thread `t` is in
`on_data_available`, `mutex` who owns `mutex_` between two steps. Only a DDS
thread can own it there: a critical section of the loop is one step, enabled
while the mutex is free, since the loop would wait for it. `refs` is the set of
holders of a counted reference; the listener is freed when it is empty.

| Code | Action |
|---|---|
| `subscribe`: listener made / reader made / failure / return | `Init`, `CreateReader`, `SubscribeFails`, `SetJavascriptDatareader` |
| `async` up to its unlock, `take`, from its second lock | `Async`, `Take`, `AsyncEnds` |
| `push_back`: skip, failed write, callback | `PushBack`, then `CallbackReturns` |
| exception caught in `async` | `TakeThrows` |
| `unsubscribe`: null field, deferred, now | `Unsubscribe` |
| `unsubscribe_now_i` before and after its unlock | `UnsubscribeNowI`, `Detach` |
| worker `Execute`, `HandleOKCallback` | `ExecuteWorker`, `HandleOKCallback` |
| `close_cb` | `CloseCb` |
| `on_data_available`: lock and test, send and unlock | `OnDataAvailable`, `AsyncSend` |
| OpenDDS before and after that call | `Arrive`, `ListenerReturns` |

Undefined behaviour ends a run in a state of `loop` named for the code that met
it ("fault in async", "fault in unsubscribe", "fault in worker").

### NodeOpenDDS

A call of the program is one step, also when it comes from inside a sample
callback, which is between `TakeBegins` and `TakeEnds`. A listener is only its
uv handle, its workers and whether it exists. That this is what is left of a
`NodeDRListener` when one looks away from its threads is checked and proved, not
assumed: `ListenerLife` specifies that part, and both implement it (`LivesOnce`,
`ListenersLiveOnce`).

`ParticipantEntities` says what a program may rely on, without listeners,
callbacks, names to come or shared counters: a participant is made, used and
deleted; each subscription and writer has entities of its own; what a failed
call leaves belongs to nobody and goes only with the participant.
`NodeOpenDDS` has OpenDDS's counters instead, and the entities of nobody are
what is left of them (`LeftOf`) when those of `ReadersOf` and `writers` are
taken away.

Failures are split at the construction of the listener (`SubscribeFailsEarly`,
`...Late`), as that decides what they leave behind. For an invalid filter
OpenDDS makes no topic, but its name is used up (`ChoosesTopicInVain`).

`cleared` are the participants whose JavaScript object names none any more. Only
`delete_participant` clears it: `finalize` deletes the participants and clears
the factory's object alone (`src/node-opendds.cpp:726`), so a program may call
`delete_participant` after `finalize`, and OpenDDS is asked a second time. The
objects of readers that went with their participant are not cleared either;
`unsubscribe` of one finds no listener and dereferences null
(`UnsubscribeOrphan`, which ends the run as a fault). Programs that use a
participant or reader whose object was cleared are left out: the code
dereferences null at once.

### ContentFilteredTopics

`age` counts the names handed out since a topic got its own, up to 54.

### NodePBITListener

There is no lock, so `take()` stores the two sequences in two steps, in either
order, and `async()` reads them in two steps. The reader keeps the last sample
of each participant and takes are serialised; both are OpenDDS's.

### NodeValueWriter

The begin/end/write calls are actions; `walk`, `at` and `sent` are OpenDDS
walking a sample, and `Below` reads back the JavaScript value that was built.
All value types that go through `value_helper` are one action. A bitmask goes
through `insert_object`, which picks the property the same way. The handles on
`object_stack_` last as long as the handle scope of one `async()`, which ends
in `scope_ends`; a sample begun on handles of an ended scope ends in "fault".

### NodeValueReader

A JavaScript value is a tree that is chosen as it is looked at: what lies under
a key is decided when `Nan::Get` reads it (`JavaScriptObjects`), an Object with
names in any order, an Array, or a leaf. The type is chosen in the same way, in
`walk`, as OpenDDS goes through it. An Object may have indexes for keys (a typed
array, or `{"0": 1, "1": 2}`), which is enough for an array of primitives. The
reader's state is its own: `current_object_`, `current_index_`,
`current_property_name_`, `use_name_` and the two stacks; `property_names_` is
the list of keys of the current object. `Found` and `FoundPrimitive` are the two
ways the code looks a value up, and `got` remembers from where each part of the
sample was read. A value that V8 is asked for with an empty name, or as an Array
that it is not, ends in "crashed".

`begin_map` and `read_fixed` return false whatever the value
(`src/NodeValueReader.cpp:196`, `:349`), although the changelog has map types
"implemented" in the reader since 0.3.1 (the repository's `README.md:59`). A
walk that comes to one ends in "unsupported", which is neither "done" nor
"failed": what is said of values that are refused is not said of such types. A
getter that throws is a value that is not there: if the member is required the
read fails, if it is optional it is left out (`member_has_value`).

| Code | Action |
|---|---|
| `begin_nested`, for `begin_struct`, `begin_union`, `begin_array`, `begin_sequence` | `begin_nested` |
| `begin_struct_member`, `members_remaining`, `member_has_value` | `begin_struct_member`, `member_has_value` |
| `begin_discriminator`, `begin_union_member` | the same |
| `elements_remaining`, `begin_element` | `begin_element` |
| `end_struct_member`, `end_discriminator`, `end_union_member`, `end_element` | `end_item` |
| `end_nested`, for the four `end_...` | `end_container` |
| `read_...` | `primitive_helper`, `read_converted`, `read_bitmask`, `read_string`, `read_unsupported` |

### Int64Values

An integer of a sample becomes a Number, BigInt or String (`Written`) and is
read back (`Read`), or a program gives one in any of these forms, and it may be
relayed some times. Numbers are doubles scaled down: exact up to `MaxSafe`,
then spaced by powers of 2 and rounded to even; the text of one is the shortest
decimal that denotes it, which the reader hands to `sscanf`. That is why a
large Number does not come back as the double it was, and why `NoDrift` says
that it is one `Spacing` off at most, and that what was once written and read is
the same ever after (`Settled`).

### DataWriter

A call is on `open` from `new_value` to its end; one on top of it is made by a
getter of its sample. It ends by `ReadFails` or by `Finish`, where OpenDDS did
it or refused. `BadArguments` is a call that ends before `new_value`.

`pending` is an exception that the read has left behind and gone on after
(`LeavesPending`). There are two ways to it. The getter of an optional member
throws: `member_has_value` gets nothing and says so, and the member is left out.
Or a text such as "12 units" is given for a 64-bit integer:
`Nan::To<v8::BigInt>` throws, and `sscanf` makes 12 of it. The call is done and
throws all the same; `excepted` marks it in `log`. Getters of the members that
follow would run with the exception pending, and the add-on's functions called
from them; what V8 does then is not modelled.

A call on a writer that was deleted with its participant, before it or in a
getter, ends in `UsesDeleted`: nothing clears a writer's object. Unregistering
does not take an instance's handle away in the model; OpenDDS may then refuse
the handle, which it may always do.

### Acknowledgments

`NodeDRListener` as it is, with a DataWriter of the same program. While
`waiting`, the JavaScript thread takes no step of the listener; DDS threads do.
A thread receives one thing at a time: an acknowledgment (`Acknowledge`), or a
sample for the reader (`Receives`), which it then has to store (`Stores`).
`take` with its calls of `push_back` is "an atomic operation" (the repository's
`README.md:116`): OpenDDS has the reader locked meanwhile, so a sample is stored
before or after it, and a thread with one is held up for as long as a callback
is running. This is stronger than in `NodeDRListener`, where samples also arrive
during a take: what is safe there is safe here, but here a wait in a callback
has fewer threads to count on.

## Runs

| Run | Instance | Distinct states | Question |
|---|---|---|---|
| `listener_safety` | 2 threads, 3 samples, 2 calls of `unsubscribe` | 6.6 thousand (with symmetry) | all safety properties of the listener |
| `listener_liveness` | 2 threads, 2 samples, 1 call | 1.9 thousand | liveness and the refinement |
| `listener_worker` | 1 thread, 2 samples, 1 call | stops at a violation | does a worker find its listener? no |
| `cft_names` | 6 digits, 2 topics | 11.5 thousand | when can a name return? |
| `cft_unique` | 6 digits, 2 topics | stops at a violation | are names unique? no |
| `addon` | 2 participants, 2 readers, 1 failure each, 1 writer, 1-digit names | 762 thousand (with symmetry) | deletions, balances, owners, handles |
| `participant_topic` | 2 participants, 2 threads, 2 listeners, 2 samples each | 106 thousand (with symmetry) | races of take and async |
| `value_writer` | 2 members, depth 3, 4 values, 2 samples | 5.4 million | shape of results, failures, handle scopes |
| `value_reader` | 2 member names, values of 5 parts, 3 deep | 10 million (with symmetry) | every value against every type |
| `int64` | 4-bit exact Numbers, 9-bit integers, 3 relays | 76 thousand | where is an integer kept, how far off can it be? |
| `data_writer` | 2 keys, 3 calls, nested 2 deep | 112 thousand (with symmetry) | values and results of calls |
| `acknowledgments` | 2 threads, 3 samples, 1 write, 1 `unsubscribe` | 88.5 thousand | does the wait end? |

Why the bounds are enough. Two threads are the least at which one thread holds
`mutex_` while another waits for it and a send meets a pending one; three
samples fill a batch, arrive during `take`, and are left over. Two calls of
`unsubscribe` give a deferred one followed by a direct one. A second dispatch of
`async` after the request, and so a second worker, needs two samples. The names'
run has the code's six digits. One filtered topic would be enough for a name to
return; two let another one be created in between. In `addon` one-digit names
return after nine uses, though two readers and the failures use at most four:
names there differ, and reuse is the business of `cft_names`. Two listeners and
two samples of a participant are the least at which a thread of the displaced
listener takes the other's sample. In `value_writer` depth 3 puts a value after
a nested container that itself had one; a second sample is needed to see what a
failure leaves. `value_reader` has the same depth; five parts are a union in a
struct, two parts of it, and the next member of the struct. Two names with
`$discriminator` are the least at which a search goes past one to find another.
In `int64` exact Numbers have 4 bits and integers 9, so several powers of 2 lie
between them, with ties and texts that end in zeros. Three calls in
`data_writer` give a call inside a call inside a call. In `acknowledgments` one
sample runs the callback that waits while two more keep both threads: on their
way into the listener, or waiting to store. With two samples one thread would
always be free to receive.

Deadlock is checked in the listener's, the names' and the acknowledgments' runs;
the listener may rest where `Quiescent` holds, and nowhere else. (A wait that
lasts is not counted as a deadlock: `WaitReturns` is about it.) The other models
stop once their bounded calls are used up (`CHECK_DEADLOCK FALSE`).

### Properties

NodeDRListener: `AsyncSafe` (a dispatch finds listener and reader),
`TakeProtected` (nothing goes away under a running take), `Conservation` (every
sample is in one place), `NoDeliveryAfterUnsubscribe` (an action property),
`WorkersBounded`, `HandleKeepsListener`, `NoLeak`; with fairness `NoLostWakeup`,
`StopCompletes`, `ImplementsSubscription`. `LivesOnce` is the other refinement:
over all interleavings the handle is closed at most once, never under `async`,
and each worker follows an `async` that saw the request, the second one only if
a send was pending.

ContentFilteredTopics: `OneDigit`, `NoEarlyReuse`.

NodeOpenDDS: `DeletionsExplained`, `EntitiesBalanced`,
`DanglingHandlesExplained`, `TakingReaderIsKept`, `EntitiesHaveOwners`,
`ListenersLiveOnce`. `DeletionsExplained`: `finalize` deletes exactly what
`delete_participant` did not, and a participant is deleted a second time only by
a program that calls `delete_participant` after it. `EntitiesBalanced` bounds
what is left behind in a state; `EntitiesHaveOwners` says of each step, as a
refinement of `ParticipantEntities` for every participant, that it leaves the
entities of nobody alone unless it fails or deletes the participant, and that no
subscription is given back twice or in a participant that is gone.
`ListenersLiveOnce` says that each reader's part of every step is one of
`ListenerLife`. `DanglingHandlesExplained` and `TakingReaderIsKept` state the
only circumstances in which the code lets a handle or a running `async` outlive
its listener: a `subscribe` that failed late, a participant deleted under its
subscriptions.

NodePBITListener: `SettledIsCurrent`, `AsyncFindsSample`, `BacklogBounded`,
`DanglingHandlesExplained`.

NodeValueWriter: `ResultIsSample`, `StackFollowsWalk`, `NoResultAfterFailure`,
`StaleHandlesExplained` (a handle of an ended scope is used only after a failed
write).

NodeValueReader: `ReadsItsOwn` (each part from its own place), `LookupsAgree`
(of the code's two ways to look up), `NothingSkipped` (what was read is what
lies before the cursor, in every open container), `AcceptsWhatFits` (refused if
and only if something is missing, for types without maps and fixed-point
numbers), `CrashExplained`.

Int64Values: `ExactWhereSafe` (what `Kept` leaves out is the code's loss:
`write_int64` compares with the largest safe integer only, so a value below
-2^53 becomes a Number and is rounded, where a positive one of the same size
becomes a BigInt or a String), `NoDrift`.

DataWriter: `ValuesFreed`, `ProgramIsTold` (a call throws exactly if it was not
done, or an exception is pending from its read).

Acknowledgments: `WaitReturns`. From the loop a wait returns. From a sample
callback it does too, except when every DDS thread has a sample to store in the
reader whose take the callback is in: then nobody is left to receive the
acknowledgment, and the program hangs. TLC finds that state if the exception is
left out.

The runs of `NodeDRListener`, `NodeOpenDDS`, the names, `NodePBITListener`,
`NodeValueReader`, `NodeValueWriter`, `Int64Values`, `DataWriter` and
`Acknowledgments` leave the type invariants out: they are proved (`TypeCorrect`,
`TypesOfIntegers`, `WriterTypes`).

### What the violations show

- `WorkerFindsListener` (`src/NodeDRListener.cpp:91`). A sample arrives while
  `async` is in a callback and its send is pending when the callback
  unsubscribes. `async` ends and queues a worker; the pending send dispatches
  `async` again, which skips the sample, still sees `unsubscribing_` and queues
  a second worker. The first worker closes the handle and deletes the reader,
  `close_cb` drops the last reference, and the second worker calls a method of
  a freed object.
- `NamesAreUnique` (`src/node-opendds.cpp:28`). `increment` carries by moving a
  1 to the left and clearing the digit: 000009, 000010, 000020, ..., 900000,
  000001. After 54 names the first one returns.

Not violations but described by properties that hold: after one failed write a
subscription never has a value again (`NoResultAfterFailure`: `get_result` is
an empty handle from then on), and a second `subscribe_participant_topic`, or
deleting a participant that is still subscribed, leaves a handle of a freed
listener in the loop.

## Fairness

`NodeDRListener!Spec` assumes: running code of the loop makes progress and
callbacks return (`LoopRuns`); the loop dispatches a pending handle, a finished
worker and a closing handle in the end, each weakly fair, since libuv serves all
of its queues in every iteration; the thread pool runs queued workers; a DDS
thread inside `on_data_available` goes on. Samples, failures of conversion and
calls of `unsubscribe` are not fair. `Subscription` assumes fairness of `Close`
alone, and `ImplementsSubscription` shows that it follows.

Weak fairness is enough although a dispatch is disabled while other loop code
runs: samples and calls are bounded, so that happens finitely often.

`Acknowledgments!WriterSpec` has its own fairness, and only what `WaitReturns`
needs: a DDS thread inside the listener goes on when the mutex is free, one with
a sample stores it when the reader is free, some idle thread receives an
outstanding acknowledgment, and a wait with none outstanding returns. That there
are acknowledgments to receive is OpenDDS's: the topic's readers are reliable or
go away. No fairness is given to a thread that the listener's mutex or the take
holds up, nor to the loop, nor to samples that may arrive.

## Proofs

`NodeDRListenerProofs` (for every set of threads and samples and every bound on
the calls) proves `IInv` inductive and everything safe from it. `IInv` is:

- `TypeOK`;
- `Lifecycle`: for each place `loop` can be in, what the handle, the reader,
  the internal field and the three flags are there. None of the safety
  properties is inductive: that `async` is not dispatched on a cleared reader
  needs that clearing and closing go together, that closing leaves the loop in
  `Detach`, and that a take in progress excludes both;
- `References`: exactly who holds a reference at each stage, so that the set is
  empty only after `close_cb` or a failed `subscribe`;
- `Sending`: what a thread between the test of `unsubscribing_` and its send
  implies: it owns the mutex, so nothing changes the flag under it;
- `WorkerBudget`: workers made, plus one if `async` is running, plus one if a
  dispatch is still possible, is at most 2 once `unsubscribing_` is set. This is
  the argument for `WorkersBounded`, which by itself says nothing about the
  send that will make the second worker;
- `SampleFlow`: batches exist only while taking, and what was delivered and
  stored has arrived. The refinement needs it.

The proof that `Next` preserves it has one lemma per part and one step per
action. `TypeCorrect`, `AsyncIsSafe`, `TakeIsProtected`, `WorkersAreBounded`,
`HandleKeepsTheListener` and `NothingLeaks` follow from `IInv`;
`NothingAfterUnsubscribe` is a step property under it; `Implementation` maps
initial states and every step to the abstract specification. The assumptions are
the two named in the module: thread names differ from the other holders, and the
bound on calls is a number.

`ContentFilteredTopicsProofs` proves, for any number of digits, that
`increment` keeps exactly one digit that is not zero, and that a topic's age
tells the distance between its name and the current one on the cycle of
9 * Digits names, from which late reuse follows.

`NodeDRListenerProofs` also proves `SamplesAreConserved`: that a sample is in one
place only is not inductive by itself, but a partition of the arrived samples
among reader, batch, callback and the rest is (`PartitionInv`).

`NodeOpenDDSProofs` proves, for any participants, readers and writers, that a
participant is deleted again only by a program that still has its object after
`finalize`, and then once (`DeletedAgainByProgramOnly`). `IInv` says how many
deletions a participant has for the state it is in and whether its object is
cleared (`DeletedAsCalled`), that `participants_` are the live ones and that
none lives once the factory is deleted, which is what keeps `finalize` from
deleting one twice. `HandleInv` says what the state of a reader tells of its
handle and participant, and that the reader being taken from is live, stopping
or an orphan; it gives `DanglingExplained` and `TakingReaderStays`.
`NothingLeaksOrIsShared` is the balance of a participant's topics, subscribers,
publishers and filters (`OwnInv`). It is not inductive: that `unsubscribe` gives
back what *this* reader took needs `HandleInv` (its participant lives and owns
it), and that a new filter is not one in use needs that OpenDDS refuses a name
it has. That a participant has finitely many readers is part of the invariant,
not an assumption: they are made one by one. `TypeCorrect` adds `WorkersMatch`,
that no reader has more than two workers, and that a filter's name keeps exactly
one digit that is not zero.

`ParticipantsOwnTheirEntities` maps every step of `NodeOpenDDS` to a step of
`ParticipantEntities` or a stutter, for each participant. One lemma per kind of
call (`OwnedSubscribes`, `OwnedUnsubscribes`, `OwnedFails`, ...) shows that the
counters and the set of readers move together, so that `LeftOf` stays as it was;
a step on one participant is a stutter of the others (`OwnedUnchanged`). It rests
on `OwnInv` for the counters and names and on `HandleInv` for a participant that
lives; `IInv` is needed for `finalize`, which must delete only participants that
live. A subscription that fails because OpenDDS refuses its filter's name leaves
no name, since the one it wanted is another's.

`NodePBITListenerProofs` proves every property of `NodePBITListener`, for any
participants, threads and listeners. `Fresh` and `Registered` follow a listener
from before it is made until its handle closes: while none was displaced and the
participant lives, the one with an open handle is the reader's and all threads
are in it (`OnlyListener`, `OnlyWithin`). `Told` is the last sample under the
condition that no thread is inside and no send pending, also between the two
reads of `async`. `Filled` is the argument that `async` never finds an empty
sequence: as long as one is empty nobody has sent, and a thread that was called
finds an unread sample unless another is just storing one.

`NodeValueWriterProofs` proves, for values of any size, depth and number, that
a failed write is the end of a subscription's values (`FailureIsForEver`), and
that only such a write leads to the use of a stale handle
(`StaleOnlyAfterFailure`). Only the two depths matter: `Depths` says that the
stack of objects is at least as deep as the walk of the sample, and deeper
exactly when something has failed, which no later call undoes; `Results` then
follows from `end_struct` and `end_sequence` storing a result only at depth 1.
`TypeCorrect` adds that every handle it keeps and every property it sets is of
an object that was made (`Handles`), also after failures.

`StackIsTheWalk` and `ResultIsTheSample` are about the writes that succeed.
`LinkInv` says that each object on the stack was set in the one beneath it,
under the key the walk is at, and that objects higher up are newer.
`SentInOrder` says that what was sent lies before the place of the walk in the
order of the walk, so that no path is sent twice. `TreeInv` is the heart: there
is a map from the paths of the containers sent to the objects made, one to one
and onto, under which the properties set are exactly the values sent, and the
stack holds the objects of the containers that are open. `ResultIsTheSample`
turns that map into the shape of the value at every depth. `Below`, which
describes that shape, is a recursive function, so two facts are needed about it:
that a function with its equations exists (the sample gives one, `SampleMeets`,
`BelowMeets`), and that there is only one (`OnlyOne`), by induction on the
number of levels. The provers cannot use the library's induction theorem for
that, as it takes an operator, so `UpTo` does the induction over the set of
numbers that satisfy the claim, by its least counterexample (`Least`).

`NodeValueReaderProofs` proves, for any names and any value and type,
`ReadsFromItsPlace`, `OneWayToLookUp`, `CrashNeedsMisfit` and
`RefusesMisfitsOnly`, the last but for types with maps or fixed-point numbers.
The invariant relates each level of the two stacks to the level of the walk
above it: the object there has the path of the walk, and its index is the key
the walk is at; so what `end_nested` restores is right whatever happened inside.
`AllIsReadInOrder` proves `NothingSkipped` from `ReadInv`, which adds what was
read at each depth: everything before the index of that depth, and nothing after
it. What is due next was not read before (`ValueIsNew`), so a container that is
entered starts with nothing read in it.

`DataWriterProofs` proves `NoValueLeaks` and `ToldTheTruth` for any number and
nesting of calls. Calls have identities (`Ids`), so that what becomes of the
innermost says nothing of those around it.

`ListenerLivesOnce` and `ListenersKeepTheirLife` prove that `NodeDRListener`, and
each reader's part of `NodeOpenDDS`, implements `ListenerLife`. The first needs
`Pledge`: a deferred `unsubscribe` has a worker under way or an `async` that will
queue one, so with `WorkerBudget` a send that was pending starts `async` beside
exactly one worker, which is the guard of `TakeBegins` in the other two. The
second needs `HandleInv` and `WorkersMatch`. The step of a worker whose listener
only a DDS thread still holds, in vain but no error, is in `NodeOpenDDS` because
this refinement asks for it.

The last part of `NodeDRListenerProofs` proves that a step of `Acknowledgments`
is a step of the listener or a stutter (`WaitingIsInvisible`), and with it
carries theorems of the listener over (`TakeProtectedWhileWaiting`,
`PromiseKeptWhileWaiting`).

`Int64ValuesProofs` proves `SafeIntegersAreExact`, `TypesOfIntegers` and
`RelayingDoesNotDrift`, for any widths and any number of relays.
`ExactWhereSafe` is not inductive: a `Number` that is right now may be wrong
after the next relay. `ExactInv` adds that the JavaScript value is in a form that
can hold its integer (`Faithful`), which `use_bigint_` changes between relays
but cannot lose.

For `NoDrift` the rounding itself is needed. A number beyond `MaxSafe` has a size
(`Fits`): the one power of 2 that is the distance of the doubles around it. From
that follow that rounding keeps the order of integers (`DoubleGrows`), is done
once (`DoubleStays`), and that a decimal is rounded to the double it was printed
from (`TextOf`). So an integer that went through a `Number` still has the same
double (`ThroughOf`), also where `sscanf` cut it at the end of the range, and
after any number of relays there are only two integers it can be (`DriftInv`).
They are one `Spacing` apart at most: half of it by rounding, half by printing,
except where the next size begins, where printing alone might be off by as much.
The powers of 2 are a recursive function, `Twos`, because the provers know
nothing of `^`; `PowersExist` shows that there is one.

The assumptions are those named in the modules: names differ from each other,
bounds are numbers, and member names, participants and threads are finite.
`NumbersAssumption` says three things of `Int64Values`: `MaxSafe` is odd; the
powers reach beyond what is converted (`MaxExponent` 13 for 64 bits); and where
a size begins, the text is at most half of the smaller distance off. The last is
about digits, is not true of every scale, and is evaluated by TLC for the scale
of the run. For 2^53 - 1 and 2^63 - 1 it is about the twelve powers from 2^54 to
2^65 and their negatives: the text of the first is exact, and the others are
off by 2, 4, 2, 4, 12, 24, 48, 96, 192, 384 and 232, where 2, 4, 8, ... and 2048
are allowed.

Only model-checked: all liveness, `WaitReturns` included, and the fairness half
of `ImplementsSubscription` (TLAPS does not do liveness under fairness here).
Every invariant of the passing runs is proved.

## Not modelled

- `load`, `lib/node-opendds.js`, the build, the tests: no state.
- Argument checks and qos conversion, except that they can fail.
- The conversion of values other than 64-bit integers; integers of 10^21 and
  more, whose text has an exponent; a handle given to `write` as a Number that
  does not fit its 32 bits.
- In `NodeValueReader` the numeric fallback of `read_long_enum`
  (`src/NodeValueReader.cpp:405`): what it depends on is the text of the value.
- Getters that run while an exception of an earlier one is pending, and calls of
  the add-on from them.
- Samples with invalid data (`src/NodeDRListener.cpp:119`): they are not written
  and the callback gets `undefined`.
- After a failed write, that `get_result` hands an empty handle to `Nan::Call`:
  `NodeValueWriter` says that there is no value, not what V8 makes of it.
- `UnsubscribeWorker::Destroy`, which is empty (`src/NodeDRListener.cpp:203`), so
  that no worker is ever freed; the `Persistent` handles of callbacks and
  readers. `NoLeak` is about the listener, its handle and its reader only.
- Exceptions thrown by `take` before it removes samples; V8 out of memory;
  `wstring` surrogates; the text of `SampleInfo`.
- A program that uses a cleared reader or participant object (a null pointer in
  the code), except the second `unsubscribe` of `NodeDRListener`. Objects that
  are not cleared when what they name is deleted are used: by
  `delete_participant` after `finalize`, `unsubscribe` of a reader whose
  participant is gone, and calls on a writer that is.
- A crash of the process by the data race of `NodePBITListener`.

## Plan

Done, in this order: `Subscription`, `NodeDRListener` with its proofs;
`CftNames`, `ContentFilteredTopics` with their proofs; `NodeOpenDDS`;
`NodeValueWriter`; `NodePBITListener`; `NodeValueReader`; `Int64Values`;
`DataWriter`; `Acknowledgments`; proofs about each of them; `ListenerLife`;
`ParticipantEntities`.

Left: a round trip of `NodeValueWriter` and `NodeValueReader` over one value.
