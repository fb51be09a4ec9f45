# cpp-advanced-exercises in TLA+

A verification development for the three containers of this repository and the
test executables that exercise them. It says what each is made of, which module
models it, what the model checker shows on small instances and what is proved for
every instance.

## The system

The repository is three independent exercises. Each has a container, its test
suites (`src/*_suite.cpp`, run by `src/Test.cpp`) and a copy of the CUTE test
framework (`cute/`).

| Part | State | Operations | Who interacts |
|---|---|---|---|
| `ExW11/src/BoundedQueue.h` | per queue: `mx_`, two condition variables, `index_`, `size_`, `capacity_`, raw memory `container_` | `push` (blocking), `try_push`, `try_push_for`, the three `pop`s, `empty`/`full`/`size`, `swap`, copy/move construction and assignment, destruction | any number of threads on any number of queues; `std::lock` when two queues are involved |
| `ExW7/src/BoundedBuffer.h`, class `BoundedBuffer` | `index_`, `size_`, `capacity_`, raw memory | the sequential ancestor of the queue: `front`, `back`, `push`, `pop`, `swap`, `at`, `clear`, `make_buffer` | one caller; element constructors that may throw |
| `ExW7/src/BoundedBuffer.h`, class `BBIterator` | a pointer to a buffer and an index | random access arithmetic, dereference, comparison | reads the buffer's size at every check, so it depends on pushes and pops made after it was created |
| `ExW3/src/BoundedBuffer.h` | `std::array`, a count and a `RingN<N>` index | as above, with default-constructed elements and no raw memory | one caller |
| `MemoryOperationCounter.h` (each exercise) | counters of copies and moves | the element type with which the tests count memory operations | the containers |
| test suites, `times_literal.hpp` | static counters of their element, mutex and condition variable types; threads and futures of the multi-threaded tests | scenarios and expectations | the containers |
| `cute/` | the command-line filter, the listener's counters | runs suites and tests, catches what leaves them, counts | the suites |
| `Debug/` | - | generated makefiles | - |

What is hard to test in them:

* **BoundedQueue**: every interleaving of waiting, notification and timeouts; a
  predicate evaluated before an action that relies on it; `std::lock` on two
  queues in both orders; members of a queue (its capacity) read without its mutex;
  a queue's content exchanged under threads that wait on it; an element whose
  copying or moving throws in the middle of an operation, and the elements and the memory
  that an exchange or an unwinding must not forget; an index that only grows.
* **BoundedBuffer (ExW7)**: which slots hold constructed elements, when a
  constructor throws in a copy; a moved-from buffer of capacity 0.
* **BBIterator**: overflow checks on differences of unsigned indices; iterators
  that outlive a `pop`, which are the caller's to give up.
* **BoundedBuffer (ExW3)**: `RingN::operator-=`; `push` counting an element before
  it is assigned; copies, moves and swaps of arrays that an element's exception
  interrupts; moved-from elements that stay.
* **Suites and CUTE**: what becomes of a test that an exception leaves; a comparison of
  elements that says less than it seems to; launched threads that must end.

`PROJECT.json` lists each hazard at its line, with the properties that cover it or the reason that none does.

What makes each component correct:

* BoundedQueue: each call is atomic and in first-in first-out order, with the
  capacity travelling with the content (a *linearizability* statement); no lost
  wakeup; no deadlock, no abandoned mutex; every element constructed once and
  destroyed once, in a slot of its own.
* BoundedBuffer (ExW7): a bounded FIFO sequence; an operation that throws leaves it
  as it was.
* BoundedBuffer (ExW3): the same sequence, of which an exception may spoil the elements
  but never the length, except that an interrupted push counts.
* Suites and CUTE: each test has one outcome, in every interleaving, and is counted once.
* BBIterator: arithmetic either lands inside `[begin, end]` or throws; a
  dereference reads an element of the buffer.

## Modules

| Module | What it holds |
|---|---|
| `QueueBody` | the four members that `swap()` exchanges, as a record, and the unlocked private helpers on them (`_push`, `_pop`, `_at`, `calcMod`, ...) |
| `BoundedQueue` | threads that call the member functions of shared queues: one action per step between two points of interference |
| `FifoQueues` | the abstract specification: queues are sequences with a capacity, every call takes effect at one instant |
| `BoundedQueueRefinement` | the mapping from `BoundedQueue` to `FifoQueues` |
| `MCBoundedQueue` | the scenarios for TLC: who may call what, and how often |
| `BoundedBuffer` | the buffer of ExW7: one caller, exceptions from elements, lifetimes, over the same `QueueBody` |
| `BoundedSequences` | its abstract specification: bounded sequences, some of whose calls refuse or throw and then change nothing |
| `BoundedBufferRefinement` | the mapping from `BoundedBuffer` to `BoundedSequences` |
| `BBIterator` | extends `BoundedBuffer` with the iterators that the caller keeps between its calls |
| `MCBoundedBuffer`, `MCBBIterator` | the callers for TLC |
| `RingN` | the ring numbers of ExW3 |
| `ArrayBuffer` | the buffer of ExW3: one caller, elements that are always there and are assigned to |
| `ArraySequences` | its abstract specification, an extension of `BoundedSequences` |
| `ArrayBufferRefinement` | the mapping from `ArrayBuffer` to `ArraySequences` |
| `MCArrayBuffer` | the caller for TLC |
| `MemoryOperationCounter` | the element type of the suites, from ExW7's copy of the file (the others do the same) |
| `TestScripts` | the vocabulary of the test functions: an operation on a local object, and what is asserted of it |
| `ArrayTests`, `BufferTests`, `QueueTests` | the test functions and suites of ExW3, ExW7 and ExW11, each under its name |
| `CuteRunner` | CUTE: the filter, the runner, the counting listener, the assertions |
| `ArraySuites`, `BufferSuites`, `QueueSuites` | the executable of each exercise: its container composed with `CuteRunner` |
| `Suites` | the three executables, and what is said of them |
| `ModuloLemmas` | facts about `%` |
| `QueueBodyProofs` | types, ring properties and contents: what the operators of `QueueBody` do to the sequence of elements |
| `BoundedQueueProofs` | the inductive invariant of `BoundedQueue`, the theorems on its safety and on wakeups |
| `BoundedQueueRefinementProofs` | `BoundedQueue` implements `FifoQueues` |
| `BoundedBufferProofs` | invariant, theorems and refinement of `BoundedBuffer` |
| `BBIteratorProofs` | the same for `BBIterator`, on top of it |
| `ArrayBufferProofs` | invariant, theorems and refinement of `ArrayBuffer`, with the lemmas about `RingN` |
| `SuitesProofs` | CUTE's runner, for any program, and that the three executables run such a runner |

### State and actions of BoundedQueue

`body[q]` is the record of `index_`, `size_`, `capacity_` and `container_` of queue
`q`; a slot is an element or `Raw`. `mx[q]` is the owner of its mutex.
`notEmpty[q]` and `notFull[q]` are the threads blocked in the condition variables.
`pc[t]` and `call[t]` say where thread `t` is and in which call; `tmp[t]` is the
queue object that only `t`'s call can reach (`tmp` in copy assignment, the object
under construction in a constructor); `ret[t]` is what the last call returned.

| Code | Actions |
|---|---|
| a client calls | `Invoke` |
| `lock lk{mx_}` / `guard lk{mx_}` | `Acquire` |
| the predicate of `wait`/`wait_for`, the `if` of a `try_` function | `Proceed` (true), `Wait` (false: unlock and block in one step), `Refuse` (false in a `try_` function or after the deadline) |
| waking up | `LeaveAndWake` in `Push`/`Pop` (notified), `Timeout`, `SpuriousWake`, then `Reacquire` |
| `_pushNotify`, `_popNotify`, the return and unlock | `Push`, `Pop`; `ThrowElement` when the element throws |
| `empty`, `full`, `size` | `Observe` |
| `swap`, move assignment | `SelfCall`, `LockFirst`, `LockOther`, `BackOff`, `SwapMembers` |
| `BoundedQueue(BoundedQueue const &)` | `ReadCapacity` (unlocked), `LockSource`, `CopyElement`, `CopyThrow`, `CopyDone` |
| copy assignment | the same, then the swap with `tmp` (`LockTarget`, `Install`) and `tmp`'s destructor (`DestroyElement`, `DestroyDone`) |
| `BoundedQueue(BoundedQueue &&)` | `ReadCapacity`, `LockSource`, `MoveOut` |

The predicate and the action that relies on it are separate steps although a mutex
protects both: that the predicate still holds is then a fact about the mutex and
something to check (`PredicateStillHolds`), not an effect of how steps were cut.
The three operations on `size_`, the slot and the notification between two points
of interference are one step, because everything that reads them holds the mutex
(`LockDiscipline` is what licenses that), with the one exception that the code has:
the capacity is read unlocked, by `ReadCapacity`, a step of its own. `std::mutex`,
`std::condition_variable` and `std::lock` are not part of the repository; they are
modelled as the code uses them. A mutex is granted to any of the threads that want
it; `notify_one` wakes an arbitrary waiter; a wait may end spuriously; a deadline
may pass at any moment; `std::lock` takes one mutex, tries the other and backs off.

What an element becomes by being copied and moved is a constant of the models
(`Copied`, `Moved`, and `Hollow` for what a move leaves in ExW3, where it stays to be
seen). In the scenarios for TLC they are the identity, or tell a hollow element apart;
in the suites they are those of `MemoryOperationCounter`.

A construction made by a client yields a new queue. It is not added to `Queues`: its
content and capacity are the call's result (`Snapshot`), and it is destroyed.

`Next` of `BoundedQueue` ends with `Rest`, a stutter that is enabled when every thread has either
finished its calls or waits in a condition variable. Deadlock checking is on in
the runs of the containers, so TLC reports any state in which all threads are stuck
*otherwise*: on a mutex that nobody will release or between two mutexes. A thread that waits on a
condition variable for ever is the subject of the liveness properties. The runs of `Suites` have
`CHECK_DEADLOCK FALSE`: an executable ends, and then there is no next step. That it gets there and
stops nowhere else is `Terminates`.

### State and actions of BoundedBuffer

`buf[b]` is the object in the caller's variable `b` (the same record as `body[q]`
above) or `None` before construction and after destruction. `tmp` is the object that
only the running call can reach: a copy under construction, `tmp` in copy assignment,
`buffer` in `make_buffer`. `leaked` counts elements whose memory was released while
they were still constructed; `throws` counts exceptions from elements.

| Code | Actions |
|---|---|
| the caller calls | `Invoke` |
| constructor | `New`, `NewRefused` |
| `throwIfFull`, `throwIfEmpty` | `Refused`, `FillRefused` |
| `push`, `pop`, `front`, `back` | `Push`, `PushThrows`, `Pop`, `Front`, `Back` |
| `empty`, `full`, `size` | `Observe` |
| `swap`, move assignment, move construction | `Swap`, `MoveConstruct` |
| copy construction | `CopyStart`, `CopyElement`, `CopyThrows`, `CopyConstructed` |
| copy assignment | `AssignSelf`, or the same copy into `tmp`, then `CopyAssigned` (the swap), `ClearElement`, `Dropped` |
| `make_buffer`, `push_many` | `MakeStart`, `PushManyStart`, `Fill`, `FillThrows`, `Made`, `PushedMany` |
| `clear`, destructor | `ClearStart`, `ClearElement`, `Cleared`, `Destroyed` |

Where several elements are constructed or destroyed, each is a step, because each runs
the element type's code and a constructor may throw. When it does, the model does what
the language does with the object at hand: an object whose constructor has not
finished gets no destructor, only its members do (`CopyThrows`: the memory goes, the
elements in it stay undestroyed); a finished local object is destroyed (`Unwind` to
`clear`, as in `make_buffer`). A moved-from object has capacity 0 and no memory. For
it every slot number would be a remainder modulo 0, which TLC reports as an error: that
all runs finish shows that no path gets to `calcMod` with such an object.

### State and actions of BBIterator

`it[i]` is an iterator's `buffer_` and `pos_`; `res` is what the last operation of an
iterator returned. There is one action per operation: `Begin`, `End`, `CopyIterator`,
`Drop`, `Increment`, `Decrement`, `Plus` and `Minus` (a number), `PlusIterator` and
`MinusIterator`, `Difference`, `Compare`, `Dereference`, `Write` (through `operator*`).
Positions are unsigned numbers modulo 2^w; `Signed` is the conversion to the signed
type of the same width that `checkOverflow` and `checkUnderflow` compute with. The
operators that Boost derives (postfix forms, `+`, `[]`, `->`, `>`, `!=`, ...) are
copies followed by these. Calls of the buffer go on in between (`CallBuffer`, `Body`).

What a caller may do with iterators is stated by two constants. If `Careful`, it gives
up its iterators to a buffer before it removes or exchanges the buffer's elements
(`Changes`; an
iterator to a destroyed buffer is always given up). If `Leaps`, it relies on the two
checks also where they make none: at position 0 and for negative numbers.

### State and actions of ArrayBuffer

`buf`, `tmp`, `call`, `ret`, `throws` are as in `BoundedBuffer`; an object has its class's
`N`, and `container` has an element in every slot. Two objects in one operation are of one
class, except that constructors bring their own. `Push` and `Fill` count and then assign;
`PushThrows` and `FillThrows` count only. The defaulted copies and moves of `std::array`
and `std::swap` go through all slots in order, and the actions with `Throws` stop at any
of them: what is before it is done, `index` and `count` are not. In a swap each element
makes three moves, so there are three places to stop at (`SwapThrows`). An object that is
moved or swapped to itself is treated element by element, as the code does.

### The suites as scripts

A test is a sequence of items, each an operation and the assertion on its outcome
(`TestScripts`); loops are unrolled. `ArraySuites`, `BufferSuites` and `QueueSuites` make the
items calls of the container's model, so a test runs the very actions that the other runs
check, step by step, and judge the answers as the assertions do (`Verdict`: `success`,
`failure` for an assertion, `error` for another exception). When a test ends, the objects
that it left are destroyed, by the model's destructors. The static counters of the suites'
types are kept in `stats` and change in the step that changes the objects.

* `QueueSuites` runs the multi-threaded tests with their threads: `Launch` gives a
  thread its calls, which then interleave with the others'; futures are waited for before
  the queues go. A queue's mutex type may refuse `try_lock` a number of times
  (`RefuseLock`), its condition variable type may throw in its destructor (`Unwanted`,
  which ends the program if it happens while another exception is on its way).
* A queue that a test constructs stays its own (`Keep`), and the capacity is checked by
  `ConstructQueue`: both are operations that clients of `BoundedQueue` alone do not have.
* `CuteRunner` has the arguments of the program as a set of pairs of a suite and a test, or 0 for the whole
  suite, matched as the prefix matcher does.

## Runs

All passing runs fire between them every action and disjunct. `x` and `y` are the
only elements: two distinguish any order of two neighbours.

| Run | Instance | What it shows |
|---|---|---|
| `MCBoundedQueuePipeline` | 2 producers and 2 consumers, 2 calls each, one of each with deadlines, capacity 1, index modulo 2, 1 spurious wakeup | `NoLostWakeup`; a deadline that passes as a notification arrives does not starve another waiter (`WaitersServed`) |
| `MCBoundedQueueTimed` | 4 threads, all element operations, 2 queues of capacities 2 and 1 that are swapped, throwing elements, 1 spurious wakeup | FIFO atomicity (`ImplementsFifoQueues`) of blocking, immediate and timed calls; a refusal happens only on a queue that is full (empty) when the call returns; the mutex protects what it must; wakeups are lost, but only by exceptions, one each, and by the swap (`OnlyThrowsAndExchangesLoseWakeups`) |
| `MCBoundedQueueWhole` | 4 threads, 2 queues of capacity 2, throwing elements | swaps and assignments in both directions, with self-assignment, race with pushes and pops without deadlock (`NoDeadlock`, `CallsGoOn`); a copy in progress is a prefix of its source (`CopyIsPrefix`); elements stay, move with their memory or are destroyed, and only an interrupted copy forgets some (`OnlyInterruptedCopiesLeak`) |
| `MCBoundedBufferAll` | 2 buffers of capacity 0, 1 or 2, every operation, any element may throw | the buffers are bounded sequences; a refused call, or one that throws, leaves them as they were, `push_many` as far as it got; elements are, but for an interrupted copy, destroyed before their memory goes; calls end (`CallsEnd`) |
| `MCArrayBufferAll` | 2 buffers with N from 0 to 3, an ordinary and a hollow element, every operation, any element may throw | the buffers are sequences that keep moved-from elements (`ImplementsArraySequences`); indexes and counts stay in bounds whatever throws; `RingN` finds the right slots (`WindowIntact`) |
| `SuitesAll` | the three executables, with all tests and with a selection | which tests pass (`TestsAsKnown`), that the report adds up (`ReportAgrees`), that comparing counters does not hide a difference here (`EqualityExact`), that the programs end (`Terminates`) |
| `MCBBIteratorKept` | 2 iterators over 2 buffers of capacity 2, a `Careful` caller, jumps of -1, 1 and 3, elements and iterators symmetric | the checks keep iterators inside `[begin, end]` while the buffers change; pushes, also those that wrap round the ring, move no element under an iterator |

Five runs show something the code does and its tests or comments deny:

| Run | Shows |
|---|---|
| `MCBoundedQueueSwapWakes` | `swap` notifies nobody: a consumer that waits on an empty queue goes on waiting on a full one |
| `MCBoundedQueueThrowWakes` | a notified thread whose element throws keeps the notification to itself: another waiter that could go on is not woken |
| `MCBoundedQueueStaleCapacity` | the copy constructor reads `rhs.capacity_` before it takes the mutex: after a swap with a larger queue in between, the copy has more elements than slots |
| `MCBBIteratorLeaps` | `begin() + n` is not checked, so it leaves the buffer |
| `SuitesTestsPass` | ExW3's `make_buffer` throws `std::logic_error` for too many elements; the suite wants `std::invalid_argument` |

Two more are known and covered without a run of their own. `index_` of the queue and of
ExW7's buffer wraps at 2^w: with a capacity that does not divide 2^w (3, say) two elements
then share a slot; the runs have capacities that do, the theorems say that no index wraps in the
middle of a queue's elements, or what excludes it (`IndexesKept`). An
element that throws while a queue or a buffer of ExW7 is copied leaves the elements copied
before it undestroyed; `OnlyCopiesLeak` and `OnlyInterruptedCopiesLeak` say that nothing else does.
And one test may fail: `test_swap_aquires_tries_multiple_times_to_try_lock` counts calls of
`try_lock`, which depend on the mutex that `std::lock` starts with (`Possible` in `Suites`).

The properties of the queue:

* `TypeOK`: types; `PlaceFitsCall`, `WaitSets`: parts of the inductive invariant.
* `LockDiscipline`: a mutex is owned by the thread whose place in the code says so,
  by nobody else, and no return or exception leaves it locked.
* `PredicateStillHolds`: when a thread acts on the queue, what it waited for is true.
* `CopyIsPrefix`: while a copy is under way the source does not change under it.
* `NoDeadlock`: unless every thread is between calls or waits for a notification, one can go on;
  no call holds a mutex that it would take a second one to release. The deadlock check of TLC
  reports a state with no step at all; this one also finds threads stuck on mutexes
  while others wait to be called. `CallsGoOn`: nothing else than a mutex, a notification or the client
  holds a call up.
* `RingIntact`: the elements of every queue have slots of their own, within its
  capacity, and these are the slots holding constructed objects.
* `NoLostWakeup`: whenever a queue has more elements (room) than threads already on
  their way to use them, no consumer (producer) is left waiting.
* `OnlyThrowsAndExchangesLoseWakeups`: what is left of this when elements throw and contents are
  exchanged. The wakeups that are missing (`LostPops`, `LostPushes`) become more in two kinds of step
  only: an exception from an element loses one at most, an exchange of the queue's content any number; both are
  steps of the thread that throws or exchanges.
* `WaitersServed`: no consumer waits for ever on a queue that keeps elements, no
  producer on one that keeps room.
* `OnlyInterruptedCopiesLeak`: what a step may do to constructed elements, object by object (`GoesOn`,
  `Exchanges`, `MayEnd`). It constructs one in a slot that is raw and counts it, destroys one and uncounts it,
  or gives the whole memory to another object that gives its own in return; an object ends with no element in
  it, or as a copy under construction that an exception interrupts. An element that is overwritten, as in the
  scenario of `MCBoundedQueueStaleCapacity`, a queue that takes another's members and forgets its own, and
  members that two objects have afterwards all violate it.
* `ImplementsFifoQueues`: every behaviour is one of `FifoQueues`.

The properties of the buffer and its iterators:

* `TypeOK`, `ItTypeOK`: types, and that an iterator in use has a living buffer.
* `RingIntact`: as above, for the caller's objects and the one local to a call, after
  every single construction and destruction.
* `OnlyCopiesLeak`: an element is forgotten in memory that is released only where an
  exception from an element interrupts a copy. (`NoLeak`, that none ever is, is a theorem for
  elements whose copies do not throw.)
* `CallsEnd`: each step of a call, of its unwinding too, leaves fewer steps to take.
* `ImplementsBoundedSequences`: every behaviour is one of `BoundedSequences`.
* `IteratorsInRange`: positions are in `0..size`. `throwIfEnd()` compares with `==`,
  so everything behind it rests on this.
* `ReadsElements`: `operator*` that does not throw gives a constructed element.
* `StaysOnElement`: a step of the buffers' does not change what an iterator denotes.

The properties of ExW3's buffer:

* `TypeOK`: no exception leaves an index or a count outside the array.
* `WindowIntact`: elements are in slots of their own, and `back()`, which subtracts
  `RingN` numbers, looks at the last. `RingN`'s subtraction gives N - 1 for every result
  below zero; the suite has only results that are right.
* `ImplementsArraySequences`: every behaviour is one of `ArraySequences`.

The properties of the suites:

* `TestsAsKnown`: only the two tests named above can be unsuccessful, and the first one is.
  It takes the containers, the element types and the runner to be right together.
* `ReportAgrees`: tests started = tests ended and reported; at the end of a suite, = tests
  announced.
* `EqualityExact`: `operator==` of `MemoryOperationCounter` compares whether `copies` are equal with
  whether `known_state` is. Where the suites compare, that agrees with equality.
* `Terminates`: no test blocks.

### Bounds

* 3 or 4 threads: a waiter, a second waiter on the same condition variable, the
  thread that notifies, and one to interfere. With 2 waiters `notify_one` has a
  choice, which is what a lost wakeup needs.
* `MaxCalls`: 2 or 3 calls a thread; a queue of capacity 1 or 2 is filled, drained,
  filled again and made to wait at both ends. The 2 calls of `p2` in `Whole` let an assignment
  follow a swap.
* `SizeMod`: 2^w for w = 1 or 2. Capacities 1 and 2 divide it, so the index wraps in
  the passing runs as in a long-lived queue on a real machine; a capacity of 3 would not (see above).
* `MaxSpurious`: one spurious wakeup in a behaviour. A second finds the state that
  the first left: a thread that evaluates its predicate again.
* Buffers and iterators: two of each, since an operation concerns at most two. Capacity
  0 (moved-from), 1 (first slot is last) and 2. Nothing bounds
  the number of calls, so with `SizeMod` 8 `index_` wraps after 8 pops in every way it
  can, and the positions used stay below half of 8, as signed numbers of that width. `MaxThrows` 1: what one exception leaves behind is met by
  every sequence of later calls.
* ExW3: two buffers, N of 0 to 3, one exception. N = 2 is the first with a step back
  other than to the same slot; the proofs cover every N.
* Suites: in the multi-threaded tests a thread has `Slice` = 2 elements for 500 or 1000, a
  queue of capacity 10 has `Capacity` = 2, and there are two producers and two consumers at most
  for ten: they still meet a full and an empty queue, and one another waiting. The scripts of the other tests have the code's
  numbers; 100 pushes are 100 pushes. `MaxVal` 27 is above every element value of the tests,
  `UnsignedMod` 8 above every count of copies and moves, `SizeMod` 1024 above every index.
  `ArgumentLists`: no arguments, and a suite with one test of another. `wait_for` of a
  second in these tests is taken to be long enough, and waits are not woken spuriously.
* `Throws`: element operations throw in `Whole` and `Timed` (safety) and in `ThrowWakes` (liveness).
* `Timed`: the queue that is swapped has another capacity, since an exchange must change how much room
  there is to lose a producer's wakeup; two consumers or two producers wait, so that one of them can be left
  behind; the state after a loss is followed by pushes, pops and timeouts, which must not lose another.

### Fairness

`FairSpec` is weak fairness of each thread's next step: a thread that can continue
is eventually scheduled. No fairness is asked of the mutex (a thread may lose every
race for it for as long as others use it); the clients make finitely many calls, so
the others eventually leave it alone. A deadline eventually passes (`Timeout` is a
step of a thread), a spurious wakeup is possible and never required. The
buffer has one caller and no liveness property: its calls end because a natural number, `Remaining`,
falls with each of their steps (`CallsEnd`) and, as deadlock checking shows, there is always a next one. `Suites` has weak
fairness of `Next`: some thread that can go on does. The suites need no more, because their
threads make finitely many calls and none of them loops while another is kept waiting, but for
`std::lock` with a refusing mutex, whose refusals are counted down.

## Proofs

All proofs are checked by `tlapm`, for any threads, queues, elements, calls, capacities and width.

### The queue

The inductive invariant `Inv` is
`TypeOK /\ PlaceFitsCall /\ WaitSets /\ LockDiscipline /\ PredicateStillHolds`.
`PlaceFitsCall` (which calls can be at which label, and which have a `tmp`) and
`WaitSets` (a thread is in a wait set exactly when it is at `wait`, and in the one of
its call) are what make the other three inductive: without them a thread that
holds no mutex could be at any label. `PredicateStillHolds` follows from
`LockDiscipline` by *non-interference*: a step that changes the content of a queue is
made by the owner of its mutex (`NonInterference`), and the thread that has
evaluated its predicate is the owner.

| Theorem | Says |
|---|---|
| `TypeCorrect` | `Spec => []TypeOK` |
| `LocksDisciplined` | `Spec => []LockDiscipline` |
| `PredicateStable` | `Spec => []PredicateStillHolds` |
| `DeadlockFree` | `Spec => []NoDeadlock` |
| `LeaksAreInterruptedCopies` | `Spec => OnlyInterruptedCopiesLeak`, if `IndexesKept` and `CapacitiesKept` |
| `CopiesArePrefixes` | `Spec => []CopyIsPrefix`, if `IndexesKept` and `CapacitiesKept` |
| `RingsIntact` | `Spec => []RingIntact`, if `IndexesKept` and `CapacitiesKept` |
| `QueuesAreFifo` | `Spec => ImplementsFifoQueues`, if `IndexesKept` and `CapacitiesKept` |
| `WakeupsKept` | `Spec => []NoLostWakeup`, if elements do not throw (`~Throws`) and no call exchanges the content of a queue that some call may wait on (`ExchangesApart`) |
| `WakeupsLostKnown` | `Spec => OnlyThrowsAndExchangesLoseWakeups` |

`DeadlockFree` needs no more than `LockDiscipline`: a thread that waits for a mutex waits for one
that a thread at another place owns (`MustHold`), and the owner's next step takes none
(`OwnerGoesOn`); the one place where a mutex is held and a second wanted only tries it.

Two hypotheses recur, each of them a choice:

* `IndexesKept`: every capacity divides 2^w (`EvenWrap`), or the calls that the threads can make, together with a
  capacity, are no more than 2^w (`FewCalls`: then no index has wrapped, since each of its steps was a call
  that has ended, `IndexesCounted`). So a queue of capacity 3 is covered for its first 2^64 - 3 calls.
* `CapacitiesKept`: all queues have one capacity (`UniformCapacity`), or no thread's call gives a
  queue another content while a different thread may copy or move it (`SourcesApart`; two moves of one
  queue are allowed). So queues of different capacities are covered, with swaps and assignments, if copying
  is kept apart from them.

Both are needed: with a capacity of 3 and an index that wraps two
elements get one slot, and `MCBoundedQueueStaleCapacity` violates the property without the second.
The proof rests on `ModuloLemmas` (two numbers less than `c` apart with one remainder
modulo `c` are equal; a remainder modulo a multiple of `c` keeps the remainder modulo
`c`) and on `QueueBodyProofs` (`_push` into a queue with room and `_pop` from one with
an element keep the ring intact); that there is room, or an element, is `PredicateStillHolds`.

`LeaksAreInterruptedCopies` rests on the same facts: a push into a ring with room uses a raw slot, a pop
from one with an element a live slot, and a ring that counts no element has none (`OpsGoOn`); a copy in progress has
room because its source's capacity is the one it read (`CopyHasRoom`).

`QueuesAreFifo` maps every action to one of `FifoQueues` or to a stutter. Its invariant
`RefInv` adds to the above that a copy in progress is a prefix of its source (so at
`CopyDone` it is the source), that the object of a move is empty until the swap, and that
only timed calls get past a deadline. `QueueBodyProofs` says what a step does to the
abstract content: `Construct` appends, `Destroy` takes the head (`ContentsConstruct`,
`ContentsDestroy`). The assumption `NoSnapshotAssumption` says that the model value `None` is not a
snapshot.

`WakeupsKept` needs both its hypotheses: in the scenario of `MCBoundedQueueThrowWakes` `NoLostWakeup`
fails without the first, in that of `MCBoundedQueueSwapWakes` without the second; the runs show
what comes of it, a waiter that is never served. The invariant for one queue,
`WakesBut(q, n, m)`, counts: while a consumer waits, elements exceed the consumers awake by `n` at most, and so
room the producers by `m`; `NoLostWakeup` is the case of 0 and 0. A push adds an element and takes a consumer out of the wait set, or finds none; a
thread that times out or wakes spuriously is awake, and may refuse only when there is nothing
for it. The threads awake are counted with `FiniteSetTheorems`, one lemma for each direction a
thread can go. The hypothesis `ExchangesApart` says only that the exchanged queues have no
blocking callers; every other operation may race on them.

`WakeupsLostKnown` is the same argument without hypotheses, for any `n` and `m` (`LossStep`): every step but an
exception and an exchange keeps `WakesBut(q, n, m)`, however many wakeups are missing already, and an exception
turns `n + m` into `n + m + 1` at most (`ThrowWakes`), because it takes one thread from those awake and
leaves the content alone. So the notifications after pushes and pops never make matters worse, and what
a client has to repair after an exception is one notification.

### The buffer and its iterators

`BoundedBufferProofs`' inductive invariant `Inv` is `Shape /\ CallFits`: every object is
`Sound` (it has its type, no more elements than slots, and a capacity that some call
asked for, or 0), and the objects that exist fit the place where the caller is: in a copy, for example,
the object under construction has the capacity of its source and at most as many elements
(`CopyFits`), which is why `push()` in `copyFromBoundedBuffer()` never finds it full.

| Theorem | Says | If |
|---|---|---|
| `TypeCorrect` | `Spec => []TypeOK` | - |
| `AllCallsEnd` | `Spec => CallsEnd` | - |
| `EvenIndexes` | `Spec => []IndexesKept` | `EvenWrap` |
| `RingsIntact` | `Spec /\ []IndexesKept => []RingIntact` | - |
| `AllDestroyed` | `Spec /\ []IndexesKept => []NoLeak` | copying an element does not throw |
| `LeaksAreCopies` | `Spec /\ []IndexesKept => OnlyCopiesLeak` | - |
| `BuffersAreSequences` | `Spec /\ []IndexesKept => ImplementsBoundedSequences` | - |
| `ItTypeCorrect` | `ItSpec => []ItTypeOK` | as `InRange` |
| `InRange` | `ItSpec => []IteratorsInRange` | `Disciplined`: the caller is `Careful` and does not leap; `Positive`: capacities are below 2^(w-1) |
| `ItEvenIndexes` | `ItSpec => []IndexesKept` | the same and `EvenWrap` |
| `ReadsConstructed` | `ItSpec /\ []IndexesKept => []ReadsElements` | as `InRange` |
| `StaysOn` | `ItSpec /\ []IndexesKept => StaysOnElement` | as `InRange` |

`IndexesKept`, here a predicate of a state, says of every object that `index_` does not wrap in the middle of
its elements (`Unbroken`), or that its capacity divides 2^w so that it does not matter. Nothing bounds the number of
pops of a buffer, so whether this holds is a matter of the behaviour: with capacities that divide 2^w it
always does (`EvenIndexes`), with others until one buffer has seen 2^w pops, and the theorems hold that
long. It allows a wrap while the buffer is empty. An object in which it fails may have two elements in
one slot.

`AllDestroyed` has its
hypothesis because of the interrupted copy, and `InRange` fails without discipline in
`MCBBIteratorLeaps`. `Positive` is what `checkOverflow()` relies on when it converts a size
to a signed number. The iterators' invariant adds to `Inv` that every iterator `Stands` in
a buffer that the call in progress does not change, or only pushes to (`BodyGrows`);
a push moves no element (`GrowsKeeps`).

`AllCallsEnd` needs with `Inv` that a call has pushed no more arguments than it was given and that
`make_buffer()`'s object has no room for more (`FillBounded`). An element still to be pushed therefore counts
twice in `Remaining`, and unwinding destroys no more than that: `Remaining` falls also when an exception turns
the call round.

`BuffersAreSequences` adds `Progress` to the invariant: a copy in progress has the first elements
of its source (`CopyPrefix`), `make_buffer()`'s object those of its arguments (`MakePrefix`).
A call takes effect when its last step does; if an element throws before, only the object
local to the call goes, which the abstract sequences do not have.

### The buffer of ExW3

`ArrayBufferProofs`' invariant is `TypeOK`, that an operation finds its objects (`StartFits`,
`FillFits`) and that it is one of `Calls`. It has one lemma per group of operations; exceptions
are no harder than the rest, because what an object is (`IsBody`) says nothing about which elements it has.

| Theorem | Says |
|---|---|
| `TypeCorrect` | `Spec => []TypeOK` |
| `WindowsIntact` | `Spec => []WindowIntact`, for every N: `RingPlusIs` and `RingMinusOneIs` say what the ring's operators compute, `WindowOfBody` that index and count in bounds are enough |
| `ArraysAreSequences` | `Spec => ImplementsArraySequences` |

None has a hypothesis: indexes are ring numbers and never wrap anywhere else. For the refinement
`Progress` says which arguments have been pushed (`MakePrefix`), and every transfer is stated by
what it leaves (`ContentsWith`: a step that assigns to some slots changes the sequence in these
places). Where an exception stops a transfer, what is left of the two operands is
`Like` what they were: the same count, other elements (`Spoilt`), wherever it strikes.
`NoneAssumption` says that the model value `None` is not an object, and `CallsAssumption` that a
call's count of pushed arguments starts at 0.

### The suites

| Theorem | Says |
|---|---|
| `ReportsAgree` | `Spec => [](stage # "terminated" => ReportAgrees)` |

The runner is reasoned about for any program `P`, a sequence of suites of tests, and any
outcome of a test's body (`RunnerStep(P)`). The invariant that makes the report inductive is
`OnSchedule`: the tests started and those `Outstanding` in the suite make up what was announced.
That filter and loop ask the same question of a test (`ShouldRun`) is what it rests on. Then each
step of each executable is a step of such a runner for its own suites (`ASteps`, `BSteps`,
`QSteps`). An exception from a destructor during another one ends the program (`stage` is then
`"terminated"`) and its last test is never reported; `ReportAgrees` in `SuitesAll` says that
this does not happen to these tests.

### Not proved

Model-checked only:

* `WaitersServed` and `Terminates`, which are liveness, and `CallsGoOn`, which is about `ENABLED`: both
  are out of the prover's reach.
* `TestsAsKnown` and `EqualityExact`, and that no executable gets to `"terminated"`: what a test
  script does is evaluated, not proved. It is one finite program.
* Without its hypotheses `NoLostWakeup` is false; `WakeupsLostKnown` is what holds then. `ImplementsFifoQueues`
  is not claimed where a queue's capacity may be exchanged while it is copied: the copy may take its capacity
  from before a swap and its elements from after it.

## What could follow

The multi-threaded tests with more elements and deadlines that pass.

## Not modelled

* The allocation `new char[sizeof(T) * capacity]`: that it fails, and its size in bytes. Memory is modelled
  as `capacity` slots. A capacity for which the multiplication wraps gets too few bytes; the code has no check
  for it and nothing in the repository promises one, so such capacities are outside the models.
* Iterators that a caller keeps although it has removed or exchanged the elements of their buffer. `throwIfEnd()`
  compares with `==`, so it does not notice one that is past the end; the runs and theorems have a caller who
  gives such iterators up.
* The move in `return front;` of the queue's `pop` where the compiler does not elide it: if it threw, the element would
  be gone and the notification made.
* An element of ExW3 whose assignment throws having changed: it is taken to be as before.
* Moved-from elements in ExW7 and ExW11, where they are destroyed or belong to the caller.
* The destructor of a queue that other threads still use: undefined behaviour of the
  client. The destructor of local queues is modelled.
* C++ memory order: every access but that of `capacity_` is under a mutex. The racing
  read of `capacity_` yields the value before or after a swap.
* Printing an iterator (`operator<<`).
* The signature suites, which compare names of types: the compiler decides them.
* CUTE's printing, demangling, text and XML listeners; its copies in ExW3 and ExW11 are
  identical to that in ExW7, which is mapped. Comparing floating-point numbers, which no
  suite does.
* `Debug/`: makefiles generated by the IDE.
