---------------------------- MODULE BoundedQueue ----------------------------
(***************************************************************************)
(* ExW11/src/BoundedQueue.h: threads that call the member functions of     *)
(* shared BoundedQueue objects.                                            *)
(*                                                                         *)
(* A step is what a thread does between two points where others can        *)
(* interfere: taking a mutex, evaluating a wait predicate, acting on the   *)
(* queue, waiting.  Evaluating the predicate and acting on it are separate *)
(* steps, so that what is true at the second because of the first is true  *)
(* because of the mutex.                                                   *)
(***************************************************************************)
EXTENDS QueueBody, FiniteSets

CONSTANTS Threads, Queues,
          None,           \* no thread, no call, no object
          Calls,          \* Calls[t]: the calls thread t may make
          MaxCalls,       \* MaxCalls[t]: how many calls t makes at most
          InitCapacity,   \* InitCapacity[q]: the argument of q's constructor
          Throws,         \* may copying or moving an element throw?
          MaxSpurious     \* bound on spurious wakeups in a behaviour

PushOps == {"push", "push_rvalue", "try_push", "try_push_for"}
PopOps == {"pop", "try_pop", "try_pop_for"}
Immediate == {"try_push", "try_pop"}
Timed == {"try_push_for", "try_pop_for"}
CopyOps == {"copy_ctor", "copy_assign"}
SwapOps == {"swap", "move_assign"}
Constructing == {"copy_ctor", "copy_assign", "move_ctor"}
Ops == PushOps \cup PopOps \cup SwapOps \cup Constructing \cup {"observe"}

Call == [op : Ops, q : Queues, rhs : Queues \cup {None}, v : Values \cup {None}]
Capacities == {InitCapacity[q] : q \in Queues}

ASSUME ThreadsAssumption == IsFiniteSet(Threads) /\ None \notin Threads
ASSUME NoCallAssumption == None \notin Call
ASSUME CallsAssumption ==
    \A t \in Threads : \A c \in Calls[t] :
        /\ c \in Call
        /\ c.op \in PushOps => c.v \in Values
        /\ c.op \in SwapOps \cup Constructing => c.rhs \in Queues
ASSUME BudgetAssumption ==
    MaxCalls \in [Threads -> Nat] /\ MaxSpurious \in Nat /\ Throws \in BOOLEAN
ASSUME CapacityAssumption == InitCapacity \in [Queues -> 1..SizeMod - 1]

VARIABLES body,       \* body[q]: the members of queue q
          mx,         \* mx[q]: the thread that holds q's mutex, or None
          notEmpty,   \* notEmpty[q]: the threads waiting on that condition
          notFull,    \* notFull[q]: likewise
          pc, call,   \* where a thread is, and in which call
          tmp,        \* tmp[t]: the queue object local to t's call, or None
          ret,        \* ret[t]: what t's last call returned
          budget,     \* calls t may still make
          spurious    \* spurious wakeups so far

waiting == <<notEmpty, notFull>>
bounds == <<budget, spurious>>
vars == <<body, mx, waiting, pc, call, tmp, ret, bounds>>

Result(st, val) == [st |-> st, val |-> val]
Pending == Result("pending", <<>>)
Refused == Result("refused", <<>>)
Threw == Result("threw", <<>>)
Ok(val) == Result("ok", val)
Snapshot(b) == <<Contents(b), b.capacity>>

Init == /\ body = [q \in Queues |-> NewBody(InitCapacity[q])]
        /\ mx = [q \in Queues |-> None]
        /\ notEmpty = [q \in Queues |-> {}]
        /\ notFull = [q \in Queues |-> {}]
        /\ pc = [t \in Threads |-> "idle"]
        /\ call = [t \in Threads |-> None]
        /\ tmp = [t \in Threads |-> None]
        /\ ret = [t \in Threads |-> Pending]
        /\ budget = MaxCalls
        /\ spurious = 0

-----------------------------------------------------------------------------
\* Parts of actions.

Goto(t, label) == pc' = [pc EXCEPT ![t] = label]

Unlock(q) == mx' = [mx EXCEPT ![q] = None]

Return(t, r) == call' = [call EXCEPT ![t] = None] /\ ret' = [ret EXCEPT ![t] = r]

\* t, at label from, takes the mutex of q.
Lock(t, from, q, to) ==
    /\ pc[t] = from /\ mx[q] = None
    /\ mx' = [mx EXCEPT ![q] = t]
    /\ Goto(t, to)
    /\ UNCHANGED <<body, waiting, call, tmp, ret, bounds>>

\* t releases the mutex of q and returns r, having notified nobody.
Leave(t, q, r) == Unlock(q) /\ Goto(t, "idle") /\ Return(t, r)

\* The sets of waiters a notify_one() may wake: one waiter, if there is one.
NotifyOne(W) == IF W = {} THEN {{}} ELSE {{u} : u \in W}

\* Mutant: a push notifies only the end of emptiness.
WokenByFirstPush(q) == IF Empty(body[q]) THEN NotifyOne(notEmpty[q]) ELSE {{}}

WokenByPush(q) == NotifyOne(notEmpty[q])

\* Mutant: a pop notifies nobody.
WokenByNoPop(q) == {{}}

WokenByPop(q) == NotifyOne(notFull[q])

\* t leaves its call, and the waiters in N are woken.
LeaveAndWake(t, N) ==
    pc' = [u \in Threads |-> IF u = t THEN "idle"
                             ELSE IF u \in N THEN "woken" ELSE pc[u]]

\* A client calls a member function.
MakeCall(t, c) ==
    /\ pc[t] = "idle"
    /\ call' = [call EXCEPT ![t] = c]
    /\ Goto(t, "start")
    /\ ret' = [ret EXCEPT ![t] = Pending]
    /\ UNCHANGED <<body, mx, waiting, tmp>>

Invoke(t) ==
    /\ budget[t] > 0
    /\ \E c \in Calls[t] : MakeCall(t, c)
    /\ budget' = [budget EXCEPT ![t] = @ - 1]
    /\ UNCHANGED spurious

-----------------------------------------------------------------------------
\* push, try_push, try_push_for, pop, try_pop, try_pop_for; empty, full, size.

\* Mutant: every operation tests what push() tests.
ReadySame(c) == ~Full(body[c.q])

\* The predicate of the wait, or the negated test of a try_ function.
Ready(c) == IF c.op \in PushOps THEN ~Full(body[c.q]) ELSE ~Empty(body[c.q])

\* Mutant: try_push and try_pop go without the guard.
AcquireUnlessTry(t) ==
    /\ call[t] # None /\ call[t].op \in PushOps \cup PopOps \cup {"observe"}
    /\ IF call[t].op \in Immediate
       THEN pc[t] = "start" /\ Goto(t, "locked")
            /\ UNCHANGED <<body, mx, waiting, call, tmp, ret, bounds>>
       ELSE Lock(t, "start", call[t].q, "locked")

Acquire(t) == /\ call[t] # None /\ call[t].op \in PushOps \cup PopOps \cup {"observe"}
              /\ Lock(t, "start", call[t].q, "locked")

\* wait() and wait_for() return with the mutex held again.
Reacquire(t) == \/ Lock(t, "woken", call[t].q, "locked")
                \/ Lock(t, "timedout", call[t].q, "expired")

Proceed(t) ==
    /\ pc[t] \in {"locked", "expired"} /\ call[t].op # "observe"
    /\ Ready(call[t])
    /\ Goto(t, "act")
    /\ UNCHANGED <<body, mx, waiting, call, tmp, ret, bounds>>

\* Mutant: after the deadline the predicate is not evaluated again.
RefuseLate(t) ==
    /\ pc[t] = "expired" \/ (pc[t] = "locked" /\ call[t].op \in Immediate /\ ~Ready(call[t]))
    /\ Leave(t, call[t].q, Refused)
    /\ UNCHANGED <<body, waiting, tmp, bounds>>

\* A try_ function finds the queue full or empty; a wait_for() returns false.
Refuse(t) ==
    /\ pc[t] = "expired" \/ (pc[t] = "locked" /\ call[t].op \in Immediate)
    /\ ~Ready(call[t])
    /\ Leave(t, call[t].q, Refused)
    /\ UNCHANGED <<body, waiting, tmp, bounds>>

Wait(t) ==
    LET q == call[t].q IN
    /\ pc[t] = "locked" /\ call[t].op \in {"push", "push_rvalue", "pop"} \cup Timed
    /\ ~Ready(call[t])
    /\ Unlock(q) /\ Goto(t, "wait")
    /\ IF call[t].op \in PushOps
       THEN notFull' = [notFull EXCEPT ![q] = @ \cup {t}] /\ UNCHANGED notEmpty
       ELSE notEmpty' = [notEmpty EXCEPT ![q] = @ \cup {t}] /\ UNCHANGED notFull
    /\ UNCHANGED <<body, call, tmp, ret, bounds>>

\* t stops waiting without having been notified.
StopWaiting(t, label) ==
    /\ pc[t] = "wait"
    /\ Goto(t, label)
    /\ notFull' = [q \in Queues |-> notFull[q] \ {t}]
    /\ notEmpty' = [q \in Queues |-> notEmpty[q] \ {t}]
    /\ UNCHANGED <<body, mx, call, tmp, ret, budget>>

Timeout(t) == /\ StopWaiting(t, "timedout") /\ call[t].op \in Timed
              /\ UNCHANGED spurious

SpuriousWake(t) == /\ spurious < MaxSpurious /\ spurious' = spurious + 1
                   /\ StopWaiting(t, "woken")

\* The element a push constructs from its argument.
Passed(c) == IF c.op = "push_rvalue" THEN Moved(c.v) ELSE Copied(c.v)

Push(t) ==
    LET q == call[t].q IN
    /\ pc[t] = "act" /\ call[t].op \in PushOps
    /\ body' = [body EXCEPT ![q] = Construct(@, Passed(call[t]))]
    /\ \E N \in WokenByPush(q) :
           notEmpty' = [notEmpty EXCEPT ![q] = @ \ N] /\ LeaveAndWake(t, N)
    /\ Unlock(q) /\ Return(t, Ok(<<>>))
    /\ UNCHANGED <<notFull, tmp, bounds>>

Pop(t) ==
    LET q == call[t].q IN
    /\ pc[t] = "act" /\ call[t].op \in PopOps
    /\ body' = [body EXCEPT ![q] = Destroy(@)]
    /\ \E N \in WokenByPop(q) :
           notFull' = [notFull EXCEPT ![q] = @ \ N] /\ LeaveAndWake(t, N)
    /\ Unlock(q) /\ Return(t, Ok(<<Moved(At(body[q], 0))>>))
    /\ UNCHANGED <<notEmpty, tmp, bounds>>

\* Copying the element in, or moving it out, throws before size_ changes.
ThrowElement(t) ==
    /\ Throws /\ pc[t] = "act"
    /\ Leave(t, call[t].q, Threw)
    /\ UNCHANGED <<body, waiting, tmp, bounds>>

Observe(t) ==
    LET b == body[call[t].q] IN
    /\ pc[t] = "locked" /\ call[t].op = "observe"
    /\ Leave(t, call[t].q, Ok(<<Empty(b), Full(b), b.size>>))
    /\ UNCHANGED <<body, waiting, tmp, bounds>>

-----------------------------------------------------------------------------
\* swap and move assignment; std::lock holds one mutex only to try the other.

\* this == &rhs
SelfCall(t) ==
    /\ pc[t] = "start" /\ call[t].op \in SwapOps \cup {"copy_assign"}
    /\ call[t].q = call[t].rhs
    /\ Goto(t, "idle") /\ Return(t, Ok(<<>>))
    /\ UNCHANGED <<body, mx, waiting, tmp, bounds>>

\* Mutant: swap locks its own queue only.
LockOwnOnly(t) ==
    /\ call[t] # None /\ call[t].op \in SwapOps /\ call[t].q # call[t].rhs
    /\ Lock(t, "start", call[t].q, "swap")

LockFirst(t) ==
    /\ call[t] # None /\ call[t].op \in SwapOps /\ call[t].q # call[t].rhs
    /\ \E m \in {call[t].q, call[t].rhs} : Lock(t, "start", m, "lockOther")

Other(t) == CHOOSE m \in {call[t].q, call[t].rhs} : mx[m] # t

LockOther(t) == Lock(t, "lockOther", Other(t), "swap")

\* Mutant: the second mutex is waited for while the first is held.
BackOffNever(t) == FALSE /\ UNCHANGED vars

BackOff(t) ==
    /\ pc[t] = "lockOther" /\ mx[Other(t)] # None
    /\ mx' = [q \in Queues |-> IF mx[q] = t THEN None ELSE mx[q]]
    /\ Goto(t, "start")
    /\ UNCHANGED <<body, waiting, call, tmp, ret, bounds>>

SwapMembers(t) ==
    LET q == call[t].q
        r == call[t].rhs IN
    /\ pc[t] = "swap"
    /\ body' = [body EXCEPT ![q] = body[r], ![r] = body[q]]
    /\ mx' = [mx EXCEPT ![q] = None, ![r] = None]
    /\ Goto(t, "idle") /\ Return(t, Ok(<<>>))
    /\ UNCHANGED <<waiting, tmp, bounds>>

-----------------------------------------------------------------------------
\* Copy construction, copy assignment and move construction build a queue
\* object of their own, tmp[t], whose mutex no other thread can reach.

\* capacity_{rhs.capacity_} and newMemory() run before rhs is locked.
ReadCapacity(t) ==
    /\ pc[t] = "start" /\ call[t].op \in Constructing
    /\ call[t].op = "copy_assign" => call[t].q # call[t].rhs
    /\ tmp' = [tmp EXCEPT ![t] = NewBody(body[call[t].rhs].capacity)]
    /\ Goto(t, "fresh")
    /\ UNCHANGED <<body, mx, waiting, call, ret, bounds>>

\* Mutant: the copy constructor does not lock its source.
CopyUnguarded(t) ==
    /\ pc[t] = "fresh" /\ Goto(t, "source")
    /\ UNCHANGED <<body, mx, waiting, call, tmp, ret, bounds>>

LockSource(t) == Lock(t, "fresh", call[t].rhs, "source")

Copying(t) == /\ pc[t] = "source" /\ call[t].op \in CopyOps
              /\ tmp[t].size < body[call[t].rhs].size

CopyElement(t) ==
    /\ Copying(t)
    /\ tmp' = [tmp EXCEPT ![t] = Construct(@, Copied(At(body[call[t].rhs], @.size)))]
    /\ UNCHANGED <<body, mx, waiting, pc, call, ret, bounds>>

\* The constructor has not finished: its members are released, but no
\* destructor runs for the elements copied so far.
CopyThrow(t) ==
    /\ Throws /\ Copying(t)
    /\ tmp' = [tmp EXCEPT ![t] = None]
    /\ Leave(t, call[t].rhs, Threw)
    /\ UNCHANGED <<body, waiting, bounds>>

\* Mutant: copy_assign keeps its source locked until it has its target.
CopyDoneKeeping(t) ==
    /\ pc[t] = "source" /\ call[t].op \in CopyOps /\ ~Copying(t)
    /\ IF call[t].op = "copy_assign"
       THEN Goto(t, "copied") /\ UNCHANGED <<mx, ret>>
       ELSE /\ Unlock(call[t].rhs) /\ Goto(t, "destroy")
            /\ ret' = [ret EXCEPT ![t] = Ok(Snapshot(tmp[t]))]
    /\ UNCHANGED <<body, waiting, call, tmp, bounds>>

CopyDone(t) ==
    /\ pc[t] = "source" /\ call[t].op \in CopyOps /\ ~Copying(t)
    /\ Unlock(call[t].rhs)
    /\ IF call[t].op = "copy_assign"
       THEN Goto(t, "copied") /\ UNCHANGED ret
       ELSE Goto(t, "destroy") /\ ret' = [ret EXCEPT ![t] = Ok(Snapshot(tmp[t]))]
    /\ UNCHANGED <<body, waiting, call, tmp, bounds>>

\* Mutant: the queue's members go to the local object and stay.
ExchangeHalf(t, q, r) ==
    /\ tmp' = [tmp EXCEPT ![t] = body[q]]
    /\ Unlock(q) /\ Goto(t, "destroy")
    /\ ret' = [ret EXCEPT ![t] = r]
    /\ UNCHANGED <<body, waiting, call, bounds>>

\* Mutant: the queue takes over the local object's members, which is left a new
\* queue, as if it had had nothing to give in exchange.
ExchangeOver(t, q, r) ==
    /\ body' = [body EXCEPT ![q] = tmp[t]]
    /\ tmp' = [tmp EXCEPT ![t] = NewBody(body[q].capacity)]
    /\ Unlock(q) /\ Goto(t, "destroy")
    /\ ret' = [ret EXCEPT ![t] = r]
    /\ UNCHANGED <<waiting, call, bounds>>

\* The local object and the queue q exchange their members.
Exchange(t, q, r) ==
    /\ body' = [body EXCEPT ![q] = tmp[t]]
    /\ tmp' = [tmp EXCEPT ![t] = body[q]]
    /\ Unlock(q) /\ Goto(t, "destroy")
    /\ ret' = [ret EXCEPT ![t] = r]
    /\ UNCHANGED <<waiting, call, bounds>>

MoveOut(t) == /\ pc[t] = "source" /\ call[t].op = "move_ctor"
              /\ Exchange(t, call[t].rhs, Ok(Snapshot(body[call[t].rhs])))

LockTarget(t) == Lock(t, "copied", call[t].q, "target")

Install(t) == pc[t] = "target" /\ Exchange(t, call[t].q, Ok(<<>>))

\* ~BoundedQueue() of the local object, at the end of its scope.
DestroyElement(t) ==
    /\ pc[t] = "destroy" /\ ~Empty(tmp[t])
    /\ tmp' = [tmp EXCEPT ![t] = Destroy(@)]
    /\ UNCHANGED <<body, mx, waiting, pc, call, ret, bounds>>

DestroyDone(t) ==
    /\ pc[t] = "destroy" /\ Empty(tmp[t])
    /\ tmp' = [tmp EXCEPT ![t] = None]
    /\ Goto(t, "idle") /\ call' = [call EXCEPT ![t] = None]
    /\ UNCHANGED <<body, mx, waiting, ret, bounds>>

-----------------------------------------------------------------------------
\* A thread's own steps, apart from spurious wakeups.
Step(t) ==
    \/ Invoke(t)
    \/ Acquire(t) \/ Reacquire(t) \/ Proceed(t) \/ Refuse(t) \/ Wait(t)
    \/ Timeout(t) \/ Push(t) \/ Pop(t) \/ ThrowElement(t) \/ Observe(t)
    \/ SelfCall(t) \/ LockFirst(t) \/ LockOther(t) \/ BackOff(t) \/ SwapMembers(t)
    \/ ReadCapacity(t) \/ LockSource(t) \/ CopyElement(t) \/ CopyThrow(t)
    \/ CopyDone(t) \/ MoveOut(t) \/ LockTarget(t) \/ Install(t)
    \/ DestroyElement(t) \/ DestroyDone(t)

\* Nobody has anything to do: each thread has made its calls, or waits for a
\* notification.  A program may rest there; anywhere else is a deadlock.
Finished(t) == pc[t] = "idle" /\ budget[t] = 0
Rest == (\A t \in Threads : Finished(t) \/ pc[t] = "wait") /\ UNCHANGED vars

Next == (\E t \in Threads : Step(t) \/ SpuriousWake(t)) \/ Rest

Spec == Init /\ [][Next]_vars

\* The scheduler runs every thread; a deadline that a wait_for() has passes.
FairSpec == Spec /\ \A t \in Threads : WF_vars(Step(t))

-----------------------------------------------------------------------------
\* Properties.

IsBody(b) == \E c \in Capacities : b \in BodyOf(c)

Labels == {"idle", "start", "locked", "act", "wait", "woken", "timedout",
           "expired", "lockOther", "swap", "fresh", "source", "copied",
           "target", "destroy"}

\* Where a thread has a local queue object.
Building == {"fresh", "source", "copied", "target", "destroy"}

ThreadOK(t) == /\ IF pc[t] = "idle" THEN call[t] = None ELSE call[t] \in Calls[t]
               /\ IF pc[t] \in Building THEN IsBody(tmp[t]) ELSE tmp[t] = None

\* Every variable has its type; a thread has a call exactly when it is in one,
\* and a local queue object exactly while it constructs or destroys one.
TypeOK ==
    /\ DOMAIN body = Queues /\ \A q \in Queues : IsBody(body[q])
    /\ mx \in [Queues -> Threads \cup {None}]
    /\ notEmpty \in [Queues -> SUBSET Threads]
    /\ notFull \in [Queues -> SUBSET Threads]
    /\ pc \in [Threads -> Labels]
    /\ DOMAIN call = Threads /\ DOMAIN tmp = Threads /\ DOMAIN ret = Threads
    /\ \A t \in Threads : ThreadOK(t)
    /\ budget \in [Threads -> Nat] /\ spurious \in Nat

\* Where a thread is fits the call it is in.
PlaceFitsCall ==
    \A t \in Threads :
        LET c == call[t] IN
        /\ pc[t] = "locked" => c.op \in PushOps \cup PopOps \cup {"observe"}
        /\ pc[t] \in {"act", "wait", "woken", "timedout", "expired"} =>
               c.op \in PushOps \cup PopOps
        /\ pc[t] \in {"lockOther", "swap"} => c.op \in SwapOps /\ c.q # c.rhs
        /\ pc[t] \in {"fresh", "source"} =>
               c.op \in Constructing /\ (c.op = "copy_assign" => c.q # c.rhs)
        /\ pc[t] \in {"copied", "target"} => c.op = "copy_assign" /\ c.q # c.rhs

\* A condition variable's waiters are the threads that wait on it.
WaitSets ==
    \A t \in Threads, q \in Queues :
        /\ t \in notEmpty[q] <=> pc[t] = "wait" /\ call[t].q = q /\ call[t].op \in PopOps
        /\ t \in notFull[q] <=> pc[t] = "wait" /\ call[t].q = q /\ call[t].op \in PushOps

\* A thread holds exactly the mutexes its place in the code says: no return,
\* wait or backed-off std::lock keeps one, and no access goes without.
MustHold(t, q) ==
    \/ pc[t] \in {"locked", "act", "expired", "target"} /\ q = call[t].q
    \/ pc[t] = "source" /\ q = call[t].rhs
    \/ pc[t] = "swap" /\ q \in {call[t].q, call[t].rhs}

LockDiscipline ==
    \A t \in Threads :
        IF pc[t] = "lockOther"
        THEN \E m \in {call[t].q, call[t].rhs} : \A q \in Queues : mx[q] = t <=> q = m
        ELSE \A q \in Queues : mx[q] = t <=> MustHold(t, q)

\* The mutexes of which t needs one to go on.  Of the two that std::lock takes
\* it waits for the first; the other it only tries.
Needs(t) ==
    LET c == call[t] IN
    {q \in Queues :
        \/ pc[t] = "start" /\ c.op \in PushOps \cup PopOps \cup {"observe"} /\ q = c.q
        \/ pc[t] = "start" /\ c.op \in SwapOps /\ c.q # c.rhs /\ q \in {c.q, c.rhs}
        \/ pc[t] \in {"woken", "timedout", "copied"} /\ q = c.q
        \/ pc[t] = "fresh" /\ q = c.rhs}

\* t waits neither for its client, nor for a notification, nor for a mutex.
CanGoOn(t) == /\ pc[t] \notin {"idle", "wait"}
              /\ Needs(t) = {} \/ \E q \in Needs(t) : mx[q] = None

\* There is no deadlock of mutexes: unless every thread is between calls or
\* waits for a notification, one of them can go on.  So no call, alone or with
\* others, ever holds a mutex that it would take a second one to release.
NoDeadlock ==
    (\E t \in Threads : pc[t] \notin {"idle", "wait"}) => \E t \in Threads : CanGoOn(t)

\* Nothing but a mutex, a notification or the client holds a call up: no place
\* of a call is left without a next step.
CallsGoOn == \A t \in Threads : CanGoOn(t) => ENABLED Step(t)

\* The predicate a push or pop evaluated (in wait(), or in a try_ function)
\* still holds when it constructs or destroys an element, whatever the other
\* threads did in between.
PredicateStillHolds == \A t \in Threads : pc[t] = "act" => Ready(call[t])

\* While a copy is being made, what it has so far is a copy of the source's front.
CopyIsPrefix ==
    \A t \in Threads :
        (pc[t] = "source" /\ call[t].op \in CopyOps) =>
            /\ tmp[t].size <= body[call[t].rhs].size
            /\ \A i \in 0..tmp[t].size - 1 : At(tmp[t], i) = Copied(At(body[call[t].rhs], i))

\* No queue, shared or local, ever holds more elements than slots, a destroyed
\* element in its window, or a live element outside it.
RingIntact ==
    /\ \A q \in Queues : RingOK(body[q])
    /\ \A t \in Threads : pc[t] \in Building => RingOK(tmp[t])

\* The object b is left as c by a step: its memory is as before, or one slot of it
\* got an element that is counted, or lost its element, which is not counted.
GoesOn(b, c) ==
    /\ c.capacity = b.capacity
    /\ \/ c.container = b.container /\ c.size = b.size
       \/ \E s \in DOMAIN b.container :
              /\ c.container = [b.container EXCEPT ![s] = c.container[s]]
              /\ \/ b.container[s] = Raw /\ c.container[s] # Raw /\ c.size = b.size + 1
                 \/ b.container[s] # Raw /\ c.container[s] = Raw /\ c.size = b.size - 1

\* The members of q come from another queue or a local object, which has q's.
Exchanges(q) == \/ \E r \in Queues : body'[r] = body[q] /\ body'[q] = body[r]
                \/ \E t \in Threads : tmp'[t] = body[q] /\ body'[q] = tmp[t]

\* t's local object goes with no element in its memory, or in the middle of a copy.
MayEnd(t) == \/ \A s \in DOMAIN tmp[t].container : tmp[t].container[s] = Raw
             \/ pc[t] = "source" /\ call[t].op \in CopyOps /\ ret'[t] = Threw

\* No element is overwritten or forgotten, and no memory is left or reached twice:
\* through every race of swaps, copies and moves a constructed element stays where
\* it is, goes to another object with all of its memory, or is destroyed and no
\* longer counted.  Only the copies made by a copy that an exception has interrupted
\* are lost.
OnlyInterruptedCopiesLeak ==
    [][/\ \A q \in Queues : GoesOn(body[q], body'[q]) \/ Exchanges(q)
       /\ \A t \in Threads : pc[t] \in Building =>
              \/ pc'[t] \in Building /\ GoesOn(tmp[t], tmp'[t])
              \/ \E q \in Queues : body'[q] = tmp[t] /\ tmp'[t] = body[q]
              \/ pc'[t] \notin Building /\ MayEnd(t)]_vars

\* t is in an operation of ops on q and will look at q before it waits again.
Awake(ops, q) ==
    {t \in Threads : /\ pc[t] \in {"locked", "act", "woken", "timedout", "expired"}
                     /\ call[t].op \in ops /\ call[t].q = q}

\* No wakeup is lost: while consumers wait on q, each element of q has a
\* consumer that is awake to take it; while producers wait, each free slot has
\* a producer that is awake to fill it.
NoLostWakeup ==
    \A q \in Queues :
        /\ notEmpty[q] # {} => body[q].size <= Cardinality(Awake(PopOps, q))
        /\ notFull[q] # {} =>
               body[q].capacity - body[q].size <= Cardinality(Awake(PushOps, q))

\* How many wakeups of q's waiting consumers, and of its waiting producers, are
\* missing.
Excess(n, k) == IF n > k THEN n - k ELSE 0
LostPops(q) == IF notEmpty[q] = {} THEN 0
               ELSE Excess(body[q].size, Cardinality(Awake(PopOps, q)))
LostPushes(q) == IF notFull[q] = {} THEN 0
                 ELSE Excess(body[q].capacity - body[q].size, Cardinality(Awake(PushOps, q)))

\* There are two ways to lose wakeups: an element's exception in the operation of
\* a thread that was awake, which loses one at most, and a swap, a move or an
\* assignment that exchanges the content of a queue.  Pushes, pops, refusals,
\* timeouts, copies and spurious wakeups lose none, also if some are missing.  t is
\* the thread whose step it is.
ThrowLoses(t, q) == /\ pc[t] = "act" /\ pc'[t] = "idle" /\ call[t].q = q /\ ret'[t] = Threw
                    /\ (LostPops(q) + LostPushes(q))' <= LostPops(q) + LostPushes(q) + 1
ExchangeLoses(t, q) == /\ pc[t] \in {"swap", "source", "target"} /\ pc'[t] # pc[t]
                       /\ q \in {call[t].q, call[t].rhs} /\ body'[q] # body[q]
OnlyThrowsAndExchangesLoseWakeups ==
    [][\A q \in Queues :
           \/ LostPops(q)' <= LostPops(q) /\ LostPushes(q)' <= LostPushes(q)
           \/ \E t \in Threads : ThrowLoses(t, q) \/ ExchangeLoses(t, q)]_vars

\* A consumer does not wait forever on a queue that keeps elements, nor a
\* producer on one that keeps room.
WaitersServed ==
    \A t \in Threads, q \in Queues :
        /\ (t \in notEmpty[q] /\ ~Empty(body[q])) ~> (t \notin notEmpty[q] \/ Empty(body[q]))
        /\ (t \in notFull[q] /\ ~Full(body[q])) ~> (t \notin notFull[q] \/ Full(body[q]))
=============================================================================
