---------------------------- MODULE QueueSuites ----------------------------
(***************************************************************************)
(* ExW11's test executable: the test functions run as callers of the       *)
(* queues of BoundedQueue, the multi-threaded ones with threads of their   *)
(* own, and CUTE judges what each operation gives.  Constructing a queue   *)
(* from a capacity and destroying it, which the shared queues of Bounded-  *)
(* Queue do not show, are operations here.                                 *)
(***************************************************************************)
EXTENDS BoundedQueue, CuteRunner

LOCAL SX == INSTANCE SequencesExt

CONSTANT Main   \* the thread that runs the tests, one of Threads

VARIABLES stats,    \* the static counters of the suites' element, mutex and
                    \* condition variable types
          docheck,  \* do the condition variables check them when they are destroyed?
          kind,     \* kind[q]: what the template arguments of q's type say, or None
          jobs,     \* jobs[t]: the calls the launched thread t has yet to make
          popped    \* popped[t]: the elements t got

lockVars == <<docheck, kind>>
asyncVars == <<jobs, popped>>
allVars == <<vars, runnerVars, stats, lockVars, asyncVars>>

NoStats == [copies |-> 0, moves |-> 0, assigned |-> 0, destroyed |-> 0, arrays |-> 0,
            lock |-> 0, unlock |-> 0, try_lock |-> 0, waits |-> 0, notifies |-> 0]

SuiteInit ==
    /\ body = [q \in Queues |-> None] /\ mx = [q \in Queues |-> None]
    /\ notEmpty = [q \in Queues |-> {}] /\ notFull = [q \in Queues |-> {}]
    /\ pc = [t \in Threads |-> "idle"] /\ call = [t \in Threads |-> None]
    /\ tmp = [t \in Threads |-> None] /\ ret = [t \in Threads |-> Pending]
    /\ budget = [t \in Threads |-> 0] /\ spurious = 0
    /\ RunnerInit
    /\ stats = NoStats /\ docheck = FALSE /\ kind = [q \in Queues |-> None]
    /\ jobs = [t \in Threads |-> <<>>] /\ popped = [t \in Threads |-> <<>>]

-----------------------------------------------------------------------------
\* What a step of t in the queues' code does to the static counters.

OneIf(b) == IF b THEN 1 ELSE 0

\* A move constructor and a copy assignment lock two mutexes, of which one is
\* that of a queue nobody else knows.
LocksPrivate(label, t) == label = "target" \/ (label = "source" /\ call[t].op = "move_ctor")

ElementsCounted(t) ==
    LET acts(ops) == pc[t] = "act" /\ call[t].op \in ops IN
    [stats EXCEPT !.copies = @ + OneIf(\/ acts(PushOps \ {"push_rvalue"})
                                       \/ pc[t] = "source" /\ pc'[t] = "source"),
                  !.moves = @ + OneIf(acts({"push_rvalue", "pop"})),
                  !.assigned = @ + OneIf(acts({"try_pop", "try_pop_for"})),
                  !.destroyed = @ + OneIf(\/ acts(PopOps)
                                          \/ pc[t] = "destroy" /\ pc'[t] = "destroy")]

LocksCounted(t, s) ==
    LET entered == pc'[t] # pc[t]
                   /\ pc'[t] \in {"locked", "expired", "source", "target", "lockOther"} IN
    [s EXCEPT !.lock = @ + OneIf(entered),
              !.try_lock = @ + OneIf(\/ pc[t] = "lockOther"
                                     \/ entered /\ LocksPrivate(pc'[t], t)),
              !.unlock = @ + Cardinality({q \in Queues : mx[q] = t /\ mx'[q] # t})
                           + OneIf(LocksPrivate(pc[t], t) /\ pc'[t] # pc[t]),
              !.waits = @ + OneIf(/\ pc[t] = "start" /\ pc'[t] = "locked"
                                  /\ call[t].op \notin Immediate \cup {"observe"}),
              !.notifies = @ + OneIf(pc[t] = "act")]

\* The queue whose type t's call is about; std::mutex and
\* std::condition_variable count nothing.
About(t) == IF call[t].op \in Constructing THEN call[t].rhs ELSE call[t].q

Count(t) ==
    IF kind[About(t)] = None THEN stats' = ElementsCounted(t) /\ UNCHANGED docheck
    ELSE /\ stats' = LocksCounted(t, ElementsCounted(t))
         /\ docheck' = IF pc'[t] = "fresh" THEN kind[About(t)].check ELSE docheck

-----------------------------------------------------------------------------
\* The calls of the tests.

CallOf(item) ==
    [op |-> IF item.do = "push" /\ item.args[1].rvalue THEN "push_rvalue" ELSE item.do,
     q |-> item.on,
     rhs |-> IF item.do \in SwapOps \cup Constructing THEN item.rhs ELSE None,
     v |-> IF item.args = <<>> THEN None ELSE item.args[1].v]

CallOperation ==
    /\ Due(Ops) /\ MakeCall(Main, CallOf(Item)) /\ BeginItem
    /\ UNCHANGED <<bounds, stats, lockVars, asyncVars>>

\* A thread launched by std::async makes its calls.
LaunchedCall(t) ==
    /\ jobs[t] # <<>> /\ MakeCall(t, CallOf(Head(jobs[t])))
    /\ jobs' = [jobs EXCEPT ![t] = Tail(@)]
    /\ UNCHANGED <<bounds, runnerVars, stats, lockVars, popped>>

\* try_lock() of a mutex that counts down fails although nobody has the mutex.
Refuses(t) == pc[t] = "lockOther" /\ kind[Other(t)] # None /\ kind[Other(t)].tries > 0
RefuseLock(t) ==
    /\ Refuses(t)
    /\ mx' = [q \in Queues |-> IF mx[q] = t THEN None ELSE mx[q]]
    /\ Goto(t, "start") /\ Count(t)
    /\ kind' = [kind EXCEPT ![Other(t)].tries = @ - 1]
    /\ UNCHANGED <<body, waiting, call, tmp, ret, bounds, runnerVars, asyncVars>>

\* A constructor's object is not local to the call: it becomes the test's.
Built(t) == pc[t] = "destroy" /\ call[t].op \in {"copy_ctor", "move_ctor"}
Keep ==
    /\ Built(Main)
    /\ body' = [body EXCEPT ![call[Main].q] = tmp[Main]]
    /\ kind' = [kind EXCEPT ![call[Main].q] = kind[call[Main].rhs]]
    /\ tmp' = [tmp EXCEPT ![Main] = None] /\ Goto(Main, "idle")
    /\ call' = [call EXCEPT ![Main] = None]
    /\ UNCHANGED <<mx, waiting, ret, bounds, runnerVars, stats, docheck, asyncVars>>

Collect(t) ==
    IF t # Main /\ pc[t] = "act" /\ call[t].op = "pop"
    THEN popped' = [popped EXCEPT ![t] = Append(@, ret'[t].val[1].val)]
    ELSE UNCHANGED popped

RunOperation(t) ==
    /\ pc[t] # "idle" /\ ~Refuses(t) /\ ~Built(t)
    /\ Step(t) /\ Count(t) /\ Collect(t)
    /\ UNCHANGED <<runnerVars, kind, jobs>>

\* The test looks at what the operation gave.
Answer == IF Item.do \in Immediate \cup Timed THEN Ok(<<ret[Main].st # "refused">>) ELSE ret[Main]
Judged ==
    /\ doing /\ pc[Main] = "idle" /\ Judge(Answer)
    /\ UNCHANGED <<vars, stats, lockVars, asyncVars>>

-----------------------------------------------------------------------------
\* Construction with a capacity.

Refusal == Result("invalid_argument", <<>>)

ConstructQueue ==
    /\ Due({"new"})
    /\ IF Item.n = 0
       THEN Judge(Refusal) /\ UNCHANGED <<body, lockVars>>
       ELSE /\ Judge(Ok(<<>>))
            /\ body' = [body EXCEPT ![Item.on] = NewBody(Item.n)]
            /\ IF Item.args = <<>> THEN UNCHANGED lockVars
               ELSE /\ kind' = [kind EXCEPT ![Item.on] = Item.args[1]]
                    /\ docheck' = Item.args[1].check
    /\ UNCHANGED <<mx, waiting, pc, call, tmp, ret, bounds, stats, asyncVars>>

\* Destruction, when the test says so or is left.  The futures, which are
\* declared after the queues, wait for their threads first.
Done(t) == jobs[t] = <<>> /\ pc[t] = "idle"
Left == BodyOver /\ \A t \in Threads : Done(t)
Alive == {q \in Queues : body[q] # None}
Going == CASE Due({"destroy"}) -> {Item.on}
           [] Left /\ Alive # {} -> {CHOOSE q \in Alive : TRUE}
           [] OTHER -> {}

DestroyFront ==
    \E q \in Going :
        /\ ~Empty(body[q])
        /\ body' = [body EXCEPT ![q] = Destroy(@)]
        /\ stats' = [stats EXCEPT !.destroyed = @ + 1]
        /\ UNCHANGED <<mx, waiting, pc, call, tmp, ret, bounds, runnerVars, lockVars, asyncVars>>

Released(q) == /\ body' = [body EXCEPT ![q] = None]
               /\ UNCHANGED <<mx, waiting, pc, call, tmp, ret, bounds, stats, asyncVars>>

CloseScope == /\ Due({"destroy"}) /\ kind[Item.on] = None /\ Empty(body[Item.on])
              /\ Released(Item.on) /\ Judge(Ok(<<>>))
              /\ UNCHANGED lockVars

\* ~single_threaded_condition_variable() finds other counts than it wants.  Its
\* exception fails the test; thrown while another is under way it ends the program.
Unwanted(q) == /\ docheck /\ kind[q] # None
               /\ stats.waits # kind[q].waits \/ stats.notifies # kind[q].notifies

DestroyLocal ==
    \E q \in Going :
        /\ Left /\ Empty(body[q]) /\ Released(q)
        /\ kind' = [kind EXCEPT ![q] = None]
        /\ IF Unwanted(q)
           THEN /\ docheck' = FALSE /\ outcome' = "failure"
                /\ stage' = IF outcome = "success" THEN stage ELSE "terminated"
           ELSE UNCHANGED <<docheck, outcome, stage>>
        /\ UNCHANGED <<args, place, todo, doing, noted, report, unsuccessful>>

-----------------------------------------------------------------------------
\* What else a test does.

ResetCounters ==
    /\ Due({"reset"}) /\ Judge(Ok(<<>>))
    /\ stats' = NoStats /\ docheck' = TRUE
    /\ UNCHANGED <<vars, kind, asyncVars>>

\* A counter, or a sum of them that a test is about.
CounterOf(what) == CASE what = "acquired" -> stats.lock + stats.try_lock
                    [] what = "balance" -> stats.lock + stats.try_lock - stats.unlock
                    [] OTHER -> stats[what]

JudgedOwn ==
    /\ Due({"noted", "count"})
    /\ Judge(Ok(<<IF Item.do = "noted" THEN noted ELSE CounterOf(Item.on)>>))
    /\ UNCHANGED <<vars, stats, lockVars, asyncVars>>

Launch ==
    /\ Due({"async"}) /\ Judge(Ok(<<>>))
    /\ jobs' = [jobs EXCEPT ![Item.on] = Item.args]
    /\ UNCHANGED <<vars, stats, lockVars, popped>>

\* wait_for(): the second it waits is long enough for the threads to end.
WaitFor == /\ Due({"wait_for"}) /\ Done(Item.on) /\ Judge(Ok(<<>>))
           /\ UNCHANGED <<vars, stats, lockVars, asyncVars>>

\* get() of the consumers' futures, the results in one vector.
Combined == SX!FlattenSeq([k \in DOMAIN Item.args |-> popped[Item.args[k]]])
Got ==
    /\ Due({"popped", "sorted"}) /\ \A k \in DOMAIN Item.args : Done(Item.args[k])
    /\ Judge(Ok(<<IF Item.do = "sorted" THEN SX!SortSeq(Combined, <) ELSE Combined>>))
    /\ UNCHANGED <<vars, stats, lockVars, asyncVars>>

Finish == /\ Left /\ Alive = {} /\ EndTest
          /\ popped' = [t \in Threads |-> <<>>]
          /\ UNCHANGED <<vars, stats, lockVars, jobs>>

Run == BetweenTests /\ UNCHANGED <<vars, stats, lockVars, asyncVars>>

SuiteStep ==
    \/ CallOperation \/ Judged \/ ConstructQueue \/ Keep
    \/ \E t \in Threads : LaunchedCall(t) \/ RefuseLock(t) \/ RunOperation(t)
    \/ DestroyFront \/ CloseScope \/ DestroyLocal
    \/ ResetCounters \/ JudgedOwn \/ Launch \/ WaitFor \/ Got \/ Finish \/ Run

EqualityExact == (doing /\ pc[Main] = "idle") => EqualityOn(Answer)
=============================================================================
