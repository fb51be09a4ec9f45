------------------------- MODULE BoundedQueueProofs -------------------------
(***************************************************************************)
(* The invariants of BoundedQueue, for any threads, queues, calls,         *)
(* capacities and width of size_t.                                         *)
(*                                                                         *)
(* Inv is inductive.  Its heart is NonInterference: a thread changes only  *)
(* queues whose mutex it holds, so what another thread found under its own *)
(* mutex stays true.  That needs LockDiscipline, which needs to know which *)
(* call a thread is in (PlaceFitsCall) and that a notified thread was      *)
(* waiting (WaitSets); TypeOK needs all of them, since only a ready queue  *)
(* can be popped without its size becoming negative.                       *)
(***************************************************************************)
EXTENDS BoundedQueue, QueueBodyProofs, FiniteSetTheorems

\* QueueBodyProofs' typing facts, for a body of whatever capacity.
LEMMA BodyTypes ==
    ASSUME NEW b, IsBody(b)
    PROVE  /\ b.size \in Nat
           /\ IsBody(NewBody(b.capacity))
           /\ \A v \in Values \cup {Raw} : IsBody(Construct(b, v))
           /\ ~Empty(b) => IsBody(Destroy(b))
           /\ \A i \in Int : At(b, i) \in Values \cup {Raw}
<1> PICK c \in Capacities : b \in BodyOf(c)
  BY DEF IsBody
<1>1. b.size \in Nat /\ b.capacity = c /\ c \in Nat \ {0}
  BY CapacityAssumption, SizeModAssumption DEF BodyOf, Capacities
<1> QED  BY <1>1, NewBodyType, ConstructType, DestroyType, SlotRange DEF IsBody

-----------------------------------------------------------------------------
\* A thread that is not idle is in a well-formed call.
LEMMA CallTypes ==
    ASSUME TypeOK, NEW t \in Threads, pc[t] # "idle"
    PROVE  /\ call[t] \in Calls[t] /\ call[t] # None
           /\ call[t].op \in Ops /\ call[t].q \in Queues
           /\ call[t].op \in PushOps => call[t].v \in Values
           /\ call[t].op \in SwapOps \cup Constructing => call[t].rhs \in Queues
<1>1. call[t] \in Calls[t]
  BY DEF TypeOK, ThreadOK
<1> QED  BY <1>1, CallsAssumption, NoCallAssumption DEF Call

\* What a push makes of an element is an element.
LEMMA PassedType ==
    ASSUME NEW c, c.v \in Values
    PROVE  Passed(c) \in Values
  BY TransferAssumption DEF Passed

\* Taking a mutex keeps the types.
LEMMA LockType ==
    ASSUME TypeOK, NEW t \in Threads, NEW q \in Queues,
           NEW from \in Labels \ {"idle"}, NEW to \in Labels \ {"idle"},
           from \in Building <=> to \in Building,
           Lock(t, from, q, to)
    PROVE TypeOK'
<1>1. mx' \in [Queues -> Threads \cup {None}] /\ pc' \in [Threads -> Labels]
  BY DEF Lock, TypeOK, Goto
<1>3. ASSUME NEW u \in Threads
      PROVE  ThreadOK(u)'
  BY <1>1 DEF Lock, TypeOK, Goto, ThreadOK, IsBody
<1> QED BY <1>1, <1>3 DEF Lock, TypeOK, Goto, waiting, bounds, IsBody

-----------------------------------------------------------------------------
\* The inductive invariant, part by part.

Inv == TypeOK /\ PlaceFitsCall /\ WaitSets /\ LockDiscipline /\ PredicateStillHolds

\* A step keeps the types.
LEMMA TypeStep ==
    ASSUME Inv, NEW t \in Threads, Step(t) \/ SpuriousWake(t)
    PROVE  TypeOK'
<1> USE DEF Inv
<1>a. pc[t] # "idle" =>
          /\ call[t] \in Calls[t] /\ call[t].q \in Queues
          /\ call[t].op \in PushOps => call[t].v \in Values
          /\ call[t].op \in SwapOps \cup Constructing => call[t].rhs \in Queues
  BY CallTypes
<1>b. pc[t] # "idle" => call[t].q \in Queues
  BY <1>a
<1>c. \A q \in Queues : IsBody(body[q])
  BY DEF TypeOK
<1> USE DEF TypeOK, ThreadOK, Labels, Building, Goto, Return, Unlock, Leave,
   waiting, bounds
<1>1. CASE Invoke(t)
  BY <1>1 DEF Invoke, MakeCall
<1>2. CASE Acquire(t)
  BY <1>2, <1>b, LockType DEF Acquire, Lock
<1>3. CASE Reacquire(t)
  BY <1>3, <1>b, LockType DEF Reacquire, Lock
<1>4. CASE Proceed(t)
  BY <1>4 DEF Proceed
<1>5. CASE Refuse(t)
  BY <1>5 DEF Refuse
<1>6. CASE Wait(t)
  BY <1>6, <1>a, <1>c DEF Wait, PlaceFitsCall
<1>7. CASE Timeout(t)
  BY <1>7 DEF Timeout, StopWaiting
<1>8. CASE Push(t)
  <2> DEFINE q == call[t].q
  <2>1. IsBody(Construct(body[call[t].q], Passed(call[t])))
    BY <1>8, <1>a, <1>c, BodyTypes, PassedType DEF Push, PredicateStillHolds, Ready,
       PushOps, PopOps
  <2>2. PICK N \in WokenByPush(q) :
            notEmpty' = [notEmpty EXCEPT ![q] = @ \ N] /\ LeaveAndWake(t, N)
    BY <1>8 DEF Push
  <2>3. N \subseteq notEmpty[q]
    BY DEF WokenByPush, NotifyOne
  <2>4. \A u \in N : pc[u] = "wait"
    BY <2>3, <1>a, <1>8 DEF WaitSets, Push
  <2>5. pc' \in [Threads -> Labels] /\ \A u \in Threads : ThreadOK(u)'
    BY <1>8, <2>2, <2>4 DEF Push, LeaveAndWake
  <2> QED  BY <1>8, <1>a, <1>c, <2>1, <2>2, <2>3, <2>5 DEF Push
<1>9. CASE Pop(t)
  <2> DEFINE q == call[t].q
  <2>1. IsBody(Destroy(body[call[t].q]))
    BY <1>9, <1>a, <1>c, BodyTypes DEF Pop, PredicateStillHolds, Ready,
       PushOps, PopOps
  <2>2. PICK N \in WokenByPop(q) :
            notFull' = [notFull EXCEPT ![q] = @ \ N] /\ LeaveAndWake(t, N)
    BY <1>9 DEF Pop
  <2>3. N \subseteq notFull[q]
    BY DEF WokenByPop, NotifyOne
  <2>4. \A u \in N : pc[u] = "wait"
    BY <2>3, <1>a, <1>9 DEF WaitSets, Pop
  <2>5. pc' \in [Threads -> Labels] /\ \A u \in Threads : ThreadOK(u)'
    BY <1>9, <2>2, <2>4 DEF Pop, LeaveAndWake
  <2> QED  BY <1>9, <1>a, <1>c, <2>1, <2>2, <2>3, <2>5 DEF Pop
<1>10. CASE ThrowElement(t)
  BY <1>10 DEF ThrowElement
<1>11. CASE Observe(t)
  BY <1>11 DEF Observe
<1>12. CASE SelfCall(t)
  BY <1>12 DEF SelfCall
<1>13. CASE LockFirst(t)
  <2>1. PICK m \in {call[t].q, call[t].rhs} : Lock(t, "start", m, "lockOther")
    BY <1>13 DEF LockFirst
  <2> QED  BY <1>13, <1>a, <2>1, LockType DEF LockFirst, Lock
<1>14. CASE LockOther(t)
  BY <1>14, <1>a, <1>b, LockType DEF LockOther, Lock
<1>15. CASE BackOff(t)
  BY <1>15 DEF BackOff
<1>16. CASE SwapMembers(t)
  BY <1>16, <1>a, <1>c DEF SwapMembers, PlaceFitsCall
<1>17. CASE ReadCapacity(t)
  BY <1>17, <1>a, <1>c, BodyTypes DEF ReadCapacity
<1>18. CASE LockSource(t)
  BY <1>18, <1>a, <1>b, LockType DEF LockSource, Lock, PlaceFitsCall
<1>19. CASE CopyElement(t)
  <2>1. IsBody(tmp[t]) /\ IsBody(body[call[t].rhs])
    BY <1>19, <1>a, <1>c DEF CopyElement, Copying, CopyOps, Constructing
  <2> DEFINE v == At(body[call[t].rhs], tmp[t].size)
  <2>2. IsBody(Construct(tmp[t], Copied(v)))
    <3>1. tmp[t].size \in Int
      BY <2>1, BodyTypes
    <3>2. v \in Values \cup {Raw}
      BY <2>1, <3>1, BodyTypes
    <3> HIDE DEF v
    <3>3. Copied(v) \in Values \cup {Raw}
      BY <3>2, TransferAssumption
    <3> QED  BY <2>1, <3>3, BodyTypes
  <2> QED  BY <1>19, <2>2 DEF CopyElement, Copying
<1>20. CASE CopyThrow(t)
  BY <1>20 DEF CopyThrow
<1>21. CASE CopyDone(t)
  BY <1>21 DEF CopyDone
<1>22. CASE MoveOut(t)
  BY <1>22, <1>a, <1>c DEF MoveOut, Exchange, Constructing
<1>23. CASE LockTarget(t)
  BY <1>23, <1>b, LockType DEF LockTarget, Lock
<1>24. CASE Install(t)
  BY <1>24, <1>a, <1>c DEF Install, Exchange
<1>25. CASE DestroyElement(t)
  BY <1>25, BodyTypes DEF DestroyElement
<1>26. CASE DestroyDone(t)
  BY <1>26 DEF DestroyDone
<1>27. CASE SpuriousWake(t)
  BY <1>27 DEF SpuriousWake, StopWaiting
<1> QED
  BY <1>1, <1>2, <1>3, <1>4, <1>5, <1>6, <1>7, <1>8, <1>9, <1>10, <1>11,
     <1>12, <1>13,
     <1>14, <1>15, <1>16, <1>17, <1>18, <1>19, <1>20, <1>21, <1>22, <1>23,
        <1>24, <1>25,
     <1>26, <1>27 DEF Step

\* A step of t leaves every thread where its call allows it to be.
LEMMA PlaceStep ==
    ASSUME Inv, NEW t \in Threads, Step(t) \/ SpuriousWake(t)
    PROVE  PlaceFitsCall'
<1> USE DEF Inv
<1>a. /\ t \in DOMAIN pc /\ t \in DOMAIN call
      /\ pc[t] # "idle" => 
          /\ call[t] # None /\ call[t].op \in Ops /\ call[t].q \in Queues
          /\ call[t].op \in SwapOps \cup Constructing => call[t].rhs \in Queues
  BY CallTypes DEF TypeOK
<1> USE DEF PlaceFitsCall, Goto, Return, Unlock, Leave, waiting, bounds,
            PushOps, PopOps, SwapOps, Constructing, CopyOps, Ops, Timed,
            Immediate
<1>1. CASE Invoke(t)
  BY <1>1, <1>a DEF Invoke, MakeCall
<1>2. CASE Acquire(t)
  BY <1>2, <1>a DEF Acquire, Lock
<1>3. CASE Reacquire(t)
  <2>1. CASE Lock(t, "woken", call[t].q, "locked")
    BY <2>1, <1>a DEF Lock
  <2>2. CASE Lock(t, "timedout", call[t].q, "expired")
    BY <2>2, <1>a DEF Lock
  <2> QED  BY <1>3, <2>1, <2>2 DEF Reacquire
<1>4. CASE Proceed(t)
  BY <1>4, <1>a DEF Proceed
<1>5. CASE Refuse(t)
  BY <1>5, <1>a DEF Refuse
<1>6. CASE Wait(t)
  BY <1>6, <1>a DEF Wait
<1>7. CASE Timeout(t)
  BY <1>7, <1>a DEF Timeout, StopWaiting
<1>8. CASE Push(t)
  <2> DEFINE q == call[t].q
  <2>1. PICK N \in WokenByPush(q) :
            notEmpty' = [notEmpty EXCEPT ![q] = @ \ N] /\ LeaveAndWake(t, N)
    BY <1>8 DEF Push
  <2>2. \A w \in N : /\ w \in notEmpty[q] /\ pc[w] = "wait"
                     /\ call[w].q = q /\ call[w].op \in PopOps
    BY <2>1, <1>8, <1>a DEF WokenByPush, NotifyOne, WaitSets, Push, TypeOK
  <2> QED  BY <1>8, <2>1, <2>2 DEF Push, LeaveAndWake
<1>9. CASE Pop(t)
  <2> DEFINE q == call[t].q
  <2>1. PICK N \in WokenByPop(q) :
            notFull' = [notFull EXCEPT ![q] = @ \ N] /\ LeaveAndWake(t, N)
    BY <1>9 DEF Pop
  <2>2. \A w \in N : /\ w \in notFull[q] /\ pc[w] = "wait"
                     /\ call[w].q = q /\ call[w].op \in PushOps
    BY <2>1, <1>9, <1>a DEF WokenByPop, NotifyOne, WaitSets, Pop, TypeOK
  <2> QED  BY <1>9, <2>1, <2>2 DEF Pop, LeaveAndWake
<1>10. CASE ThrowElement(t)
  BY <1>10, <1>a DEF ThrowElement
<1>11. CASE Observe(t)
  BY <1>11, <1>a DEF Observe
<1>12. CASE SelfCall(t)
  BY <1>12, <1>a DEF SelfCall
<1>13. CASE LockFirst(t)
  BY <1>13, <1>a DEF LockFirst, Lock
<1>14. CASE LockOther(t)
  BY <1>14, <1>a DEF LockOther, Lock
<1>15. CASE BackOff(t)
  BY <1>15, <1>a DEF BackOff
<1>16. CASE SwapMembers(t)
  BY <1>16, <1>a DEF SwapMembers
<1>17. CASE ReadCapacity(t)
  BY <1>17, <1>a DEF ReadCapacity
<1>18. CASE LockSource(t)
  BY <1>18, <1>a DEF LockSource, Lock
<1>19. CASE CopyElement(t)
  BY <1>19, <1>a DEF CopyElement, Copying
<1>20. CASE CopyThrow(t)
  BY <1>20, <1>a DEF CopyThrow, Copying
<1>21. CASE CopyDone(t)
  <2>1. pc[t] = "source" /\ call' = call
    BY <1>21 DEF CopyDone
  <2>2. CASE call[t].op = "copy_assign" /\ pc' = [pc EXCEPT ![t] = "copied"]
    BY <2>1, <2>2, <1>a
  <2>3. CASE pc' = [pc EXCEPT ![t] = "destroy"]
    BY <2>1, <2>3, <1>a
  <2> QED  BY <1>21, <2>2, <2>3 DEF CopyDone
<1>22. CASE MoveOut(t)
  BY <1>22, <1>a DEF MoveOut, Exchange
<1>23. CASE LockTarget(t)
  BY <1>23, <1>a DEF LockTarget, Lock
<1>24. CASE Install(t)
  BY <1>24, <1>a DEF Install, Exchange
<1>25. CASE DestroyElement(t)
  BY <1>25, <1>a DEF DestroyElement
<1>26. CASE DestroyDone(t)
  BY <1>26, <1>a DEF DestroyDone
<1>27. CASE SpuriousWake(t)
  BY <1>27, <1>a DEF SpuriousWake, StopWaiting
<1> QED
  BY <1>1, <1>2, <1>3, <1>4, <1>5, <1>6, <1>7, <1>8, <1>9, <1>10, <1>11,
     <1>12, <1>13,
     <1>14, <1>15, <1>16, <1>17, <1>18, <1>19, <1>20, <1>21, <1>22, <1>23,
        <1>24, <1>25, <1>26,
     <1>27 DEF Step

\* A step of t keeps the wait sets: a waiter leaves its set when it stops waiting.
LEMMA WaitSetsStep ==
    ASSUME Inv, NEW t \in Threads, Step(t) \/ SpuriousWake(t)
    PROVE  WaitSets'
<1> USE DEF Inv
<1>a. /\ t \in DOMAIN pc /\ t \in DOMAIN call
      /\ pc[t] # "idle" => 
          /\ call[t] # None /\ call[t].op \in Ops /\ call[t].q \in Queues
          /\ call[t].op \in SwapOps \cup Constructing => call[t].rhs \in Queues
  BY CallTypes DEF TypeOK
<1> USE DEF WaitSets, TypeOK, PlaceFitsCall, Goto, Return, Unlock, Leave,
            waiting, bounds, PushOps, PopOps, SwapOps, Constructing, CopyOps,
            Ops, Timed, Immediate
<1>1. CASE Invoke(t)
  BY <1>1, <1>a DEF Invoke, MakeCall
<1>2. CASE Acquire(t)
  BY <1>2, <1>a DEF Acquire, Lock
<1>3. CASE Reacquire(t)
  BY <1>3, <1>a DEF Reacquire, Lock
<1>4. CASE Proceed(t)
  BY <1>4, <1>a DEF Proceed
<1>5. CASE Refuse(t)
  BY <1>5, <1>a DEF Refuse
<1>6. CASE Wait(t)
  BY <1>6, <1>a DEF Wait
<1>7. CASE Timeout(t)
  BY <1>7, <1>a DEF Timeout, StopWaiting
<1>8. CASE Push(t)
  <2> DEFINE q == call[t].q
  <2>1. PICK N \in WokenByPush(q) :
            notEmpty' = [notEmpty EXCEPT ![q] = @ \ N] /\ LeaveAndWake(t, N)
    BY <1>8 DEF Push
  <2>2. \A w \in N : /\ w \in notEmpty[q] /\ pc[w] = "wait"
                     /\ call[w].q = q /\ call[w].op \in PopOps
    BY <2>1, <1>8, <1>a DEF WokenByPush, NotifyOne, WaitSets, Push, TypeOK
  <2> QED  BY <1>8, <2>1, <2>2, <1>a DEF Push, LeaveAndWake
<1>9. CASE Pop(t)
  <2> DEFINE q == call[t].q
  <2>1. PICK N \in WokenByPop(q) :
            notFull' = [notFull EXCEPT ![q] = @ \ N] /\ LeaveAndWake(t, N)
    BY <1>9 DEF Pop
  <2>2. \A w \in N : /\ w \in notFull[q] /\ pc[w] = "wait"
                     /\ call[w].q = q /\ call[w].op \in PushOps
    BY <2>1, <1>9, <1>a DEF WokenByPop, NotifyOne, WaitSets, Pop, TypeOK
  <2> QED  BY <1>9, <2>1, <2>2, <1>a DEF Pop, LeaveAndWake
<1>10. CASE ThrowElement(t)
  BY <1>10, <1>a DEF ThrowElement
<1>11. CASE Observe(t)
  BY <1>11, <1>a DEF Observe
<1>12. CASE SelfCall(t)
  BY <1>12, <1>a DEF SelfCall
<1>13. CASE LockFirst(t)
  BY <1>13, <1>a DEF LockFirst, Lock
<1>14. CASE LockOther(t)
  BY <1>14, <1>a DEF LockOther, Lock
<1>15. CASE BackOff(t)
  BY <1>15, <1>a DEF BackOff
<1>16. CASE SwapMembers(t)
  BY <1>16, <1>a DEF SwapMembers
<1>17. CASE ReadCapacity(t)
  BY <1>17, <1>a DEF ReadCapacity
<1>18. CASE LockSource(t)
  BY <1>18, <1>a DEF LockSource, Lock
<1>19. CASE CopyElement(t)
  BY <1>19, <1>a DEF CopyElement, Copying
<1>20. CASE CopyThrow(t)
  BY <1>20, <1>a DEF CopyThrow, Copying
<1>21. CASE CopyDone(t)
  BY <1>21, <1>a DEF CopyDone, Copying
<1>22. CASE MoveOut(t)
  BY <1>22, <1>a DEF MoveOut, Exchange
<1>23. CASE LockTarget(t)
  BY <1>23, <1>a DEF LockTarget, Lock
<1>24. CASE Install(t)
  BY <1>24, <1>a DEF Install, Exchange
<1>25. CASE DestroyElement(t)
  BY <1>25, <1>a DEF DestroyElement
<1>26. CASE DestroyDone(t)
  BY <1>26, <1>a DEF DestroyDone
<1>27. CASE SpuriousWake(t)
  BY <1>27, <1>a DEF SpuriousWake, StopWaiting
<1> QED
  BY <1>1, <1>2, <1>3, <1>4, <1>5, <1>6, <1>7, <1>8, <1>9, <1>10, <1>11,
     <1>12, <1>13,
     <1>14, <1>15, <1>16, <1>17, <1>18, <1>19, <1>20, <1>21, <1>22, <1>23,
        <1>24, <1>25, <1>26,
     <1>27 DEF Step

\* A step of t does to another thread u nothing but wake it: it leaves alone the
\* mutexes u holds and the queues whose mutex u holds.
LEMMA NonInterference ==
    ASSUME Inv, NEW t \in Threads, NEW u \in Threads \ {t}, Step(t) \/ SpuriousWake(t)
    PROVE  /\ call'[u] = call[u] /\ tmp'[u] = tmp[u]
           /\ pc'[u] = pc[u] \/ (pc[u] = "wait" /\ pc'[u] = "woken")
           /\ \A q \in Queues : mx'[q] = u <=> mx[q] = u
           /\ \A q \in Queues : mx[q] = u => body'[q] = body[q]
<1> USE DEF Inv
<1>a. /\ t \in DOMAIN pc /\ t \in DOMAIN call /\ t \in DOMAIN tmp /\ u \in DOMAIN pc
      /\ DOMAIN mx = Queues /\ DOMAIN body = Queues
      /\ t # None /\ u # None
      /\ pc[t] # "idle" => 
          /\ call[t] # None /\ call[t].op \in Ops /\ call[t].q \in Queues
          /\ call[t].op \in SwapOps \cup Constructing => call[t].rhs \in Queues
  BY CallTypes, ThreadsAssumption DEF TypeOK
<1>b. pc[t] # "lockOther" => \A q \in Queues : mx[q] = t <=> MustHold(t, q)
  BY DEF LockDiscipline
<1> USE DEF MustHold, PlaceFitsCall, Goto, Return, Unlock, Leave, waiting,
            bounds, PushOps, PopOps, SwapOps, Constructing, CopyOps, Ops,
            Timed, Immediate
<1>1. CASE Invoke(t)
  BY <1>1, <1>a, <1>b DEF Invoke, MakeCall
<1>2. CASE Acquire(t)
  BY <1>2, <1>a, <1>b DEF Acquire, Lock
<1>3. CASE Reacquire(t)
  BY <1>3, <1>a, <1>b DEF Reacquire, Lock
<1>4. CASE Proceed(t)
  BY <1>4, <1>a, <1>b DEF Proceed
<1>5. CASE Refuse(t)
  BY <1>5, <1>a, <1>b DEF Refuse
<1>6. CASE Wait(t)
  BY <1>6, <1>a, <1>b DEF Wait
<1>7. CASE Timeout(t)
  BY <1>7, <1>a, <1>b DEF Timeout, StopWaiting
<1>8. CASE Push(t)
  <2> DEFINE q == call[t].q
  <2>1. PICK N \in WokenByPush(q) :
            notEmpty' = [notEmpty EXCEPT ![q] = @ \ N] /\ LeaveAndWake(t, N)
    BY <1>8 DEF Push
  <2>2. \A w \in N : /\ w \in notEmpty[q] /\ pc[w] = "wait"
                     /\ call[w].q = q /\ call[w].op \in PopOps
    BY <2>1, <1>8, <1>a DEF WokenByPush, NotifyOne, WaitSets, Push, TypeOK
  <2> QED  BY <1>8, <2>1, <2>2, <1>a, <1>b DEF Push, LeaveAndWake
<1>9. CASE Pop(t)
  <2> DEFINE q == call[t].q
  <2>1. PICK N \in WokenByPop(q) :
            notFull' = [notFull EXCEPT ![q] = @ \ N] /\ LeaveAndWake(t, N)
    BY <1>9 DEF Pop
  <2>2. \A w \in N : /\ w \in notFull[q] /\ pc[w] = "wait"
                     /\ call[w].q = q /\ call[w].op \in PushOps
    BY <2>1, <1>9, <1>a DEF WokenByPop, NotifyOne, WaitSets, Pop, TypeOK
  <2> QED  BY <1>9, <2>1, <2>2, <1>a, <1>b DEF Pop, LeaveAndWake
<1>10. CASE ThrowElement(t)
  BY <1>10, <1>a, <1>b DEF ThrowElement
<1>11. CASE Observe(t)
  BY <1>11, <1>a, <1>b DEF Observe
<1>12. CASE SelfCall(t)
  BY <1>12, <1>a, <1>b DEF SelfCall
<1>13. CASE LockFirst(t)
  BY <1>13, <1>a, <1>b DEF LockFirst, Lock
<1>14. CASE LockOther(t)
  BY <1>14, <1>a, <1>b DEF LockOther, Lock
<1>15. CASE BackOff(t)
  BY <1>15, <1>a, <1>b DEF BackOff
<1>16. CASE SwapMembers(t)
  BY <1>16, <1>a, <1>b DEF SwapMembers
<1>17. CASE ReadCapacity(t)
  BY <1>17, <1>a, <1>b DEF ReadCapacity
<1>18. CASE LockSource(t)
  BY <1>18, <1>a, <1>b DEF LockSource, Lock
<1>19. CASE CopyElement(t)
  BY <1>19, <1>a, <1>b DEF CopyElement, Copying
<1>20. CASE CopyThrow(t)
  BY <1>20, <1>a, <1>b DEF CopyThrow, Copying
<1>21. CASE CopyDone(t)
  BY <1>21, <1>a, <1>b DEF CopyDone, Copying
<1>22. CASE MoveOut(t)
  BY <1>22, <1>a, <1>b DEF MoveOut, Exchange
<1>23. CASE LockTarget(t)
  BY <1>23, <1>a, <1>b DEF LockTarget, Lock
<1>24. CASE Install(t)
  BY <1>24, <1>a, <1>b DEF Install, Exchange
<1>25. CASE DestroyElement(t)
  BY <1>25, <1>a, <1>b DEF DestroyElement
<1>26. CASE DestroyDone(t)
  BY <1>26, <1>a, <1>b DEF DestroyDone
<1>27. CASE SpuriousWake(t)
  BY <1>27, <1>a, <1>b DEF SpuriousWake, StopWaiting
<1> QED
  BY <1>1, <1>2, <1>3, <1>4, <1>5, <1>6, <1>7, <1>8, <1>9, <1>10, <1>11,
     <1>12, <1>13,
     <1>14, <1>15, <1>16, <1>17, <1>18, <1>19, <1>20, <1>21, <1>22, <1>23,
        <1>24, <1>25, <1>26,
     <1>27 DEF Step

\* A step of t leaves t with the mutexes its new place calls for, and only comes
\* to act on a queue that is ready.
LEMMA OwnStep ==
    ASSUME Inv, NEW t \in Threads, Step(t) \/ SpuriousWake(t)
    PROVE  /\ IF pc'[t] = "lockOther"
              THEN \E m \in {call'[t].q, call'[t].rhs} : \A q \in Queues : mx'[q] = t <=> q = m
              ELSE \A q \in Queues : mx'[q] = t <=> MustHold(t, q)'
           /\ pc'[t] = "act" => Ready(call[t])'
<1> USE DEF Inv
<1>a. /\ t \in DOMAIN pc /\ t \in DOMAIN call /\ DOMAIN mx = Queues /\ t # None
      /\ pc[t] # "idle" => 
          /\ call[t] # None /\ call[t].op \in Ops /\ call[t].q \in Queues
          /\ call[t].op \in SwapOps \cup Constructing => call[t].rhs \in Queues
  BY CallTypes, ThreadsAssumption DEF TypeOK
<1>b. pc[t] # "lockOther" => \A q \in Queues : mx[q] = t <=> MustHold(t, q)
  BY DEF LockDiscipline
<1> USE DEF MustHold, PlaceFitsCall, Goto, Return, Unlock, Leave, waiting,
            bounds, PushOps, PopOps, SwapOps, Constructing, CopyOps, Ops,
            Timed, Immediate
<1>1. CASE Invoke(t)
  BY <1>1, <1>a, <1>b DEF Invoke, MakeCall
<1>2. CASE Acquire(t)
  BY <1>2, <1>a, <1>b DEF Acquire, Lock
<1>3. CASE Reacquire(t)
  BY <1>3, <1>a, <1>b DEF Reacquire, Lock
<1>4. CASE Proceed(t)
  BY <1>4, <1>a, <1>b DEF Proceed, Ready
<1>5. CASE Refuse(t)
  BY <1>5, <1>a, <1>b DEF Refuse
<1>6. CASE Wait(t)
  BY <1>6, <1>a, <1>b DEF Wait
<1>7. CASE Timeout(t)
  BY <1>7, <1>a, <1>b DEF Timeout, StopWaiting
<1>8. CASE Push(t)
  BY <1>8, <1>a, <1>b DEF Push, LeaveAndWake
<1>9. CASE Pop(t)
  BY <1>9, <1>a, <1>b DEF Pop, LeaveAndWake
<1>10. CASE ThrowElement(t)
  BY <1>10, <1>a, <1>b DEF ThrowElement
<1>11. CASE Observe(t)
  BY <1>11, <1>a, <1>b DEF Observe
<1>12. CASE SelfCall(t)
  BY <1>12, <1>a, <1>b DEF SelfCall
<1>13. CASE LockFirst(t)
  BY <1>13, <1>a, <1>b DEF LockFirst, Lock
<1>14. CASE LockOther(t)
  <2>1. PICK m \in {call[t].q, call[t].rhs} : \A q \in Queues : mx[q] = t <=> q = m
    BY <1>14 DEF LockOther, Lock, LockDiscipline
  <2>2. call[t].q \in Queues /\ call[t].rhs \in Queues /\ call[t].q # call[t].rhs
    BY <1>14, <1>a DEF LockOther, Lock
  <2>3. Other(t) \in {call[t].q, call[t].rhs} /\ mx[Other(t)] # t
    BY <2>1, <2>2 DEF Other
  <2> QED  BY <1>14, <1>a, <2>1, <2>2, <2>3 DEF LockOther, Lock
<1>15. CASE BackOff(t)
  BY <1>15, <1>a, <1>b DEF BackOff
<1>16. CASE SwapMembers(t)
  BY <1>16, <1>a, <1>b DEF SwapMembers
<1>17. CASE ReadCapacity(t)
  BY <1>17, <1>a, <1>b DEF ReadCapacity
<1>18. CASE LockSource(t)
  BY <1>18, <1>a, <1>b DEF LockSource, Lock
<1>19. CASE CopyElement(t)
  BY <1>19, <1>a, <1>b DEF CopyElement, Copying
<1>20. CASE CopyThrow(t)
  BY <1>20, <1>a, <1>b DEF CopyThrow, Copying
<1>21. CASE CopyDone(t)
  BY <1>21, <1>a, <1>b DEF CopyDone, Copying
<1>22. CASE MoveOut(t)
  BY <1>22, <1>a, <1>b DEF MoveOut, Exchange
<1>23. CASE LockTarget(t)
  BY <1>23, <1>a, <1>b DEF LockTarget, Lock
<1>24. CASE Install(t)
  BY <1>24, <1>a, <1>b DEF Install, Exchange
<1>25. CASE DestroyElement(t)
  BY <1>25, <1>a, <1>b DEF DestroyElement
<1>26. CASE DestroyDone(t)
  BY <1>26, <1>a, <1>b DEF DestroyDone
<1>27. CASE SpuriousWake(t)
  BY <1>27, <1>a, <1>b DEF SpuriousWake, StopWaiting
<1> QED
  BY <1>1, <1>2, <1>3, <1>4, <1>5, <1>6, <1>7, <1>8, <1>9, <1>10, <1>11,
     <1>12, <1>13,
     <1>14, <1>15, <1>16, <1>17, <1>18, <1>19, <1>20, <1>21, <1>22, <1>23,
        <1>24, <1>25, <1>26,
     <1>27 DEF Step

\* Together: the mutexes are held as the code's places say.
LEMMA LockStep ==
    ASSUME Inv, NEW t \in Threads, Step(t) \/ SpuriousWake(t)
    PROVE  LockDiscipline'
<1> SUFFICES ASSUME NEW u \in Threads
             PROVE  IF pc'[u] = "lockOther"
                    THEN \E m \in {call'[u].q, call'[u].rhs} :
                             \A q \in Queues : mx'[q] = u <=> q = m
                    ELSE \A q \in Queues : mx'[q] = u <=> MustHold(u, q)'
  BY DEF LockDiscipline
<1>1. CASE u = t
  BY <1>1, OwnStep
<1>2. CASE u # t
  BY <1>2, NonInterference DEF Inv, LockDiscipline, MustHold
<1> QED  BY <1>1, <1>2

\* A thread about to act holds the mutex, so nobody changes what it found.
LEMMA PredicateStep ==
    ASSUME Inv, NEW t \in Threads, Step(t) \/ SpuriousWake(t)
    PROVE  PredicateStillHolds'
<1> SUFFICES ASSUME NEW u \in Threads, pc'[u] = "act"
             PROVE  Ready(call[u])'
  BY DEF PredicateStillHolds
<1>1. CASE u = t
  BY <1>1, OwnStep DEF Ready
<1>2. CASE u # t
  <2>1. pc[u] = "act" /\ call[u].q \in Queues
    BY <1>2, NonInterference, CallTypes DEF Inv
  <2>2. mx[call[u].q] = u
    BY <2>1 DEF Inv, LockDiscipline, MustHold
  <2>3. body'[call[u].q] = body[call[u].q] /\ call'[u] = call[u]
    BY <1>2, <2>1, <2>2, NonInterference
  <2>4. Ready(call[u])
    BY <2>1 DEF Inv, PredicateStillHolds
  <2> QED  BY <2>3, <2>4 DEF Ready
<1> QED  BY <1>1, <1>2

-----------------------------------------------------------------------------
\* The invariant.

\* Every step of the system keeps the invariant.
LEMMA InvStep == Inv /\ [Next]_vars => Inv'
<1>1. ASSUME Inv, UNCHANGED vars
      PROVE  Inv'
  BY <1>1 DEF Inv, vars, waiting, bounds, TypeOK, ThreadOK, IsBody,
     PlaceFitsCall, WaitSets,
              LockDiscipline, MustHold, PredicateStillHolds, Ready
<1>2. ASSUME Inv, NEW t \in Threads, Step(t) \/ SpuriousWake(t)
      PROVE  Inv'
  BY <1>2, TypeStep, PlaceStep, WaitSetsStep, LockStep, PredicateStep DEF Inv
<1> QED  BY <1>1, <1>2 DEF Next, Rest

\* The program starts in the invariant.
LEMMA InvInit == Init => Inv
<1> SUFFICES ASSUME Init PROVE Inv
  OBVIOUS
<1>1. \A q \in Queues : IsBody(body[q])
  BY CapacityAssumption, SizeModAssumption, NewBodyType DEF Init, IsBody,
     Capacities
<1>2. TypeOK
  BY <1>1, BudgetAssumption DEF Init, TypeOK, ThreadOK, Labels, Building
<1>3. PlaceFitsCall /\ WaitSets /\ PredicateStillHolds
  BY <1>2 DEF Init, TypeOK, PlaceFitsCall, WaitSets, PredicateStillHolds
<1>4. LockDiscipline
  BY ThreadsAssumption DEF Init, LockDiscipline, MustHold
<1> QED  BY <1>2, <1>3, <1>4 DEF Inv

\* The invariant of the specification.
LEMMA InvHolds == Spec => []Inv
  BY InvInit, InvStep, PTL DEF Spec

\* Whatever the threads, queues, capacities, calls and the width of size_t,
\* every variable keeps its type: no count of elements becomes negative.
THEOREM TypeCorrect == Spec => []TypeOK
  BY InvHolds, PTL DEF Inv

\* A thread holds the mutexes its place in the code says, and no other.
THEOREM LocksDisciplined == Spec => []LockDiscipline
  BY InvHolds, PTL DEF Inv

\* What a push or pop found when it evaluated its predicate is still true when
\* it acts, although other threads ran in between.
THEOREM PredicateStable == Spec => []PredicateStillHolds
  BY InvHolds, PTL DEF Inv

\* Who holds a mutex is at a place from which it needs no other.
LEMMA OwnerGoesOn ==
    ASSUME Inv, NEW q \in Queues, mx[q] # None
    PROVE  mx[q] \in Threads /\ CanGoOn(mx[q])
<1> DEFINE u == mx[q]
<1>1. u \in Threads
  BY DEF Inv, TypeOK
<1>2. pc[u] \in {"locked", "act", "expired", "target", "source", "swap", "lockOther"}
  BY <1>1 DEF Inv, LockDiscipline, MustHold
<1>3. Needs(u) = {} /\ pc[u] \notin {"idle", "wait"}
  BY <1>2, SMT DEF Needs
<1> QED  BY <1>1, <1>3 DEF CanGoOn

\* Whatever calls race on whatever queues, swaps and assignments in opposite
\* directions included, no set of threads keeps itself waiting for mutexes: in
\* a state where a thread is kept from one, the owner can go on.
THEOREM DeadlockFree == Spec => []NoDeadlock
<1>1. ASSUME Inv
      PROVE  NoDeadlock
  <2> SUFFICES ASSUME NEW t \in Threads, pc[t] \notin {"idle", "wait"}
               PROVE  \E u \in Threads : CanGoOn(u)
    BY DEF NoDeadlock
  <2>1. CASE CanGoOn(t)
    BY <2>1
  <2>2. CASE ~CanGoOn(t)
    <3>1. PICK q \in Needs(t) : mx[q] # None
      BY <2>2, Zenon DEF CanGoOn
    <3>2. q \in Queues
      BY <3>1, Zenon DEF Needs
    <3> QED  BY <1>1, <3>1, <3>2, OwnerGoesOn
  <2> QED  BY <2>1, <2>2
<1> QED  BY <1>1, InvHolds, PTL

-----------------------------------------------------------------------------
\* The ring.

EvenWrap == \A c \in Capacities : WrapsEvenly(c)
UniformCapacity == \A c, d \in Capacities : c = d

\* The queues that a call gives the content of another queue: both that are
\* swapped, the target of a copy assignment, the source of a move.
Exchanged(c) ==
    {q \in {c.q, c.rhs} : \/ c.op \in SwapOps /\ c.q # c.rhs
                          \/ c.op = "copy_assign" /\ c.q # c.rhs /\ q = c.q
                          \/ c.op = "move_ctor" /\ q = c.rhs}

\* The queue a call makes a copy of, or moves into a new queue.
Sourced(c) == {q \in {c.rhs} : c.op \in Constructing /\ (c.op = "copy_assign" => c.q # c.rhs)}

\* While a thread copies or moves a queue, no other thread's call gives that
\* queue the content, and with it the capacity, of another.  (That another
\* thread moves it away at the same time is allowed.)
SourcesApart ==
    \A t, u \in Threads : \A c \in Calls[t], d \in Calls[u] :
        t # u /\ d.op # "move_ctor" => Sourced(c) \cap Exchanged(d) = {}

\* Either makes the capacity that a constructor reads before it locks its source
\* the capacity of the source it then finds.
CapacitiesKept == UniformCapacity \/ SourcesApart

CapacityKnown ==
    \A t \in Threads :
        pc[t] \in {"fresh", "source"} => tmp[t].capacity = body[call[t].rhs].capacity

\* Elements come and go without a change of capacity.
LEMMA CapacityOfElements ==
    ASSUME NEW b, IsBody(b), NEW v
    PROVE  Construct(b, v).capacity = b.capacity /\ Destroy(b).capacity = b.capacity
<1>1. PICK c \in Capacities : b \in BodyOf(c)
  BY DEF IsBody
<1> QED  BY <1>1 DEF BodyOf, Construct, Destroy

\* A step keeps what constructors know of their sources' capacities.
LEMMA CapacityStep ==
    ASSUME SourcesApart, Inv, CapacityKnown, NEW t \in Threads, Step(t) \/ SpuriousWake(t)
    PROVE  CapacityKnown'
<1> USE DEF Inv
<1> DEFINE Known(u) ==
        pc[u] \in {"fresh", "source"} => tmp[u].capacity = body[call[u].rhs].capacity
<1>a. /\ t \in DOMAIN pc /\ t \in DOMAIN tmp /\ DOMAIN body = Queues
      /\ \A q \in Queues : IsBody(body[q])
      /\ pc[t] \in Building => IsBody(tmp[t])
      /\ pc[t] # "idle" =>
             /\ call[t] \in Calls[t] /\ call[t].q \in Queues
             /\ call[t].op \in SwapOps \cup Constructing => call[t].rhs \in Queues
  BY CallTypes DEF TypeOK, ThreadOK
<1>1. Known(t)'
  <2>1. CASE ReadCapacity(t)
    BY <2>1, <1>a DEF ReadCapacity, Goto, NewBody
  <2>2. CASE LockSource(t)
    BY <2>2, <1>a DEF LockSource, Lock, Goto, CapacityKnown
  <2>3. CASE CopyElement(t)
    BY <2>3, <1>a, CapacityOfElements DEF CopyElement, Copying, CapacityKnown, Building
  <2>4. CASE \/ Invoke(t) \/ Acquire(t) \/ Reacquire(t) \/ Proceed(t) \/ Refuse(t) \/ Wait(t)
             \/ Timeout(t) \/ SpuriousWake(t) \/ ThrowElement(t) \/ Observe(t) \/ SelfCall(t)
             \/ LockFirst(t) \/ LockOther(t) \/ BackOff(t) \/ SwapMembers(t) \/ CopyThrow(t)
             \/ CopyDone(t) \/ MoveOut(t) \/ LockTarget(t) \/ Install(t) \/ DestroyElement(t)
             \/ DestroyDone(t)
    <3>1. pc'[t] \notin {"fresh", "source"}
      BY <2>4, <1>a DEF Invoke, MakeCall, Acquire, Reacquire, Lock, Proceed, Refuse, Wait,
         Timeout, SpuriousWake, StopWaiting, ThrowElement, Observe, SelfCall, LockFirst,
         LockOther, BackOff, SwapMembers, CopyThrow, CopyDone, MoveOut, LockTarget, Install,
         Exchange, DestroyElement, DestroyDone, Leave, Goto
    <3> QED  BY <3>1
  <2>5. CASE Push(t) \/ Pop(t)
    <3>1. pc'[t] = "idle"
      BY <2>5 DEF Push, Pop, LeaveAndWake
    <3> QED  BY <3>1
  <2> QED  BY <2>1, <2>2, <2>3, <2>4, <2>5 DEF Step
<1>2. ASSUME NEW u \in Threads \ {t}, pc[u] \in {"fresh", "source"}
      PROVE  body'[call[u].rhs].capacity = body[call[u].rhs].capacity
  <2> DEFINE r == call[u].rhs
  <2>a. r \in Queues /\ call[u] \in Calls[u] /\ r \in Sourced(call[u])
    BY <1>2, CallTypes DEF PlaceFitsCall, Sourced
  <2>1. CASE UNCHANGED body
    BY <2>1
  <2>2. CASE Push(t) \/ Pop(t)
    BY <2>2, <2>a, <1>a, CapacityOfElements DEF Push, Pop
  <2>3. CASE SwapMembers(t)
    <3>1. /\ call[t].op \in SwapOps /\ call[t].q # call[t].rhs /\ pc[t] # "idle"
          /\ body' = [body EXCEPT ![call[t].q] = body[call[t].rhs],
                                 ![call[t].rhs] = body[call[t].q]]
      BY <2>3 DEF SwapMembers, PlaceFitsCall
    <3>2. Exchanged(call[t]) = {call[t].q, call[t].rhs} /\ call[t].op # "move_ctor"
      BY <3>1 DEF Exchanged, SwapOps
    <3>3. r \notin {call[t].q, call[t].rhs}
      BY <3>1, <3>2, <2>a, <1>a DEF SourcesApart
    <3> QED  BY <3>1, <3>3, <2>a, <1>a
  <2>4. CASE MoveOut(t)
    BY <2>4, <2>a, <1>a DEF MoveOut, Exchange, CapacityKnown, Constructing
  <2>5. CASE Install(t)
    <3>1. /\ call[t].op = "copy_assign" /\ call[t].q # call[t].rhs /\ pc[t] # "idle"
          /\ body' = [body EXCEPT ![call[t].q] = tmp[t]]
      BY <2>5 DEF Install, Exchange, PlaceFitsCall
    <3>2. call[t].q \in Exchanged(call[t])
      BY <3>1 DEF Exchanged
    <3>3. r # call[t].q
      BY <3>1, <3>2, <2>a, <1>a DEF SourcesApart
    <3> QED  BY <3>1, <3>3, <2>a, <1>a
  <2>6. CASE ~(Push(t) \/ Pop(t) \/ SwapMembers(t) \/ MoveOut(t) \/ Install(t))
    <3>1. UNCHANGED body
      BY <2>6 DEF Step, Invoke, MakeCall, Acquire, Reacquire, Lock, Proceed, Refuse, Wait,
         Timeout, SpuriousWake, StopWaiting, ThrowElement, Observe, SelfCall, LockFirst,
         LockOther, BackOff, ReadCapacity, LockSource, CopyElement, CopyThrow, CopyDone,
         LockTarget, DestroyElement, DestroyDone
    <3> QED  BY <3>1
  <2> QED  BY <2>2, <2>3, <2>4, <2>5, <2>6
<1>3. ASSUME NEW u \in Threads \ {t}
      PROVE  Known(u)'
  <2>1. /\ pc'[u] \in {"fresh", "source"} => pc'[u] = pc[u]
        /\ call'[u] = call[u] /\ tmp'[u] = tmp[u]
    BY NonInterference
  <2> QED  BY <2>1, <1>2 DEF CapacityKnown
<1> QED  BY <1>1, <1>3 DEF CapacityKnown

\* A constructor that has locked its source finds the capacity it read before.
LEMMA CapacitiesKnown ==
    ASSUME CapacitiesKept
    PROVE  Spec => []CapacityKnown
<1>1. CASE UniformCapacity
  <2>1. ASSUME Inv, NEW t \in Threads, pc[t] \in {"fresh", "source"}
        PROVE  tmp[t].capacity = body[call[t].rhs].capacity
    <3>1. IsBody(tmp[t]) /\ IsBody(body[call[t].rhs])
      BY <2>1, CallTypes DEF Inv, TypeOK, ThreadOK, Building, PlaceFitsCall
    <3> QED  BY <1>1, <3>1 DEF IsBody, BodyOf, UniformCapacity
  <2>2. Inv => CapacityKnown
    BY <2>1 DEF CapacityKnown
  <2> QED  BY <2>2, InvHolds, PTL
<1>2. CASE SourcesApart
  <2>1. Init => CapacityKnown
    BY DEF Init, CapacityKnown
  <2>2. Inv /\ CapacityKnown /\ [Next]_vars => CapacityKnown'
    <3>1. ASSUME CapacityKnown, UNCHANGED vars
          PROVE  CapacityKnown'
      BY <3>1 DEF CapacityKnown, vars
    <3> QED  BY <1>2, <3>1, CapacityStep DEF Next, Rest
  <2> QED  BY <2>1, <2>2, InvHolds, PTL DEF Spec
<1> QED  BY <1>1, <1>2 DEF CapacitiesKept

\* index_ of a queue's object has not come near its wrap.
QueuesUnwrapped == \A q \in Queues : Unwrapped(body[q])

\* A local object that is being filled has not been popped.
LocalUnpopped ==
    \A t \in Threads : pc[t] \in {"fresh", "source", "copied", "target"} => tmp[t].index = 0

\* The calls that can be made, those of a thread numbered as its budget counts
\* them, and the calls that have ended.
PossibleCalls == {k \in Threads \X Nat : k[2] \in 1..MaxCalls[k[1]]}
EndedCalls ==
    {k \in PossibleCalls : k[2] > budget[k[1]] + (IF pc[k[1]] = "idle" THEN 0 ELSE 1)}

\* Too few calls are made to bring any index_ within a capacity of its wrap.
FewCalls == \A c \in Capacities : Cardinality(PossibleCalls) + c <= SizeMod

\* Either keeps the elements of a queue in slots of their own.
IndexesKept == EvenWrap \/ FewCalls

\* A thread in a call has spent a call.
BudgetKept ==
    \A t \in Threads :
        /\ budget[t] \in 0..MaxCalls[t]
        /\ pc[t] # "idle" => budget[t] < MaxCalls[t]

\* Each step of an index_ was one of the calls that have ended.
IndexesCounted == \A q \in Queues : body[q].index <= Cardinality(EndedCalls)

\* The calls can be counted.
LEMMA CallsCount ==
    /\ IsFiniteSet(PossibleCalls) /\ Cardinality(PossibleCalls) \in Nat
    /\ \A K \in SUBSET PossibleCalls :
           /\ IsFiniteSet(K) /\ Cardinality(K) \in Nat
           /\ Cardinality(K) <= Cardinality(PossibleCalls)
<1> DEFINE f == [t \in Threads |-> {t} \X (1..MaxCalls[t])]
           T == {f[t] : t \in Threads}
<1>1. \A t \in Threads : MaxCalls[t] \in Nat
  BY BudgetAssumption
<1>2. \A S \in T : IsFiniteSet(S)
  <2> SUFFICES ASSUME NEW t \in Threads PROVE IsFiniteSet(f[t])
    OBVIOUS
  <2>1. IsFiniteSet({t})
    BY FS_Singleton
  <2>2. IsFiniteSet(1..MaxCalls[t])
    BY <1>1, FS_Interval
  <2> QED  BY <2>1, <2>2, FS_Product
<1>3. IsFiniteSet(T)
  <2>1. f \in Surjection(Threads, T)
    BY DEF Surjection
  <2> HIDE DEF f, T
  <2> QED  BY <2>1, ThreadsAssumption, FS_Surjection
<1>4. PossibleCalls \subseteq UNION T
  <2> SUFFICES ASSUME NEW k \in PossibleCalls PROVE k \in UNION T
    OBVIOUS
  <2>1. k = <<k[1], k[2]>> /\ k[1] \in Threads /\ k[2] \in 1..MaxCalls[k[1]]
    BY DEF PossibleCalls
  <2>2. k \in f[k[1]] /\ f[k[1]] \in T
    BY <2>1
  <2> QED  BY <2>2
<1> HIDE DEF f, T
<1>5. IsFiniteSet(PossibleCalls)
  BY <1>2, <1>3, <1>4, FS_UNION, FS_Subset
<1> QED  BY <1>5, FS_Subset, FS_CardinalityType

\* Only a call changes the budget, that of the thread that makes it.
LEMMA BudgetStep ==
    ASSUME NEW t \in Threads, Step(t) \/ SpuriousWake(t), ~Invoke(t)
    PROVE  budget' = budget /\ pc[t] # "idle"
<1>1. CASE \/ Acquire(t) \/ Reacquire(t) \/ LockFirst(t) \/ LockOther(t) \/ LockSource(t)
           \/ LockTarget(t)
  BY <1>1 DEF Acquire, Reacquire, LockFirst, LockOther, LockSource, LockTarget, Lock, bounds
<1>2. CASE \/ Proceed(t) \/ Refuse(t) \/ Wait(t) \/ Timeout(t) \/ SpuriousWake(t) \/ Push(t)
           \/ Pop(t) \/ ThrowElement(t) \/ Observe(t)
  BY <1>2 DEF Proceed, Refuse, Wait, Timeout, SpuriousWake, StopWaiting, Push, Pop, ThrowElement,
     Observe, bounds
<1>3. CASE \/ SelfCall(t) \/ BackOff(t) \/ SwapMembers(t) \/ ReadCapacity(t) \/ CopyElement(t)
           \/ CopyThrow(t) \/ CopyDone(t) \/ MoveOut(t) \/ Install(t) \/ DestroyElement(t)
           \/ DestroyDone(t)
  BY <1>3 DEF SelfCall, BackOff, SwapMembers, ReadCapacity, CopyElement, CopyThrow, CopyDone,
     MoveOut, Install, Exchange, DestroyElement, DestroyDone, Copying, bounds
<1> QED  BY <1>1, <1>2, <1>3 DEF Step

\* A step that takes t out of its call adds to the calls that have ended; no
\* step takes one away.
LEMMA CallsEnd ==
    ASSUME Inv, BudgetKept, NEW t \in Threads, Step(t) \/ SpuriousWake(t)
    PROVE  /\ BudgetKept' /\ EndedCalls \subseteq EndedCalls'
           /\ pc[t] # "idle" /\ pc'[t] = "idle" =>
                  \E k \in PossibleCalls : k \in EndedCalls' /\ k \notin EndedCalls
<1> DEFINE From(u) == budget[u] + (IF pc[u] = "idle" THEN 0 ELSE 1)
<1>a. /\ t \in DOMAIN pc /\ DOMAIN budget = Threads
      /\ \A u \in Threads : budget[u] \in Nat /\ MaxCalls[u] \in Nat
  BY BudgetAssumption DEF Inv, TypeOK
<1>1. ASSUME NEW u \in Threads \ {t}
      PROVE  budget'[u] = budget[u] /\ (pc'[u] = "idle" <=> pc[u] = "idle")
  <2>1. pc'[u] = "idle" <=> pc[u] = "idle"
    BY NonInterference
  <2>2. CASE Invoke(t)
    BY <2>1, <2>2, <1>a DEF Invoke
  <2>3. CASE ~Invoke(t)
    BY <2>1, <2>3, BudgetStep
  <2> QED  BY <2>2, <2>3
<1>2. /\ budget'[t] \in 0..MaxCalls[t] /\ (pc'[t] # "idle" => budget'[t] < MaxCalls[t])
      /\ IF pc[t] # "idle" /\ pc'[t] = "idle"
         THEN From(t)' = budget[t] /\ From(t) = budget[t] + 1 /\ budget[t] < MaxCalls[t]
         ELSE From(t)' = From(t)
  <2>a. budget[t] \in 0..MaxCalls[t] /\ (pc[t] # "idle" => budget[t] < MaxCalls[t])
    BY DEF BudgetKept
  <2>0. /\ budget[t] \in Nat /\ MaxCalls[t] \in Nat /\ budget[t] <= MaxCalls[t]
        /\ pc[t] # "idle" => budget[t] < MaxCalls[t]
    BY <2>a, <1>a
  <2>1. CASE Invoke(t)
    <3>1. /\ budget[t] > 0 /\ budget'[t] = budget[t] - 1 /\ pc[t] = "idle" /\ pc'[t] = "start"
      BY <2>1, <1>a DEF Invoke, MakeCall, Goto
    <3> QED  BY <2>0, <3>1
  <2>2. CASE ~Invoke(t)
    <3>1. budget'[t] = budget[t] /\ pc[t] # "idle"
      BY <2>2, BudgetStep
    <3> QED  BY <2>0, <3>1
  <2> QED  BY <2>1, <2>2
<1>3. BudgetKept'
  BY <1>1, <1>2 DEF BudgetKept
<1>4. ASSUME NEW u \in Threads
      PROVE  From(u)' <= From(u)
  <2>1. CASE u = t
    BY <1>2, <1>a, <2>1
  <2>2. CASE u # t
    BY <1>1, <1>a, <2>2
  <2> QED  BY <2>1, <2>2
<1>5. \A k \in PossibleCalls : k[1] \in Threads /\ k[2] \in Nat
  BY DEF PossibleCalls
<1>6. \A u \in Threads : From(u) \in Nat /\ From(u)' \in Nat
  <2>1. \A u \in Threads : budget'[u] \in Nat
    BY <1>1, <1>2, <1>a
  <2> QED  BY <2>1, <1>a
<1>7. EndedCalls = {k \in PossibleCalls : k[2] > From(k[1])}
  BY DEF EndedCalls
<1>8. EndedCalls' = {k \in PossibleCalls : k[2] > From(k[1])'}
  BY DEF EndedCalls
<1>9. ASSUME pc[t] # "idle", pc'[t] = "idle"
      PROVE  \E k \in PossibleCalls : k \in EndedCalls' /\ k \notin EndedCalls
  <2> DEFINE k == <<t, budget[t] + 1>>
  <2>1. k \in PossibleCalls /\ k[1] = t /\ k[2] = budget[t] + 1
    BY <1>2, <1>9, <1>a DEF PossibleCalls
  <2>2. k[2] > From(t)' /\ ~(k[2] > From(t))
    BY <1>2, <1>9, <1>a, <2>1
  <2> HIDE DEF k
  <2> QED  BY <2>1, <2>2, <1>7, <1>8
<1> HIDE DEF From
<1>10. EndedCalls \subseteq EndedCalls'
  BY <1>4, <1>5, <1>6, <1>7, <1>8
<1> QED  BY <1>3, <1>9, <1>10

\* A step fills a local object without popping it.
LEMMA LocalStep ==
    ASSUME Inv, LocalUnpopped, NEW t \in Threads, Step(t) \/ SpuriousWake(t)
    PROVE  LocalUnpopped'
<1> USE DEF Inv
<1> DEFINE Filled == {"fresh", "source", "copied", "target"}
           Unpopped(u) == pc[u] \in Filled => tmp[u].index = 0
<1>a. t \in DOMAIN pc /\ t \in DOMAIN tmp
  BY DEF TypeOK
<1>1. Unpopped(t)'
  <2>1. CASE ReadCapacity(t)
    BY <2>1, <1>a DEF ReadCapacity, Goto, NewBody
  <2>2. CASE LockSource(t) \/ LockTarget(t) \/ CopyDone(t)
    BY <2>2, <1>a DEF LockSource, LockTarget, Lock, CopyDone, Goto, LocalUnpopped
  <2>3. CASE CopyElement(t)
    <3>1. PICK c \in Capacities : tmp[t] \in BodyOf(c)
      BY <2>3 DEF CopyElement, Copying, TypeOK, ThreadOK, Building, IsBody
    <3>2. PICK v : tmp'[t] = Construct(tmp[t], v)
      BY <2>3, <1>a DEF CopyElement
    <3>3. tmp'[t].index = tmp[t].index
      BY <3>1, <3>2 DEF Construct, BodyOf
    <3>4. pc' = pc
      BY <2>3 DEF CopyElement
    <3> QED  BY <3>3, <3>4 DEF LocalUnpopped
  <2>4. CASE \/ Invoke(t) \/ Acquire(t) \/ Reacquire(t) \/ Proceed(t) \/ Refuse(t) \/ Wait(t)
             \/ Timeout(t) \/ SpuriousWake(t) \/ ThrowElement(t) \/ Observe(t) \/ SelfCall(t)
             \/ LockFirst(t) \/ LockOther(t) \/ BackOff(t) \/ SwapMembers(t) \/ CopyThrow(t)
             \/ MoveOut(t) \/ Install(t) \/ DestroyElement(t) \/ DestroyDone(t)
    <3>1. pc'[t] \notin Filled
      BY <2>4, <1>a DEF Invoke, MakeCall, Acquire, Reacquire, Lock, Proceed, Refuse, Wait,
         Timeout, SpuriousWake, StopWaiting, ThrowElement, Observe, SelfCall, LockFirst,
         LockOther, BackOff, SwapMembers, CopyThrow, MoveOut, Install,
         Exchange, DestroyElement, DestroyDone, Leave, Goto
    <3> QED  BY <3>1
  <2>5. CASE Push(t) \/ Pop(t)
    <3>1. pc'[t] = "idle"
      BY <2>5 DEF Push, Pop, LeaveAndWake
    <3> QED  BY <3>1
  <2> QED  BY <2>1, <2>2, <2>3, <2>4, <2>5 DEF Step
<1>2. ASSUME NEW u \in Threads \ {t}
      PROVE  Unpopped(u)'
  <2>1. (pc'[u] \in Filled => pc'[u] = pc[u]) /\ tmp'[u] = tmp[u]
    BY NonInterference
  <2> QED  BY <2>1 DEF LocalUnpopped
<1> QED  BY <1>1, <1>2 DEF LocalUnpopped

\* The local objects of all behaviours.
LEMMA LocalsUnpopped == Spec => []LocalUnpopped
<1>1. Init => LocalUnpopped
  BY DEF Init, LocalUnpopped
<1>2. Inv /\ LocalUnpopped /\ [Next]_vars => LocalUnpopped'
  <2>1. ASSUME LocalUnpopped, UNCHANGED vars
        PROVE  LocalUnpopped'
    BY <2>1 DEF LocalUnpopped, vars
  <2> QED  BY <2>1, LocalStep DEF Next, Rest
<1> QED  BY <1>1, <1>2, InvHolds, PTL DEF Spec

\* Each step of an index_ is counted.
LEMMA IndexStep ==
    ASSUME Inv, LocalUnpopped, BudgetKept, IndexesCounted,
           NEW t \in Threads, Step(t) \/ SpuriousWake(t)
    PROVE  IndexesCounted'
<1> USE DEF Inv
<1> DEFINE n == Cardinality(EndedCalls)
           n2 == Cardinality(EndedCalls')
<1>a. /\ t \in DOMAIN pc /\ t \in DOMAIN tmp /\ DOMAIN body = Queues
      /\ \A q \in Queues : IsBody(body[q])
      /\ pc[t] # "idle" =>
             /\ call[t].q \in Queues
             /\ call[t].op \in SwapOps \cup Constructing => call[t].rhs \in Queues
  BY CallTypes DEF TypeOK
<1>b. EndedCalls \in SUBSET PossibleCalls /\ EndedCalls' \in SUBSET PossibleCalls
  BY DEF EndedCalls
<1>c. /\ IsFiniteSet(EndedCalls) /\ IsFiniteSet(EndedCalls')
      /\ n \in Nat /\ n2 \in Nat
  BY <1>b, CallsCount
<1>d. EndedCalls \subseteq EndedCalls'
  BY CallsEnd
<1>e. n <= n2
  BY <1>c, <1>d, FS_Subset
<1>f. \A q \in Queues : body[q].index \in Nat /\ body[q].index <= n
  BY <1>a DEF IndexesCounted, IsBody, BodyOf
<1>1. CASE UNCHANGED body
  BY <1>1, <1>c, <1>e, <1>f DEF IndexesCounted
<1>2. CASE Push(t)
  <2>1. PICK v : body' = [body EXCEPT ![call[t].q] = Construct(@, v)]
    BY <1>2 DEF Push
  <2>2. \A q \in Queues : body'[q].index = body[q].index
    BY <1>a, <2>1 DEF Construct, IsBody, BodyOf
  <2> QED  BY <2>2, <1>c, <1>e, <1>f DEF IndexesCounted
<1>3. CASE Pop(t)
  <2>1. /\ body' = [body EXCEPT ![call[t].q] = Destroy(@)]
        /\ pc[t] # "idle" /\ pc'[t] = "idle"
    BY <1>3 DEF Pop, LeaveAndWake
  <2>2. PICK k \in PossibleCalls : k \in EndedCalls' /\ k \notin EndedCalls
    BY <2>1, CallsEnd
  <2>3. n + 1 <= n2
    <3>1. EndedCalls \cup {k} \in SUBSET (EndedCalls')
      BY <2>2, <1>d
    <3>2. Cardinality(EndedCalls \cup {k}) = n + 1
      BY <2>2, <1>c, FS_AddElement
    <3>3. Cardinality(EndedCalls \cup {k}) <= n2
      BY <3>1, <1>c, FS_Subset
    <3> QED  BY <3>2, <3>3
  <2>4. ASSUME NEW q \in Queues
        PROVE  body'[q].index \in Nat /\ body'[q].index <= body[q].index + 1
    <3>1. CASE q # call[t].q
      BY <3>1, <2>1, <1>a, <1>f
    <3>2. CASE q = call[t].q
      <4>1. body'[q].index = NextIndex(body[q])
        BY <3>2, <2>1, <1>a DEF Destroy, IsBody, BodyOf
      <4>2. NextIndex(body[q]) \in Nat /\ NextIndex(body[q]) <= body[q].index + 1
        BY <1>f, SizeModAssumption DEF NextIndex
      <4> QED  BY <4>1, <4>2
    <3> QED  BY <3>1, <3>2
  <2> HIDE DEF n, n2
  <2>5. \A q \in Queues : body'[q].index <= n2
    BY <2>3, <2>4, <1>c, <1>f
  <2> QED  BY <2>5 DEF IndexesCounted, n2
<1>4. CASE SwapMembers(t)
  <2>1. /\ body' = [body EXCEPT ![call[t].q] = body[call[t].rhs],
                               ![call[t].rhs] = body[call[t].q]]
        /\ call[t].q \in Queues /\ call[t].rhs \in Queues
    BY <1>4, <1>a DEF SwapMembers, PlaceFitsCall
  <2>2. \A q \in Queues : \E r \in Queues : body'[q] = body[r]
    BY <2>1, <1>a
  <2> QED  BY <2>2, <1>c, <1>e, <1>f DEF IndexesCounted
<1>5. CASE MoveOut(t) \/ Install(t)
  <2>1. PICK r \in Queues : body' = [body EXCEPT ![r] = tmp[t]]
    BY <1>5, <1>a DEF MoveOut, Install, Exchange, Constructing
  <2>2. tmp[t].index = 0
    BY <1>5 DEF MoveOut, Install, LocalUnpopped
  <2>3. \A q \in Queues : body'[q].index = 0 \/ body'[q] = body[q]
    BY <2>1, <2>2, <1>a
  <2> QED  BY <2>3, <1>c, <1>e, <1>f DEF IndexesCounted
<1>6. UNCHANGED body \/ Push(t) \/ Pop(t) \/ SwapMembers(t) \/ MoveOut(t) \/ Install(t)
  BY DEF Step, Invoke, MakeCall, Acquire, Reacquire, Lock, Proceed, Refuse, Wait,
     Timeout, SpuriousWake, StopWaiting, ThrowElement, Observe, SelfCall, LockFirst,
     LockOther, BackOff, ReadCapacity, LockSource, CopyElement, CopyThrow, CopyDone,
     LockTarget, DestroyElement, DestroyDone
<1> QED  BY <1>1, <1>2, <1>3, <1>4, <1>5, <1>6

\* If index_ wraps evenly, or fewer calls are made than bring it to its wrap, the
\* wrap is never between the elements of a queue.
LEMMA WrapFarOff ==
    ASSUME IndexesKept
    PROVE  Spec => []QueuesUnwrapped
<1>1. CASE EvenWrap
  <2>1. Inv => QueuesUnwrapped
    <3> SUFFICES ASSUME Inv, NEW q \in Queues PROVE WrapsEvenly(body[q].capacity)
      BY DEF QueuesUnwrapped, Unwrapped
    <3>1. PICK c \in Capacities : body[q] \in BodyOf(c)
      BY DEF Inv, TypeOK, IsBody
    <3> QED  BY <1>1, <3>1 DEF EvenWrap, BodyOf
  <2> QED  BY <2>1, InvHolds, PTL
<1>2. CASE FewCalls
  <2>1. Inv /\ IndexesCounted => QueuesUnwrapped
    <3> SUFFICES ASSUME Inv, IndexesCounted, NEW q \in Queues
                 PROVE  body[q].index + body[q].capacity <= SizeMod
      BY DEF QueuesUnwrapped, Unwrapped
    <3>1. PICK c \in Capacities : body[q] \in BodyOf(c)
      BY DEF Inv, TypeOK, IsBody
    <3>2. body[q].index \in Nat /\ body[q].capacity = c /\ c \in Nat /\ SizeMod \in Nat
      BY <3>1, CapacityAssumption, SizeModAssumption DEF BodyOf, Capacities
    <3>3. EndedCalls \in SUBSET PossibleCalls
      BY DEF EndedCalls
    <3>4. /\ Cardinality(EndedCalls) <= Cardinality(PossibleCalls)
          /\ Cardinality(EndedCalls) \in Nat /\ Cardinality(PossibleCalls) \in Nat
      BY <3>3, CallsCount
    <3>5. /\ body[q].index <= Cardinality(EndedCalls)
          /\ Cardinality(PossibleCalls) + c <= SizeMod
      BY <1>2 DEF IndexesCounted, FewCalls
    <3> QED  BY <3>2, <3>4, <3>5
  <2>2. Init => BudgetKept /\ IndexesCounted
    <3> SUFFICES ASSUME Init PROVE BudgetKept /\ IndexesCounted
      OBVIOUS
    <3>1. EndedCalls \in SUBSET PossibleCalls
      BY DEF EndedCalls
    <3>2. Cardinality(EndedCalls) \in Nat
      BY <3>1, CallsCount
    <3> QED  BY <3>2, BudgetAssumption DEF Init, BudgetKept, IndexesCounted, NewBody
  <2>3. Inv /\ LocalUnpopped /\ BudgetKept /\ IndexesCounted /\ [Next]_vars
            => BudgetKept' /\ IndexesCounted'
    <3>1. ASSUME BudgetKept, IndexesCounted, UNCHANGED vars
          PROVE  BudgetKept' /\ IndexesCounted'
      BY <3>1 DEF BudgetKept, IndexesCounted, EndedCalls, vars, bounds
    <3> QED  BY <3>1, CallsEnd, IndexStep DEF Next, Rest
  <2> QED  BY <2>1, <2>2, <2>3, LocalsUnpopped, InvHolds, PTL DEF Spec
<1> QED  BY <1>1, <1>2 DEF IndexesKept

\* QueueBodyProofs for a queue of the system.
LEMMA RingOps ==
    ASSUME NEW b, IsBody(b), RingOK(b)
    PROVE  /\ Unwrapped(b) /\ ~Full(b) => \A v \in Values : RingOK(Construct(b, v))
           /\ ~Empty(b) => RingOK(Destroy(b))
           /\ RingOK(NewBody(b.capacity))
           /\ \A i \in 0..b.size - 1 : At(b, i) \in Values
<1> PICK c \in Capacities : b \in BodyOf(c)
  BY DEF IsBody
<1>1. c \in Nat \ {0} /\ b.capacity = c /\ b.size \in Nat
  BY CapacityAssumption, SizeModAssumption DEF BodyOf, Capacities
<1>2. \A i \in 0..b.size - 1 : At(b, i) \in Values
  <2> TAKE i \in 0..b.size - 1
  <2>1. Slot(b, i) \in 0..c - 1 /\ At(b, i) \in Values \cup {Raw}
    BY <1>1, SlotRange
  <2>2. At(b, i) # Raw
    BY <1>1, <2>1 DEF RingOK, At
  <2> QED  BY <2>1, <2>2
<1>3. ASSUME Unwrapped(b), ~Full(b), NEW v \in Values
      PROVE  RingOK(Construct(b, v))
  <2>1. b.size < c
    BY <1>1, <1>3 DEF RingOK, Full
  <2> QED  BY <1>1, <1>3, <2>1, UnwrappedConstruct, ConstructRing
<1> QED  BY <1>1, <1>2, <1>3, DestroyRing, NewBodyRing

\* A local object that is being filled has room for its capacity before the wrap.
LEMMA LocalUnwrapped ==
    ASSUME NEW b, IsBody(b), b.index = 0
    PROVE  Unwrapped(b)
<1> PICK c \in Capacities : b \in BodyOf(c)
  BY DEF IsBody
<1>1. b.capacity = c /\ c \in 1..SizeMod - 1 /\ SizeMod \in Nat
  BY CapacityAssumption, SizeModAssumption DEF BodyOf, Capacities
<1> QED  BY <1>1 DEF Unwrapped

\* A copy never outgrows its object: the source's capacity is the one that was read.
LEMMA CopyHasRoom ==
    ASSUME LocalUnpopped, CapacityKnown, Inv, RingIntact, NEW t \in Threads, CopyElement(t)
    PROVE  /\ IsBody(tmp[t]) /\ RingOK(tmp[t]) /\ ~Full(tmp[t]) /\ Unwrapped(tmp[t])
           /\ Copied(At(body[call[t].rhs], tmp[t].size)) \in Values
<1> DEFINE b == body[call[t].rhs]
<1>1. pc[t] = "source" /\ call[t].rhs \in Queues /\ tmp[t].size < b.size
  BY CallTypes DEF CopyElement, Copying, CopyOps, Constructing, Inv, TypeOK
<1>2. IsBody(tmp[t]) /\ RingOK(tmp[t]) /\ IsBody(b) /\ RingOK(b)
  BY <1>1 DEF Building, Inv, TypeOK, ThreadOK, RingIntact
<1>3. /\ tmp[t].size \in 0..b.size - 1 /\ b.size <= b.capacity /\ b.size \in Nat
      /\ tmp[t].capacity = b.capacity /\ b.capacity \in Nat
  <2>1. PICK c \in Capacities : b \in BodyOf(c)
    BY <1>2 DEF IsBody
  <2>2. PICK d \in Capacities : tmp[t] \in BodyOf(d)
    BY <1>2 DEF IsBody
  <2>3. c = d /\ c \in Nat
    BY <1>1, <2>1, <2>2, CapacityAssumption, SizeModAssumption
    DEF CapacityKnown, BodyOf, Capacities
  <2> QED  BY <1>1, <1>2, <2>1, <2>2, <2>3 DEF BodyOf, RingOK
<1>4. Copied(At(b, tmp[t].size)) \in Values
  BY <1>2, <1>3, RingOps, TransferAssumption
<1>5. ~Full(tmp[t])
  BY <1>3 DEF Full
<1>6. Unwrapped(tmp[t])
  BY <1>1, <1>2, LocalUnwrapped DEF LocalUnpopped
<1> QED  BY <1>2, <1>4, <1>5, <1>6

\* A step keeps every ring intact.
LEMMA RingStep ==
    ASSUME QueuesUnwrapped, LocalUnpopped, CapacityKnown, Inv, RingIntact,
           NEW t \in Threads, Step(t) \/ SpuriousWake(t)
    PROVE  RingIntact'
<1> USE DEF Inv, RingIntact
<1>a. /\ pc[t] # "idle" => 
          /\ call[t].q \in Queues
          /\ call[t].op \in PushOps => call[t].v \in Values
          /\ call[t].op \in SwapOps \cup Constructing => call[t].rhs \in Queues
      /\ DOMAIN body = Queues /\ DOMAIN tmp = Threads
      /\ \A q \in Queues : IsBody(body[q])
  BY CallTypes DEF TypeOK
<1>b. pc[t] \in Building => IsBody(tmp[t]) /\ RingOK(tmp[t])
  BY DEF TypeOK, ThreadOK
<1>d. t \in DOMAIN pc
  BY DEF TypeOK
<1>c. \A u \in Threads \ {t} : pc'[u] \in Building => pc[u] \in Building /\ tmp'[u] = tmp[u]
  BY NonInterference DEF Building
<1>1. ASSUME UNCHANGED <<body, tmp>>, pc'[t] \in Building => pc[t] \in Building
      PROVE  RingIntact'
  BY <1>1, <1>c
<1>8. CASE Push(t)
  <2>1. /\ ~Full(body[call[t].q]) /\ Passed(call[t]) \in Values /\ call[t].q \in Queues
        /\ Unwrapped(body[call[t].q])
    BY <1>8, <1>a, <1>c, PassedType DEF Push, PredicateStillHolds, Ready, QueuesUnwrapped
  <2>2. pc'[t] \notin Building
    BY <1>8 DEF Push, LeaveAndWake, Building
  <2> QED  BY <1>8, <1>a, <1>c, <2>1, <2>2, RingOps DEF Push
<1>9. CASE Pop(t)
  <2>1. ~Empty(body[call[t].q]) /\ call[t].q \in Queues
    BY <1>9, <1>a, <1>c DEF Pop, PredicateStillHolds, Ready, PushOps, PopOps
  <2>2. pc'[t] \notin Building
    BY <1>9 DEF Pop, LeaveAndWake, Building
  <2> QED  BY <1>9, <1>a, <1>c, <2>1, <2>2, RingOps DEF Pop
<1>16. CASE SwapMembers(t)
  <2>1. pc'[t] \notin Building /\ call[t].rhs \in Queues /\ call[t].q \in Queues
    BY <1>16, <1>a, <1>d DEF SwapMembers, PlaceFitsCall, Goto, Building
  <2>2. body' = [body EXCEPT ![call[t].q] = body[call[t].rhs],
                             ![call[t].rhs] = body[call[t].q]] /\ tmp' = tmp
    BY <1>16 DEF SwapMembers
  <2> QED  BY <1>a, <1>c, <2>1, <2>2
<1>17. CASE ReadCapacity(t)
  BY <1>17, <1>a, <1>c, RingOps DEF ReadCapacity
<1>19. CASE CopyElement(t)
  <2>1. RingOK(Construct(tmp[t], Copied(At(body[call[t].rhs], tmp[t].size))))
    BY <1>19, CopyHasRoom, RingOps
  <2> QED  BY <1>19, <1>a, <1>c, <2>1 DEF CopyElement
<1>20. CASE CopyThrow(t)
  BY <1>20, <1>a, <1>c, <1>d DEF CopyThrow, Leave, Goto, Building
<1>22. CASE MoveOut(t)
  BY <1>22, <1>a, <1>b, <1>c, <1>d DEF MoveOut, Exchange, Constructing, Goto,
     Building
<1>24. CASE Install(t)
  BY <1>24, <1>a, <1>b, <1>c, <1>d DEF Install, Exchange, Goto, Building
<1>25. CASE DestroyElement(t)
  BY <1>25, <1>a, <1>c, <1>b, RingOps DEF DestroyElement, Building
<1>26. CASE DestroyDone(t)
  BY <1>26, <1>a, <1>c, <1>d DEF DestroyDone, Goto, Building
<1>27. CASE \/ Invoke(t) \/ Acquire(t) \/ Reacquire(t) \/ Proceed(t) \/ Refuse(t)
            \/ Wait(t) \/ Timeout(t) \/ SpuriousWake(t) \/ ThrowElement(t) \/ Observe(t)
  <2>1. UNCHANGED <<body, tmp>> /\ pc'[t] \notin Building
    BY <1>27, <1>d DEF Building, Goto, Leave, Invoke, MakeCall, Acquire, Reacquire,
       Lock, Proceed, Refuse, Wait, Timeout,
                 SpuriousWake, StopWaiting, ThrowElement, Observe
  <2> QED  BY <2>1, <1>1
<1>28. CASE \/ SelfCall(t) \/ LockFirst(t) \/ LockOther(t) \/ BackOff(t) \/ LockSource(t)
            \/ CopyDone(t) \/ LockTarget(t)
  <2>1. UNCHANGED <<body, tmp>> /\ (pc'[t] \in Building => pc[t] \in Building)
    BY <1>28, <1>d DEF Building, Goto, SelfCall, LockFirst, LockOther,
       Lock, BackOff, LockSource, CopyDone,
                 LockTarget
  <2> QED  BY <2>1, <1>1
<1> QED
  BY <1>8, <1>9, <1>16, <1>17, <1>19, <1>20, <1>22, <1>24, <1>25, <1>26,
     <1>27, <1>28
  DEF Step

\* When the capacities divide 2^w, or the threads make fewer than about 2^w calls,
\* and no queue is given another's capacity while a different thread copies or
\* moves it, no queue, shared or local, ever loses an element, shows a destroyed
\* one or keeps a live one outside its window, whichever operations race.  Without
\* either hypothesis the model checker finds a counterexample.
THEOREM RingsIntact ==
    ASSUME IndexesKept, CapacitiesKept
    PROVE  Spec => []RingIntact
<1>1. Init => RingIntact
  BY CapacityAssumption, SizeModAssumption, NewBodyRing DEF Init, RingIntact,
     Building
<1>2. /\ Inv /\ QueuesUnwrapped /\ LocalUnpopped /\ CapacityKnown /\ RingIntact
      /\ [Next]_vars
      => RingIntact'
  <2>1. ASSUME RingIntact, UNCHANGED vars
        PROVE  RingIntact'
    BY <2>1 DEF RingIntact, vars, Building
  <2> QED  BY <2>1, RingStep DEF Next, Rest
<1> QED
  BY <1>1, <1>2, WrapFarOff, LocalsUnpopped, CapacitiesKnown, InvHolds, PTL DEF Spec
-----------------------------------------------------------------------------
\* The end of elements.

\* An element is constructed in a slot that has none and destroyed in one that
\* has, and an object that counts no element has none.
LEMMA OpsGoOn ==
    ASSUME NEW b, IsBody(b), RingOK(b)
    PROVE  /\ Unwrapped(b) /\ ~Full(b) => \A v \in Values : GoesOn(b, Construct(b, v))
           /\ ~Empty(b) => GoesOn(b, Destroy(b))
           /\ Empty(b) => \A s \in DOMAIN b.container : b.container[s] = Raw
<1> PICK c \in Capacities : b \in BodyOf(c)
  BY DEF IsBody
<1>1. /\ c \in Nat \ {0} /\ b.capacity = c /\ b.size \in Nat
      /\ DOMAIN b.container = 0..c - 1
  BY CapacityAssumption, SizeModAssumption DEF BodyOf, Capacities
<1>2. \A s \in 0..c - 1 : b.container[s] # Raw <=> \E i \in 0..b.size - 1 : s = Slot(b, i)
  BY <1>1 DEF RingOK
<1>3. ASSUME Unwrapped(b), ~Full(b), NEW v \in Values
      PROVE  GoesOn(b, Construct(b, v))
  <2> DEFINE d == Construct(b, v)
             s == Slot(b, b.size)
  <2>1. b.size < c /\ b.size \in Int
    BY <1>1, <1>3 DEF RingOK, Full
  <2>2. /\ d.size = b.size + 1 /\ d.capacity = c
        /\ d.container = [b.container EXCEPT ![s] = v]
        /\ \A i : Slot(d, i) = Slot(b, i)
    BY ConstructFields
  <2>3. RingOK(d) /\ s \in 0..c - 1
    BY <1>1, <1>3, <2>1, SlotRange, UnwrappedConstruct, ConstructRing
  <2> HIDE DEF d
  <2>4. ASSUME NEW i \in 0..b.size - 1, s = Slot(b, i)
        PROVE  FALSE
    <3>1. i \in 0..d.size - 1 /\ b.size \in 0..d.size - 1 /\ i # b.size
      BY <1>1, <2>2
    <3>2. Slot(d, i) = Slot(d, b.size)
      BY <2>2, <2>4
    <3> QED  BY <2>3, <3>1, <3>2 DEF RingOK
  <2>5. b.container[s] = Raw
    BY <1>2, <2>3, <2>4
  <2>6. d.container[s] = v /\ v # Raw
    BY <1>1, <2>2, <2>3, RawAssumption
  <2> QED  BY <1>1, <2>2, <2>3, <2>5, <2>6 DEF GoesOn, d
<1>4. ASSUME ~Empty(b)
      PROVE  GoesOn(b, Destroy(b))
  <2> DEFINE d == Destroy(b)
             s == Slot(b, 0)
  <2>1. 0 \in 0..b.size - 1
    BY <1>1, <1>4 DEF Empty
  <2>2. /\ d.size = b.size - 1 /\ d.capacity = c
        /\ d.container = [b.container EXCEPT ![s] = Raw]
    BY <1>4, DestroyFields
  <2>3. s \in 0..c - 1
    BY <1>1, SlotRange
  <2>4. b.container[s] # Raw /\ d.container[s] = Raw
    BY <1>1, <1>2, <2>1, <2>2, <2>3
  <2> QED  BY <1>1, <2>2, <2>3, <2>4 DEF GoesOn
<1>5. ASSUME Empty(b)
      PROVE  \A s \in DOMAIN b.container : b.container[s] = Raw
  BY <1>1, <1>2, <1>5 DEF Empty
<1> QED  BY <1>3, <1>4, <1>5

\* What a step may do to a queue and to a local object.
QueueKept(q) == GoesOn(body[q], body'[q]) \/ Exchanges(q)
LocalKept(u) == pc[u] \in Building =>
                    \/ pc'[u] \in Building /\ GoesOn(tmp[u], tmp'[u])
                    \/ \E q \in Queues : body'[q] = tmp[u] /\ tmp'[u] = body[q]
                    \/ pc'[u] \notin Building /\ MayEnd(u)

\* A thread pushes or pops in a queue that it left room or an element in, copies
\* into an object with room, and lets go of an empty one.
LEMMA ElementsStep ==
    ASSUME QueuesUnwrapped, LocalUnpopped, CapacityKnown, Inv, RingIntact,
           NEW t \in Threads, Step(t) \/ SpuriousWake(t)
    PROVE  (\A q \in Queues : QueueKept(q)) /\ (\A u \in Threads : LocalKept(u))
<1>a. /\ pc[t] # "idle" =>
          /\ call[t].q \in Queues
          /\ call[t].op \in PushOps => call[t].v \in Values
          /\ call[t].op \in SwapOps \cup Constructing => call[t].rhs \in Queues
      /\ DOMAIN body = Queues /\ DOMAIN tmp = Threads
      /\ \A q \in Queues : IsBody(body[q]) /\ RingOK(body[q])
  BY CallTypes DEF Inv, TypeOK, RingIntact
<1>b. pc[t] \in Building => IsBody(tmp[t]) /\ RingOK(tmp[t])
  BY DEF Inv, TypeOK, ThreadOK, RingIntact
<1>c. /\ \A u \in Threads \ {t} :
             tmp'[u] = tmp[u] /\ (pc[u] \in Building => pc'[u] \in Building)
      /\ t \in DOMAIN pc /\ t \in DOMAIN ret
  BY NonInterference DEF Inv, TypeOK, Building
<1>d. \A b : GoesOn(b, b)
  BY DEF GoesOn
<1>e. \A q \in Queues : body'[q] = body[q] => QueueKept(q)
  BY <1>d DEF QueueKept
<1>f. \A u \in Threads \ {t} : LocalKept(u)
  BY <1>c, <1>d DEF LocalKept
<1>1. ASSUME body' = body, LocalKept(t)
      PROVE  (\A q \in Queues : QueueKept(q)) /\ (\A u \in Threads : LocalKept(u))
  BY <1>1, <1>e, <1>f
<1>2. ASSUME pc[t] \notin Building, NEW r \in Queues, GoesOn(body[r], body'[r]),
             \A q \in Queues \ {r} : body'[q] = body[q]
      PROVE  (\A q \in Queues : QueueKept(q)) /\ (\A u \in Threads : LocalKept(u))
  BY <1>2, <1>e, <1>f DEF QueueKept, LocalKept
<1>3. ASSUME NEW r \in Queues, body' = [body EXCEPT ![r] = tmp[t]], tmp'[t] = body[r]
      PROVE  (\A q \in Queues : QueueKept(q)) /\ (\A u \in Threads : LocalKept(u))
  <2>1. body'[r] = tmp[t] /\ \A q \in Queues \ {r} : body'[q] = body[q]
    BY <1>3, <1>a
  <2>2. QueueKept(r)
    BY <1>3, <2>1 DEF QueueKept, Exchanges
  <2>3. LocalKept(t)
    BY <1>3, <2>1 DEF LocalKept
  <2> QED  BY <1>e, <1>f, <2>1, <2>2, <2>3
<1>8. CASE Push(t)
  <2> DEFINE r == call[t].q
             d == Construct(body[r], Passed(call[t]))
  <2>1. ~Full(body[r]) /\ Passed(call[t]) \in Values /\ r \in Queues /\ Unwrapped(body[r])
    BY <1>8, <1>a, PassedType DEF Push, Inv, PredicateStillHolds, Ready, QueuesUnwrapped
  <2>2. GoesOn(body[r], d)
    BY <1>a, <2>1, OpsGoOn
  <2>3. pc[t] \notin Building /\ body' = [body EXCEPT ![r] = d]
    BY <1>8 DEF Push, Building
  <2> HIDE DEF d
  <2> QED  BY <1>2, <1>a, <2>1, <2>2, <2>3
<1>9. CASE Pop(t)
  <2> DEFINE r == call[t].q
             d == Destroy(body[r])
  <2>1. ~Empty(body[r]) /\ r \in Queues
    BY <1>9, <1>a DEF Pop, Inv, PredicateStillHolds, Ready, PushOps, PopOps
  <2>2. GoesOn(body[r], d)
    BY <1>a, <2>1, OpsGoOn
  <2>3. pc[t] \notin Building /\ body' = [body EXCEPT ![r] = d]
    BY <1>9 DEF Pop, Building
  <2> HIDE DEF d
  <2> QED  BY <1>2, <1>a, <2>1, <2>2, <2>3
<1>16. CASE SwapMembers(t)
  <2> DEFINE q == call[t].q
             r == call[t].rhs
  <2>1. q \in Queues /\ r \in Queues
    BY <1>16, <1>a DEF SwapMembers, Inv, PlaceFitsCall
  <2>2. body' = [body EXCEPT ![q] = body[r], ![r] = body[q]]
    BY <1>16 DEF SwapMembers
  <2>3. \A p \in Queues : QueueKept(p)
    BY <1>a, <1>e, <2>1, <2>2 DEF QueueKept, Exchanges
  <2>4. LocalKept(t)
    BY <1>16 DEF SwapMembers, LocalKept, Building
  <2> QED  BY <1>f, <2>3, <2>4
<1>17. CASE ReadCapacity(t)
  <2>1. pc[t] \notin Building /\ body' = body
    BY <1>17 DEF ReadCapacity, Building
  <2> QED  BY <1>1, <2>1 DEF LocalKept
<1>19. CASE CopyElement(t)
  <2>1. GoesOn(tmp[t], Construct(tmp[t], Copied(At(body[call[t].rhs], tmp[t].size))))
    BY <1>19, CopyHasRoom, OpsGoOn
  <2>2. /\ tmp'[t] = Construct(tmp[t], Copied(At(body[call[t].rhs], tmp[t].size)))
        /\ body' = body /\ pc' = pc
    BY <1>19, <1>a DEF CopyElement
  <2> QED  BY <1>1, <2>1, <2>2 DEF LocalKept
<1>20. CASE CopyThrow(t)
  <2>1. pc'[t] = "idle" /\ body' = body /\ MayEnd(t)
    BY <1>20, <1>a, <1>c DEF CopyThrow, Copying, Leave, Return, MayEnd, Goto
  <2> QED  BY <1>1, <2>1 DEF LocalKept, Building
<1>22. CASE MoveOut(t)
  <2>1. call[t].rhs \in Queues
    BY <1>22, <1>a DEF MoveOut, Constructing
  <2>2. /\ body' = [body EXCEPT ![call[t].rhs] = tmp[t]]
        /\ tmp'[t] = body[call[t].rhs]
    BY <1>22, <1>a DEF MoveOut, Exchange
  <2> QED  BY <1>3, <2>1, <2>2
<1>24. CASE Install(t)
  <2>1. call[t].q \in Queues
    BY <1>24, <1>a DEF Install
  <2>2. body' = [body EXCEPT ![call[t].q] = tmp[t]] /\ tmp'[t] = body[call[t].q]
    BY <1>24, <1>a DEF Install, Exchange
  <2> QED  BY <1>3, <2>1, <2>2
<1>25. CASE DestroyElement(t)
  <2>1. GoesOn(tmp[t], Destroy(tmp[t]))
    BY <1>25, <1>b, OpsGoOn DEF DestroyElement, Building
  <2>2. tmp'[t] = Destroy(tmp[t]) /\ body' = body /\ pc' = pc
    BY <1>25, <1>a DEF DestroyElement
  <2> QED  BY <1>1, <2>1, <2>2 DEF LocalKept
<1>26. CASE DestroyDone(t)
  <2>1. MayEnd(t)
    BY <1>26, <1>b, OpsGoOn DEF DestroyDone, Building, MayEnd
  <2>2. pc'[t] = "idle" /\ body' = body
    BY <1>26, <1>c DEF DestroyDone, Goto
  <2> QED  BY <1>1, <2>1, <2>2 DEF LocalKept, Building
<1>27. CASE \/ Invoke(t) \/ Acquire(t) \/ Reacquire(t) \/ Proceed(t) \/ Refuse(t)
            \/ Wait(t) \/ Timeout(t) \/ SpuriousWake(t) \/ ThrowElement(t) \/ Observe(t)
            \/ SelfCall(t) \/ LockFirst(t) \/ LockOther(t) \/ BackOff(t)
  <2>1. body' = body /\ pc[t] \notin Building
    BY <1>27 DEF Building, Invoke, MakeCall, Acquire, Reacquire, Lock, Proceed, Refuse, Wait,
       Timeout, SpuriousWake, StopWaiting, ThrowElement, Observe, SelfCall, LockFirst,
       LockOther, BackOff
  <2> QED  BY <1>1, <2>1 DEF LocalKept
<1>28. CASE LockSource(t) \/ CopyDone(t) \/ LockTarget(t)
  <2>1. UNCHANGED <<body, tmp>> /\ pc'[t] \in Building
    BY <1>28, <1>c DEF Building, Goto, Lock, LockSource, CopyDone, LockTarget
  <2> QED  BY <1>1, <1>d, <2>1 DEF LocalKept
<1> QED
  BY <1>8, <1>9, <1>16, <1>17, <1>19, <1>20, <1>22, <1>24, <1>25, <1>26, <1>27, <1>28
  DEF Step

\* Under the hypotheses of RingsIntact, whatever races and whatever throws, each
\* constructed element stays in its slot, goes along when its queue's memory is
\* exchanged, or is destroyed; none is overwritten, and no memory is released or
\* left behind with an element in it, but for the copies that an interrupted copy
\* has made.  The hypotheses are needed: a constructor that has read a smaller
\* capacity than it then copies overwrites elements (MCBoundedQueueStaleCapacity).
THEOREM LeaksAreInterruptedCopies ==
    ASSUME IndexesKept, CapacitiesKept
    PROVE  Spec => OnlyInterruptedCopiesLeak
<1>1. /\ Inv /\ QueuesUnwrapped /\ LocalUnpopped /\ CapacityKnown /\ RingIntact
      /\ [Next]_vars
      => [/\ \A q \in Queues : GoesOn(body[q], body'[q]) \/ Exchanges(q)
          /\ \A t \in Threads : pc[t] \in Building =>
                 \/ pc'[t] \in Building /\ GoesOn(tmp[t], tmp'[t])
                 \/ \E q \in Queues : body'[q] = tmp[t] /\ tmp'[t] = body[q]
                 \/ pc'[t] \notin Building /\ MayEnd(t)]_vars
  BY ElementsStep DEF Next, Rest, QueueKept, LocalKept
<1> QED
  BY <1>1, RingsIntact, WrapFarOff, LocalsUnpopped, CapacitiesKnown, InvHolds, PTL
  DEF Spec, OnlyInterruptedCopiesLeak

-----------------------------------------------------------------------------
\* Copying.

\* A copy starts from an object without elements.
FreshEmpty == \A t \in Threads : pc[t] = "fresh" => tmp[t].size = 0

\* Constructing an element leaves those before it alone.
LEMMA ConstructKeeps ==
    ASSUME NEW b, IsBody(b), b.size < b.capacity, Unwrapped(b), NEW v
    PROVE  /\ Construct(b, v).size = b.size + 1 /\ b.size \in Nat
           /\ \A i \in 0..b.size - 1 : At(Construct(b, v), i) = At(b, i)
           /\ At(Construct(b, v), b.size) = v
<1>1. PICK c \in Capacities : b \in BodyOf(c)
  BY DEF IsBody
<1>2. c \in Nat \ {0} /\ b.capacity = c /\ b.size \in 0..c - 1
      /\ DOMAIN b.container = 0..c - 1
  BY <1>1, CapacityAssumption, SizeModAssumption DEF BodyOf, Capacities
<1>3. \A i \in 0..c - 1 : Slot(b, i) \in 0..c - 1
  BY <1>1, <1>2, SlotRange
<1>4. ASSUME NEW i \in 0..b.size - 1
      PROVE  Slot(b, i) # Slot(b, b.size)
  <2>1. c \in 0..c /\ i \in 0..c - 1 /\ b.size \in 0..c - 1 /\ i # b.size
    BY <1>2
  <2>2. WrapsEvenly(c) \/ b.index + c <= SizeMod
    BY <1>2 DEF Unwrapped
  <2> QED  BY <1>1, <1>2, <2>1, <2>2, SlotsDistinct
<1>5. /\ Construct(b, v).size = b.size + 1
      /\ Construct(b, v).container = [b.container EXCEPT ![Slot(b, b.size)] = v]
      /\ \A i : Slot(Construct(b, v), i) = Slot(b, i)
  BY <1>1, ConstructFields
<1>6. \A i \in 0..b.size : At(Construct(b, v), i) =
          [b.container EXCEPT ![Slot(b, b.size)] = v][Slot(b, i)]
  BY <1>5 DEF At
<1>7. ASSUME NEW i \in 0..b.size - 1
      PROVE  At(Construct(b, v), i) = b.container[Slot(b, i)]
  <2>1. i \in 0..b.size /\ i \in 0..c - 1
    BY <1>2
  <2>2. Slot(b, i) \in 0..c - 1 /\ Slot(b, i) # Slot(b, b.size)
    BY <2>1, <1>3, <1>4
  <2> QED  BY <2>1, <2>2, <1>2, <1>6
<1>8. At(Construct(b, v), b.size) = v
  BY <1>2, <1>3, <1>6
<1> QED  BY <1>2, <1>5, <1>7, <1>8 DEF At

\* A step keeps the copies in progress copies of their source's front.
LEMMA CopyStep ==
    ASSUME LocalUnpopped, CapacityKnown, Inv, RingIntact, FreshEmpty, CopyIsPrefix,
           NEW t \in Threads, Step(t) \/ SpuriousWake(t)
    PROVE  FreshEmpty' /\ CopyIsPrefix'
<1> USE DEF Inv
<1> DEFINE Prefix(u) ==
        (pc[u] = "source" /\ call[u].op \in CopyOps) =>
            /\ tmp[u].size <= body[call[u].rhs].size
            /\ \A i \in 0..tmp[u].size - 1 : At(tmp[u], i) = Copied(At(body[call[u].rhs], i))
<1>a. /\ t \in DOMAIN pc /\ t \in DOMAIN tmp
      /\ \A q \in Queues : IsBody(body[q]) /\ RingOK(body[q])
      /\ pc[t] # "idle" => (call[t].op \in Constructing => call[t].rhs \in Queues)
  BY CallTypes DEF TypeOK, RingIntact
<1>1. ASSUME NEW u \in Threads \ {t}
      PROVE  (pc'[u] = "fresh" => tmp'[u].size = 0) /\ Prefix(u)'
  <2>1. /\ pc'[u] \in {"fresh", "source"} => pc'[u] = pc[u]
        /\ call'[u] = call[u] /\ tmp'[u] = tmp[u]
        /\ \A q \in Queues : mx[q] = u => body'[q] = body[q]
    BY NonInterference
  <2>2. pc[u] = "source" /\ call[u].op \in CopyOps =>
            call[u].rhs \in Queues /\ mx[call[u].rhs] = u
    BY CallTypes DEF LockDiscipline, MustHold, CopyOps, Constructing
  <2> QED  BY <2>1, <2>2 DEF FreshEmpty, CopyIsPrefix
<1>2. (pc'[t] = "fresh" => tmp'[t].size = 0) /\ Prefix(t)'
  <2>1. CASE ReadCapacity(t)
    BY <2>1, <1>a DEF ReadCapacity, Goto, NewBody
  <2>2. CASE LockSource(t)
    <3>1. /\ pc[t] = "fresh" /\ tmp'[t] = tmp[t] /\ body' = body /\ call' = call
          /\ pc'[t] = "source"
      BY <2>2, <1>a DEF LockSource, Lock, Goto
    <3>2. tmp[t].size = 0 /\ call[t].rhs \in Queues
      BY <3>1, <1>a DEF FreshEmpty, PlaceFitsCall
    <3>3. body[call[t].rhs].size \in Nat
      BY <3>2, <1>a DEF IsBody, BodyOf
    <3> QED  BY <3>1, <3>2, <3>3
  <2>3. CASE CopyElement(t)
    <3> DEFINE b == body[call[t].rhs]
               n == tmp[t].size
    <3>1. /\ pc[t] = "source" /\ call[t].op \in CopyOps /\ call[t].rhs \in Queues /\ n < b.size
          /\ pc' = pc /\ call' = call /\ body' = body
          /\ tmp'[t] = Construct(tmp[t], Copied(At(b, n)))
      BY <2>3, <1>a DEF CopyElement, Copying, CopyOps, Constructing
    <3>2. IsBody(tmp[t]) /\ IsBody(b) /\ RingOK(b)
      BY <3>1, <1>a DEF TypeOK, ThreadOK, Building
    <3>3. n < tmp[t].capacity /\ n \in Nat /\ b.size \in Nat
      <4>1. PICK c \in Capacities : b \in BodyOf(c)
        BY <3>2 DEF IsBody
      <4>2. PICK d \in Capacities : tmp[t] \in BodyOf(d)
        BY <3>2 DEF IsBody
      <4>3. c = d /\ c \in Nat
        BY <3>1, <4>1, <4>2, CapacityAssumption, SizeModAssumption
        DEF CapacityKnown, BodyOf, Capacities
      <4> QED  BY <3>1, <3>2, <4>1, <4>2, <4>3 DEF BodyOf, RingOK
    <3>6. Unwrapped(tmp[t])
      BY <3>1, <3>2, LocalUnwrapped DEF LocalUnpopped
    <3>4. /\ tmp'[t].size = n + 1
          /\ \A i \in 0..n - 1 : At(tmp'[t], i) = At(tmp[t], i)
          /\ At(tmp'[t], n) = Copied(At(b, n))
      BY <3>1, <3>2, <3>3, <3>6, ConstructKeeps
    <3>5. \A i \in 0..n - 1 : At(tmp[t], i) = Copied(At(b, i))
      BY <3>1 DEF CopyIsPrefix
    <3> QED  BY <3>1, <3>3, <3>4, <3>5
  <2>4. CASE \/ Invoke(t) \/ Acquire(t) \/ Reacquire(t) \/ Proceed(t) \/ Refuse(t) \/ Wait(t)
             \/ Timeout(t) \/ SpuriousWake(t) \/ ThrowElement(t) \/ Observe(t) \/ SelfCall(t)
             \/ LockFirst(t) \/ LockOther(t) \/ BackOff(t) \/ SwapMembers(t) \/ CopyThrow(t)
             \/ CopyDone(t) \/ MoveOut(t) \/ LockTarget(t) \/ Install(t) \/ DestroyElement(t)
             \/ DestroyDone(t)
    <3>1. pc'[t] \notin {"fresh", "source"}
      BY <2>4, <1>a DEF Invoke, MakeCall, Acquire, Reacquire, Lock, Proceed, Refuse, Wait,
         Timeout, SpuriousWake, StopWaiting, ThrowElement, Observe, SelfCall, LockFirst,
         LockOther, BackOff, SwapMembers, CopyThrow, CopyDone, MoveOut, LockTarget, Install,
         Exchange, DestroyElement, DestroyDone, Leave, Goto
    <3> QED  BY <3>1
  <2>5. CASE Push(t) \/ Pop(t)
    <3>1. pc'[t] = "idle"
      BY <2>5 DEF Push, Pop, LeaveAndWake
    <3> QED  BY <3>1
  <2> QED  BY <2>1, <2>2, <2>3, <2>4, <2>5 DEF Step
<1> QED  BY <1>1, <1>2 DEF FreshEmpty, CopyIsPrefix

\* Under the same hypotheses a copy has, at every moment of its making, copies of
\* the first elements of its source in their order: nobody takes one from the
\* source, or adds one to it, in between.
THEOREM CopiesArePrefixes ==
    ASSUME IndexesKept, CapacitiesKept
    PROVE  Spec => []CopyIsPrefix
<1>1. Init => FreshEmpty /\ CopyIsPrefix
  BY DEF Init, FreshEmpty, CopyIsPrefix
<1>2. /\ Inv /\ LocalUnpopped /\ CapacityKnown /\ RingIntact /\ FreshEmpty /\ CopyIsPrefix
      /\ [Next]_vars
      => FreshEmpty' /\ CopyIsPrefix'
  <2>1. ASSUME FreshEmpty, CopyIsPrefix, UNCHANGED vars
        PROVE  FreshEmpty' /\ CopyIsPrefix'
    BY <2>1 DEF FreshEmpty, CopyIsPrefix, vars
  <2> QED  BY <2>1, CopyStep DEF Next, Rest
<1>3. Spec => []RingIntact
  BY RingsIntact
<1> QED
  BY <1>1, <1>2, <1>3, LocalsUnpopped, CapacitiesKnown, InvHolds, PTL DEF Spec

-----------------------------------------------------------------------------
\* Wakeups.

\* The operations that may wait.
Blocking == {"push", "push_rvalue", "pop"} \cup Timed

\* The queues that some call may wait on.
WaitedOn == {q \in Queues : \E t \in Threads : \E c \in Calls[t] : c.op \in Blocking /\ c.q = q}

\* No call exchanges the content of a queue that some call may wait on: neither
\* swap() nor the assignments notify the waiters of the queues they fill.
ExchangesApart == \A t \in Threads : \A c \in Calls[t] : Exchanged(c) \cap WaitedOn = {}

\* Only an operation that may block waits.
BlockingWait == \A t \in Threads : pc[t] = "wait" => call[t].op \in Blocking

\* No wakeup of q's consumers is missing but n, and none of its producers but m.
WakesBut(q, n, m) ==
    /\ notEmpty[q] # {} => body[q].size <= Cardinality(Awake(PopOps, q)) + n
    /\ notFull[q] # {} => body[q].capacity - body[q].size <= Cardinality(Awake(PushOps, q)) + m

\* What _push() and _pop() do to the counted elements and the capacity.
LEMMA BodyNumbers ==
    ASSUME NEW b, IsBody(b)
    PROVE  /\ b.size \in Nat /\ b.capacity \in Nat \ {0} /\ b.capacity \in Capacities
           /\ b \in BodyOf(b.capacity)
           /\ \A v : /\ Construct(b, v).size = b.size + 1
                     /\ Construct(b, v).capacity = b.capacity
           /\ Destroy(b).size = b.size - 1 /\ Destroy(b).capacity = b.capacity
<1>1. PICK c \in Capacities : b \in BodyOf(c)
  BY DEF IsBody
<1>2. c \in Nat \ {0}
  BY CapacityAssumption, SizeModAssumption DEF Capacities
<1> QED  BY <1>1, <1>2 DEF BodyOf, Construct, Destroy

\* Another thread that is awake stays so.
LEMMA OthersAwake ==
    ASSUME Inv, NEW t \in Threads, Step(t) \/ SpuriousWake(t), NEW ops, NEW q
    PROVE  Awake(ops, q) \ {t} \subseteq Awake(ops, q)'
  BY NonInterference DEF Awake

\* Only blocking operations come to wait.
LEMMA BlockingStep ==
    ASSUME Inv, BlockingWait, NEW t \in Threads, Step(t) \/ SpuriousWake(t)
    PROVE  BlockingWait'
<1> USE DEF Inv
<1>1. ASSUME NEW u \in Threads \ {t}, pc'[u] = "wait"
      PROVE  call'[u].op \in Blocking
  BY <1>1, NonInterference DEF BlockingWait
<1>2. t \in DOMAIN pc
  BY DEF TypeOK
<1>3. ASSUME pc'[t] = "wait"
      PROVE  call'[t].op \in Blocking
  <2>1. CASE Wait(t)
    BY <2>1 DEF Wait, Blocking
  <2>2. CASE Push(t) \/ Pop(t)
    BY <2>2, <1>3 DEF Push, Pop, LeaveAndWake
  <2>3. CASE CopyElement(t) \/ DestroyElement(t)
    BY <2>3, <1>3 DEF CopyElement, Copying, DestroyElement
  <2>4. CASE \/ Invoke(t) \/ Acquire(t) \/ Reacquire(t) \/ Proceed(t) \/ Refuse(t)
             \/ Timeout(t) \/ SpuriousWake(t) \/ ThrowElement(t) \/ Observe(t) \/ SelfCall(t)
             \/ LockFirst(t) \/ LockOther(t) \/ BackOff(t) \/ SwapMembers(t) \/ ReadCapacity(t)
             \/ LockSource(t) \/ CopyThrow(t) \/ CopyDone(t) \/ MoveOut(t) \/ LockTarget(t)
             \/ Install(t) \/ DestroyDone(t)
    BY <2>4, <1>2, <1>3 DEF Invoke, MakeCall, Acquire, Reacquire, Lock, Proceed, Refuse, Timeout,
       SpuriousWake, StopWaiting, ThrowElement, Observe, SelfCall, LockFirst, LockOther, BackOff,
       SwapMembers, ReadCapacity, LockSource, CopyThrow, CopyDone, MoveOut, LockTarget, Install,
       Exchange, DestroyDone, Leave, Goto
  <2> QED  BY <2>1, <2>2, <2>3, <2>4 DEF Step
<1> QED  BY <1>1, <1>3 DEF BlockingWait

\* The number of awake threads grows with their set, and falls by no more than
\* the one that leaves it.
LEMMA AwakeCounts ==
    ASSUME NEW ops, NEW q
    PROVE  LET n == Cardinality(Awake(ops, q))
           IN  /\ n \in Nat /\ n' \in Nat
               /\ Awake(ops, q) \subseteq Awake(ops, q)' => n <= n'
               /\ \A u \in Awake(ops, q)' \ Awake(ops, q) :
                      Awake(ops, q) \subseteq Awake(ops, q)' => n + 1 <= n'
               /\ \A u \in Awake(ops, q) :
                      Awake(ops, q) \ {u} \subseteq Awake(ops, q)' => n - 1 <= n'
<1> DEFINE A == Awake(ops, q)
           B == Awake(ops, q)'
<1>1. A \subseteq Threads /\ B \subseteq Threads
  BY DEF Awake
<1> HIDE DEF A, B
<1>2. IsFiniteSet(A) /\ IsFiniteSet(B)
  BY <1>1, ThreadsAssumption, FS_Subset
<1>3. Cardinality(A) \in Nat /\ Cardinality(B) \in Nat
  BY <1>2, FS_CardinalityType
<1>4. A \subseteq B => Cardinality(A) <= Cardinality(B)
  BY <1>2, FS_Subset
<1>5. ASSUME NEW u \in B \ A, A \subseteq B
      PROVE  Cardinality(A) + 1 <= Cardinality(B)
  <2>1. Cardinality(A \cup {u}) = Cardinality(A) + 1
    BY <1>2, FS_AddElement
  <2>2. A \cup {u} \subseteq B
    BY <1>5
  <2> QED  BY <1>2, <2>1, <2>2, FS_Subset
<1>6. ASSUME NEW u \in A, A \ {u} \subseteq B
      PROVE  Cardinality(A) - 1 <= Cardinality(B)
  <2>1. Cardinality(A \ {u}) = Cardinality(A) - 1
    BY <1>2, FS_RemoveElement
  <2> QED  BY <1>2, <1>6, <2>1, FS_Subset
<1> QED  BY <1>3, <1>4, <1>5, <1>6 DEF A, B

\* A step that adds no waiter on q, puts no thread to sleep that was awake for q
\* and keeps q's content, loses no wakeup of q, however many are missing.
LEMMA WakesKept ==
    ASSUME TypeOK, NEW q \in Queues, NEW n \in Nat, NEW m \in Nat, WakesBut(q, n, m),
           body'[q] = body[q], notEmpty'[q] \subseteq notEmpty[q], notFull'[q] \subseteq notFull[q],
           Awake(PopOps, q) \subseteq Awake(PopOps, q)',
           Awake(PushOps, q) \subseteq Awake(PushOps, q)'
    PROVE  WakesBut(q, n, m)'
<1> DEFINE pops == Cardinality(Awake(PopOps, q))
           pushes == Cardinality(Awake(PushOps, q))
<1>1. body[q].size \in Nat /\ body[q].capacity \in Nat
  BY BodyNumbers DEF TypeOK
<1>2. pops \in Nat /\ pops' \in Nat /\ pops <= pops'
  BY AwakeCounts
<1>3. pushes \in Nat /\ pushes' \in Nat /\ pushes <= pushes'
  BY AwakeCounts
<1> QED  BY <1>1, <1>2, <1>3 DEF WakesBut

\* A push wakes a consumer, if one waits, for the element that it adds.
LEMMA PushWakes ==
    ASSUME Inv, NEW t \in Threads, Push(t), NEW q \in Queues,
           NEW n \in Nat, NEW m \in Nat, WakesBut(q, n, m)
    PROVE  WakesBut(q, n, m)'
<1> USE DEF Inv
<1> DEFINE pops == Cardinality(Awake(PopOps, q))
           pushes == Cardinality(Awake(PushOps, q))
<1>1. /\ pc[t] = "act" /\ call[t].op \in PushOps /\ call[t].q \in Queues
      /\ body' = [body EXCEPT ![call[t].q] = Construct(@, Passed(call[t]))]
      /\ notFull' = notFull
  BY CallTypes DEF Push
<1>2. PICK N \in WokenByPush(call[t].q) :
          notEmpty' = [notEmpty EXCEPT ![call[t].q] = @ \ N] /\ LeaveAndWake(t, N)
  BY DEF Push
<1>3. DOMAIN body = Queues /\ DOMAIN notEmpty = Queues /\ IsBody(body[q])
  BY DEF TypeOK
<1>4. /\ Awake(PopOps, q) \subseteq Awake(PopOps, q)'
      /\ Awake(PushOps, q) \ {t} \subseteq Awake(PushOps, q)'
      /\ t \in Awake(PushOps, q) <=> q = call[t].q
  <2>1. \A ops : Awake(ops, q) \ {t} \subseteq Awake(ops, q)'
    BY OthersAwake DEF Step
  <2>2. t \notin Awake(PopOps, q) /\ (t \in Awake(PushOps, q) <=> q = call[t].q)
    BY <1>1 DEF Awake, PushOps, PopOps
  <2> QED  BY <2>1, <2>2
<1>5. CASE q # call[t].q
  <2>1. body'[q] = body[q] /\ notEmpty'[q] = notEmpty[q]
    BY <1>1, <1>2, <1>3, <1>5
  <2> QED  BY <1>1, <1>4, <1>5, <2>1, WakesKept
<1>6. CASE q = call[t].q
  <2>1. body'[q] = Construct(body[q], Passed(call[t]))
    BY <1>1, <1>3, <1>6
  <2>2. /\ body'[q].size = body[q].size + 1 /\ body'[q].capacity = body[q].capacity
        /\ body[q].size \in Nat /\ body[q].capacity \in Nat
    BY <1>3, <2>1, BodyNumbers
  <2>3. ASSUME notEmpty'[q] # {}
        PROVE  body'[q].size <= pops' + n
    <3>1. notEmpty[q] # {}
      BY <1>2, <1>3, <1>6, <2>3
    <3>2. PICK u \in notEmpty[q] : N = {u}
      BY <1>2, <1>6, <3>1 DEF WokenByPush, NotifyOne
    <3>3. u \in Threads /\ pc[u] = "wait" /\ call[u].q = q /\ call[u].op \in PopOps /\ u # t
      BY <1>1, <3>2 DEF WaitSets, TypeOK
    <3>4. pc'[u] = "woken" /\ call'[u] = call[u]
      BY <1>2, <3>2, <3>3, NonInterference DEF LeaveAndWake, Step
    <3>5. u \in Awake(PopOps, q)' \ Awake(PopOps, q)
      BY <3>3, <3>4 DEF Awake
    <3>6. pops \in Nat /\ pops' \in Nat /\ pops + 1 <= pops'
      BY <1>4, <3>5, AwakeCounts
    <3>7. body[q].size <= pops + n
      BY <3>1 DEF WakesBut
    <3> QED  BY <2>2, <3>6, <3>7
  <2>4. ASSUME notFull'[q] # {}
        PROVE  body'[q].capacity - body'[q].size <= pushes' + m
    <3>1. pushes \in Nat /\ pushes' \in Nat /\ pushes - 1 <= pushes'
      BY <1>4, <1>6, AwakeCounts
    <3>2. body[q].capacity - body[q].size <= pushes + m
      BY <1>1, <2>4 DEF WakesBut
    <3> QED  BY <2>2, <3>1, <3>2
  <2> QED  BY <2>3, <2>4 DEF WakesBut
<1> QED  BY <1>5, <1>6

\* A pop wakes a producer, if one waits, for the room that it makes.
LEMMA PopWakes ==
    ASSUME Inv, NEW t \in Threads, Pop(t), NEW q \in Queues,
           NEW n \in Nat, NEW m \in Nat, WakesBut(q, n, m)
    PROVE  WakesBut(q, n, m)'
<1> USE DEF Inv
<1> DEFINE pops == Cardinality(Awake(PopOps, q))
           pushes == Cardinality(Awake(PushOps, q))
<1>1. /\ pc[t] = "act" /\ call[t].op \in PopOps /\ call[t].q \in Queues
      /\ body' = [body EXCEPT ![call[t].q] = Destroy(@)]
      /\ notEmpty' = notEmpty
  BY CallTypes DEF Pop
<1>2. PICK N \in WokenByPop(call[t].q) :
          notFull' = [notFull EXCEPT ![call[t].q] = @ \ N] /\ LeaveAndWake(t, N)
  BY DEF Pop
<1>3. DOMAIN body = Queues /\ DOMAIN notFull = Queues /\ IsBody(body[q])
  BY DEF TypeOK
<1>4. /\ Awake(PushOps, q) \subseteq Awake(PushOps, q)'
      /\ Awake(PopOps, q) \ {t} \subseteq Awake(PopOps, q)'
      /\ t \in Awake(PopOps, q) <=> q = call[t].q
  <2>1. \A ops : Awake(ops, q) \ {t} \subseteq Awake(ops, q)'
    BY OthersAwake DEF Step
  <2>2. t \notin Awake(PushOps, q) /\ (t \in Awake(PopOps, q) <=> q = call[t].q)
    BY <1>1 DEF Awake, PushOps, PopOps
  <2> QED  BY <2>1, <2>2
<1>5. CASE q # call[t].q
  <2>1. body'[q] = body[q] /\ notFull'[q] = notFull[q]
    BY <1>1, <1>2, <1>3, <1>5
  <2> QED  BY <1>1, <1>4, <1>5, <2>1, WakesKept
<1>6. CASE q = call[t].q
  <2>1. body'[q] = Destroy(body[q])
    BY <1>1, <1>3, <1>6
  <2>2. /\ body'[q].size = body[q].size - 1 /\ body'[q].capacity = body[q].capacity
        /\ body[q].size \in Nat /\ body[q].capacity \in Nat
    BY <1>3, <2>1, BodyNumbers
  <2>3. ASSUME notFull'[q] # {}
        PROVE  body'[q].capacity - body'[q].size <= pushes' + m
    <3>1. notFull[q] # {}
      BY <1>2, <1>3, <1>6, <2>3
    <3>2. PICK u \in notFull[q] : N = {u}
      BY <1>2, <1>6, <3>1 DEF WokenByPop, NotifyOne
    <3>3. u \in Threads /\ pc[u] = "wait" /\ call[u].q = q /\ call[u].op \in PushOps /\ u # t
      BY <1>1, <3>2 DEF WaitSets, TypeOK
    <3>4. pc'[u] = "woken" /\ call'[u] = call[u]
      BY <1>2, <3>2, <3>3, NonInterference DEF LeaveAndWake, Step
    <3>5. u \in Awake(PushOps, q)' \ Awake(PushOps, q)
      BY <3>3, <3>4 DEF Awake
    <3>6. pushes \in Nat /\ pushes' \in Nat /\ pushes + 1 <= pushes'
      BY <1>4, <3>5, AwakeCounts
    <3>7. body[q].capacity - body[q].size <= pushes + m
      BY <3>1 DEF WakesBut
    <3> QED  BY <2>2, <3>6, <3>7
  <2>4. ASSUME notEmpty'[q] # {}
        PROVE  body'[q].size <= pops' + n
    <3>1. pops \in Nat /\ pops' \in Nat /\ pops - 1 <= pops'
      BY <1>4, <1>6, AwakeCounts
    <3>2. body[q].size <= pops + n
      BY <1>1, <2>4 DEF WakesBut
    <3> QED  BY <2>2, <3>1, <3>2
  <2> QED  BY <2>3, <2>4 DEF WakesBut
<1> QED  BY <1>5, <1>6

\* Who goes to wait, or gives up, found nothing to do.
LEMMA IdleWakes ==
    ASSUME Inv, NEW t \in Threads, Wait(t) \/ Refuse(t), NEW q \in Queues,
           NEW n \in Nat, NEW m \in Nat, WakesBut(q, n, m)
    PROVE  WakesBut(q, n, m)'
<1> USE DEF Inv
<1> DEFINE pops == Cardinality(Awake(PopOps, q))
           pushes == Cardinality(Awake(PushOps, q))
<1>1. /\ pc[t] \in {"locked", "expired"} /\ call[t].op \in PushOps \cup PopOps
      /\ call[t].q \in Queues /\ ~Ready(call[t]) /\ body' = body
  BY CallTypes DEF Wait, Refuse, PlaceFitsCall, PushOps, PopOps, Timed, Immediate
<1>2. /\ DOMAIN notEmpty = Queues /\ DOMAIN notFull = Queues
      /\ notEmpty'[q] # notEmpty[q] => call[t].op \in PopOps /\ q = call[t].q
      /\ notFull'[q] # notFull[q] => call[t].op \in PushOps /\ q = call[t].q
  BY <1>1 DEF TypeOK, Wait, Refuse, waiting
<1>3. /\ \A ops : Awake(ops, q) \ {t} \subseteq Awake(ops, q)'
      /\ \A ops : t \in Awake(ops, q) => call[t].op \in ops /\ q = call[t].q
  BY OthersAwake DEF Awake, Step
<1>4. /\ body[q].size \in Nat /\ body[q].capacity \in Nat
      /\ pops \in Nat /\ pops' \in Nat /\ pushes \in Nat /\ pushes' \in Nat
  BY AwakeCounts, BodyNumbers DEF TypeOK
<1>5. ASSUME notEmpty'[q] # {}
      PROVE  body[q].size <= pops' + n
  <2>1. CASE call[t].op \in PopOps /\ q = call[t].q
    BY <1>1, <1>4, <2>1 DEF Ready, PushOps, PopOps, Empty
  <2>2. CASE ~(call[t].op \in PopOps /\ q = call[t].q)
    <3>1. pops <= pops'
      BY <1>3, <2>2, AwakeCounts
    <3> QED  BY <1>2, <1>4, <1>5, <2>2, <3>1 DEF WakesBut
  <2> QED  BY <2>1, <2>2
<1>6. ASSUME notFull'[q] # {}
      PROVE  body[q].capacity - body[q].size <= pushes' + m
  <2>1. CASE call[t].op \in PushOps /\ q = call[t].q
    BY <1>1, <1>4, <2>1 DEF Ready, Full
  <2>2. CASE ~(call[t].op \in PushOps /\ q = call[t].q)
    <3>1. pushes <= pushes'
      BY <1>3, <2>2, AwakeCounts
    <3> QED  BY <1>2, <1>4, <1>6, <2>2, <3>1 DEF WakesBut
  <2> QED  BY <2>1, <2>2
<1> QED  BY <1>1, <1>5, <1>6 DEF WakesBut

\* Only pushes, pops and exchanges change the content of a queue.
LEMMA ContentStep ==
    ASSUME Inv, NEW q \in Queues, NEW t \in Threads, Step(t) \/ SpuriousWake(t),
           ~Push(t), ~Pop(t), body'[q] # body[q]
    PROVE  /\ ExchangeLoses(t, q)
           /\ call[t] \in Calls[t] /\ q \in Exchanged(call[t])
<1> USE DEF Inv
<1>1. /\ pc[t] # "idle" =>
          /\ call[t] \in Calls[t] /\ call[t].op \in Ops /\ call[t].q \in Queues
          /\ call[t].op \in SwapOps \cup Constructing => call[t].rhs \in Queues
      /\ DOMAIN body = Queues /\ t \in DOMAIN pc
  BY CallTypes DEF TypeOK
<1>2. CASE SwapMembers(t)
  BY <1>1, <1>2 DEF SwapMembers, Goto, PlaceFitsCall, Exchanged, ExchangeLoses
<1>3. CASE MoveOut(t) \/ Install(t)
  BY <1>1, <1>3 DEF MoveOut, Install, Exchange, Goto, PlaceFitsCall, Exchanged, SwapOps,
     ExchangeLoses
<1>4. SwapMembers(t) \/ MoveOut(t) \/ Install(t)
  BY DEF Step, SpuriousWake, StopWaiting, Invoke, MakeCall, Acquire, Reacquire, Lock,
     Proceed, Refuse, Wait, Timeout, ThrowElement, Observe, SelfCall, LockFirst, LockOther,
     BackOff, ReadCapacity, LockSource, CopyElement, CopyThrow, CopyDone, LockTarget,
     DestroyElement, DestroyDone
<1> QED  BY <1>2, <1>3, <1>4

\* Whoever leaves because of its element loses one wakeup at most, of its kind.
LEMMA ThrowWakes ==
    ASSUME Inv, NEW t \in Threads, ThrowElement(t), NEW q \in Queues,
           NEW n \in Nat, NEW m \in Nat, WakesBut(q, n, m)
    PROVE  \/ WakesBut(q, n, m)'
           \/ /\ Throws /\ pc[t] = "act" /\ pc'[t] = "idle" /\ call[t].q = q /\ ret'[t] = Threw
              /\ WakesBut(q, n + 1, m)' \/ WakesBut(q, n, m + 1)'
<1> USE DEF Inv
<1> DEFINE pops == Cardinality(Awake(PopOps, q))
           pushes == Cardinality(Awake(PushOps, q))
<1>1. /\ Throws /\ pc[t] = "act" /\ pc'[t] = "idle" /\ ret'[t] = Threw
      /\ body' = body /\ notEmpty' = notEmpty /\ notFull' = notFull
  BY DEF ThrowElement, Leave, Goto, Return, TypeOK, waiting
<1>2. /\ \A ops : Awake(ops, q) \ {t} \subseteq Awake(ops, q)'
      /\ \A ops : t \in Awake(ops, q) => call[t].op \in ops /\ q = call[t].q
  BY OthersAwake DEF Awake, Step
<1>3. /\ body[q].size \in Nat /\ body[q].capacity \in Nat
      /\ pops \in Nat /\ pops' \in Nat /\ pushes \in Nat /\ pushes' \in Nat
  BY AwakeCounts, BodyNumbers DEF TypeOK
<1>4. CASE t \notin Awake(PopOps, q) /\ t \notin Awake(PushOps, q)
  BY <1>1, <1>2, <1>4, WakesKept
<1>5. CASE t \in Awake(PopOps, q)
  <2>1. q = call[t].q /\ t \notin Awake(PushOps, q)
    BY <1>2, <1>5 DEF PushOps, PopOps
  <2>2. pops - 1 <= pops' /\ pushes <= pushes'
    BY <1>2, <1>5, <2>1, AwakeCounts
  <2>3. WakesBut(q, n + 1, m)'
    BY <1>1, <1>3, <2>2 DEF WakesBut
  <2> QED  BY <1>1, <2>1, <2>3
<1>6. CASE t \in Awake(PushOps, q)
  <2>1. q = call[t].q /\ t \notin Awake(PopOps, q)
    BY <1>2, <1>6 DEF PushOps, PopOps
  <2>2. pushes - 1 <= pushes' /\ pops <= pops'
    BY <1>2, <1>6, <2>1, AwakeCounts
  <2>3. WakesBut(q, n, m + 1)'
    BY <1>1, <1>3, <2>2 DEF WakesBut
  <2> QED  BY <1>1, <2>1, <2>3
<1> QED  BY <1>4, <1>5, <1>6

\* Every other step that keeps the content of a queue keeps its wakeups.
LEMMA OtherWakes ==
    ASSUME Inv, NEW q \in Queues, NEW n \in Nat, NEW m \in Nat, WakesBut(q, n, m),
           NEW t \in Threads, Step(t) \/ SpuriousWake(t), body'[q] = body[q],
           ~Push(t), ~Pop(t), ~Wait(t), ~Refuse(t), ~ThrowElement(t)
    PROVE  WakesBut(q, n, m)'
<1> USE DEF Inv
<1>a. /\ t \in DOMAIN pc /\ t \in DOMAIN call
      /\ pc[t] # "idle" => call[t] # None /\ call[t].op \in Ops
  BY CallTypes DEF TypeOK
<1>2. notEmpty'[q] \subseteq notEmpty[q] /\ notFull'[q] \subseteq notFull[q]
  BY <1>a DEF Step, SpuriousWake, StopWaiting, Invoke, MakeCall, Acquire, Reacquire, Lock,
     Proceed, Timeout, Observe, SelfCall, LockFirst, LockOther, BackOff,
     SwapMembers, MoveOut, Install, Exchange, ReadCapacity, LockSource, CopyElement, CopyThrow,
     CopyDone, LockTarget, DestroyElement, DestroyDone, waiting
<1>3. ASSUME NEW ops \in {PopOps, PushOps}, t \in Awake(ops, q)
      PROVE  t \in Awake(ops, q)'
  <2>1. /\ pc[t] \in {"locked", "act", "woken", "timedout", "expired"}
        /\ call[t].op \in PushOps \cup PopOps /\ call[t].op \in ops /\ call[t].q = q
    BY <1>3 DEF Awake
  <2>2. Reacquire(t) \/ Proceed(t)
    BY <2>1 DEF Step, SpuriousWake, StopWaiting, Invoke, MakeCall, Acquire, Lock,
     Timeout, Observe, SelfCall, LockFirst, LockOther, BackOff,
     SwapMembers, MoveOut, Install, Exchange, ReadCapacity, LockSource, CopyElement, Copying,
     CopyThrow, CopyDone, LockTarget, DestroyElement, DestroyDone, PushOps, PopOps
  <2>3. pc'[t] \in {"locked", "act", "expired"} /\ call' = call
    BY <1>a, <2>2 DEF Reacquire, Lock, Proceed, Goto
  <2> QED  BY <2>1, <2>3 DEF Awake
<1>4. /\ Awake(PopOps, q) \subseteq Awake(PopOps, q)'
      /\ Awake(PushOps, q) \subseteq Awake(PushOps, q)'
  BY <1>3, OthersAwake
<1> QED  BY <1>2, <1>4, WakesKept

\* What a step may lose of the wakeups of a queue.
LEMMA LossStep ==
    ASSUME Inv, NEW t \in Threads, Step(t) \/ SpuriousWake(t), NEW q \in Queues,
           NEW n \in Nat, NEW m \in Nat, WakesBut(q, n, m)
    PROVE  \/ WakesBut(q, n, m)'
           \/ /\ Throws /\ pc[t] = "act" /\ pc'[t] = "idle" /\ call[t].q = q /\ ret'[t] = Threw
              /\ WakesBut(q, n + 1, m)' \/ WakesBut(q, n, m + 1)'
           \/ /\ ExchangeLoses(t, q)
              /\ call[t] \in Calls[t] /\ q \in Exchanged(call[t])
<1>1. CASE Push(t) \/ Pop(t) \/ Wait(t) \/ Refuse(t)
  BY <1>1, PushWakes, PopWakes, IdleWakes
<1>2. CASE ThrowElement(t)
  BY <1>2, ThrowWakes
<1>3. CASE ~Push(t) /\ ~Pop(t) /\ body'[q] # body[q]
  BY <1>3, ContentStep
<1> QED  BY <1>1, <1>2, <1>3, OtherWakes

\* A step loses no wakeup of any queue: of one that is waited on by the lemmas
\* above, of another one because nobody waits there.
LEMMA WakeStep ==
    ASSUME Inv, Inv', ~Throws, ExchangesApart, BlockingWait', NoLostWakeup,
           NEW t \in Threads, Step(t) \/ SpuriousWake(t)
    PROVE  NoLostWakeup'
<1>1. SUFFICES ASSUME NEW q \in Queues PROVE WakesBut(q, 0, 0)'
  <2>1. \A q \in Queues : /\ Cardinality(Awake(PopOps, q))' \in Nat
                          /\ Cardinality(Awake(PushOps, q))' \in Nat
    BY AwakeCounts
  <2> QED  BY <2>1 DEF NoLostWakeup, WakesBut
<1>2. WakesBut(q, 0, 0)
  <2>1. Cardinality(Awake(PopOps, q)) \in Nat /\ Cardinality(Awake(PushOps, q)) \in Nat
    BY AwakeCounts
  <2> QED  BY <2>1 DEF NoLostWakeup, WakesBut
<1>3. CASE q \in WaitedOn
  BY <1>2, <1>3, LossStep DEF ExchangesApart
<1>4. CASE q \notin WaitedOn
  <2>1. ASSUME NEW u \in Threads, pc'[u] = "wait", call'[u].q = q
        PROVE  FALSE
    <3>1. call'[u] \in Calls[u]
      BY <2>1 DEF Inv, TypeOK, ThreadOK
    <3> QED  BY <1>4, <2>1, <3>1 DEF BlockingWait, WaitedOn
  <2>2. notEmpty'[q] = {} /\ notFull'[q] = {}
    BY <2>1 DEF Inv, WaitSets, TypeOK
  <2> QED  BY <2>2 DEF WakesBut
<1> QED  BY <1>3, <1>4

\* If elements can be copied and moved without an exception, and no queue that
\* is waited on is swapped, assigned to or moved from, then notify_one() after
\* each push and pop is enough: whatever races, times out or wakes spuriously,
\* waiting consumers never outnumber those awake for the elements there are, nor
\* producers those for the room.  MCBoundedQueueThrowWakes and
\* MCBoundedQueueSwapWakes show that neither hypothesis can be dropped.
THEOREM WakeupsKept ==
    ASSUME ~Throws, ExchangesApart
    PROVE  Spec => []NoLostWakeup
<1>1. Init => BlockingWait /\ NoLostWakeup
  BY DEF Init, BlockingWait, NoLostWakeup
<1>2. Inv /\ BlockingWait /\ [Next]_vars => BlockingWait'
  <2>1. ASSUME BlockingWait, UNCHANGED vars
        PROVE  BlockingWait'
    BY <2>1 DEF BlockingWait, vars
  <2> QED  BY <2>1, BlockingStep DEF Next, Rest
<1>3. Inv /\ Inv' /\ BlockingWait' /\ NoLostWakeup /\ [Next]_vars => NoLostWakeup'
  <2>1. ASSUME NoLostWakeup, UNCHANGED vars
        PROVE  NoLostWakeup'
    BY <2>1 DEF NoLostWakeup, Awake, vars, waiting
  <2> QED  BY <2>1, WakeStep DEF Next, Rest
<1> QED  BY <1>1, <1>2, <1>3, InvHolds, PTL DEF Spec

\* Counting what exceeds is the same as allowing for it.
LEMMA ExcessIs ==
    ASSUME NEW s \in Int, NEW a \in Nat
    PROVE  /\ Excess(s, a) \in Nat
           /\ \A n \in Nat : Excess(s, a) <= n <=> s <= a + n
  BY DEF Excess

\* The wakeups that are missing, before and after a step.
LEMMA LostIs ==
    ASSUME TypeOK, TypeOK', NEW q \in Queues
    PROVE  /\ LostPops(q) \in Nat /\ LostPushes(q) \in Nat
           /\ LostPops(q)' \in Nat /\ LostPushes(q)' \in Nat
           /\ \A n, m \in Nat :
                /\ WakesBut(q, n, m) <=> LostPops(q) <= n /\ LostPushes(q) <= m
                /\ WakesBut(q, n, m)' <=> LostPops(q)' <= n /\ LostPushes(q)' <= m
<1> DEFINE pops == Cardinality(Awake(PopOps, q))
           pushes == Cardinality(Awake(PushOps, q))
           room == body[q].capacity - body[q].size
<1>1. /\ body[q].size \in Int /\ room \in Int /\ body'[q].size \in Int /\ room' \in Int
  BY BodyNumbers DEF TypeOK
<1>2. pops \in Nat /\ pops' \in Nat /\ pushes \in Nat /\ pushes' \in Nat
  BY AwakeCounts
<1>3. /\ LostPops(q) = IF notEmpty[q] = {} THEN 0 ELSE Excess(body[q].size, pops)
      /\ LostPushes(q) = IF notFull[q] = {} THEN 0 ELSE Excess(room, pushes)
      /\ LostPops(q)' = IF notEmpty'[q] = {} THEN 0 ELSE Excess(body'[q].size, pops')
      /\ LostPushes(q)' = IF notFull'[q] = {} THEN 0 ELSE Excess(room', pushes')
  BY DEF LostPops, LostPushes
<1>4. \A n, m \in Nat :
        /\ WakesBut(q, n, m) <=> /\ notEmpty[q] # {} => body[q].size <= pops + n
                                 /\ notFull[q] # {} => room <= pushes + m
        /\ WakesBut(q, n, m)' <=> /\ notEmpty'[q] # {} => body'[q].size <= pops' + n
                                  /\ notFull'[q] # {} => room' <= pushes' + m
  BY DEF WakesBut
<1>5. /\ Excess(body[q].size, pops) \in Nat /\ Excess(room, pushes) \in Nat
      /\ Excess(body'[q].size, pops') \in Nat /\ Excess(room', pushes') \in Nat
      /\ \A n \in Nat : /\ Excess(body[q].size, pops) <= n <=> body[q].size <= pops + n
                        /\ Excess(room, pushes) <= n <=> room <= pushes + n
                        /\ Excess(body'[q].size, pops') <= n <=> body'[q].size <= pops' + n
                        /\ Excess(room', pushes') <= n <=> room' <= pushes' + n
  BY <1>1, <1>2, ExcessIs
<1> HIDE DEF pops, pushes, room
<1>6. ASSUME NEW n \in Nat, NEW m \in Nat
      PROVE  /\ WakesBut(q, n, m) <=> LostPops(q) <= n /\ LostPushes(q) <= m
             /\ WakesBut(q, n, m)' <=> LostPops(q)' <= n /\ LostPushes(q)' <= m
  <2>1. LostPops(q) <= n <=> (notEmpty[q] # {} => body[q].size <= pops + n)
    BY <1>3, <1>5
  <2>2. LostPushes(q) <= m <=> (notFull[q] # {} => room <= pushes + m)
    BY <1>3, <1>5
  <2>3. LostPops(q)' <= n <=> (notEmpty'[q] # {} => body'[q].size <= pops' + n)
    BY <1>3, <1>5
  <2>4. LostPushes(q)' <= m <=> (notFull'[q] # {} => room' <= pushes' + m)
    BY <1>3, <1>5
  <2> QED  BY <1>4, <2>1, <2>2, <2>3, <2>4
<1> QED  BY <1>3, <1>5, <1>6

\* Whatever calls race and whatever throws, a wakeup is lost only by an exception
\* from an element, one by each, or by an exchange of a queue's content.
THEOREM WakeupsLostKnown == Spec => OnlyThrowsAndExchangesLoseWakeups
<1>1. ASSUME Inv, Inv', [Next]_vars
      PROVE  [\A q \in Queues :
                 \/ LostPops(q)' <= LostPops(q) /\ LostPushes(q)' <= LostPushes(q)
                 \/ \E t \in Threads : ThrowLoses(t, q) \/ ExchangeLoses(t, q)]_vars
  <2>1. SUFFICES ASSUME NEW t \in Threads, Step(t) \/ SpuriousWake(t), NEW q \in Queues
                 PROVE  \/ LostPops(q)' <= LostPops(q) /\ LostPushes(q)' <= LostPushes(q)
                        \/ ThrowLoses(t, q) \/ ExchangeLoses(t, q)
    BY <1>1 DEF Next, Rest
  <2>2. PICK n \in Nat, m \in Nat : n = LostPops(q) /\ m = LostPushes(q)
    BY <1>1, LostIs DEF Inv
  <2>3. WakesBut(q, n, m)
    BY <1>1, <2>2, LostIs DEF Inv
  <2>4. CASE WakesBut(q, n, m)'
    BY <1>1, <2>2, <2>4, LostIs DEF Inv
  <2>5. CASE /\ pc[t] = "act" /\ pc'[t] = "idle" /\ call[t].q = q /\ ret'[t] = Threw
             /\ WakesBut(q, n + 1, m)' \/ WakesBut(q, n, m + 1)'
    <3>1. /\ LostPops(q)' \in Nat /\ LostPushes(q)' \in Nat
          /\ LostPops(q)' <= n + 1 /\ LostPushes(q)' <= m + 1
          /\ LostPops(q)' <= n \/ LostPushes(q)' <= m
      BY <1>1, <2>5, LostIs DEF Inv
    <3>2. (LostPops(q) + LostPushes(q))' <= LostPops(q) + LostPushes(q) + 1
      BY <2>2, <3>1
    <3> QED  BY <2>5, <3>2 DEF ThrowLoses
  <2> QED  BY <1>1, <2>1, <2>3, <2>4, <2>5, LossStep
<1> QED  BY <1>1, InvHolds, PTL DEF Spec, OnlyThrowsAndExchangesLoseWakeups
=============================================================================
