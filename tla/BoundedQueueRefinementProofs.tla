-------------------- MODULE BoundedQueueRefinementProofs --------------------
(***************************************************************************)
(* BoundedQueue implements FifoQueues, for any threads, queues, calls and  *)
(* capacity: every step of the implementation is one of the abstract       *)
(* queues, or changes nothing that a client sees.                          *)
(***************************************************************************)
EXTENDS BoundedQueueRefinement, BoundedQueueProofs

\* The local object of a move starts without elements, and keeps none until it
\* has been swapped.
MoveEmpty == \A t \in Threads : pc[t] = "source" /\ call[t].op = "move_ctor" => Empty(tmp[t])

\* Only an operation that has a deadline misses it.
DeadlineMissed == \A t \in Threads : pc[t] \in {"timedout", "expired"} => call[t].op \in Timed

\* What the refinement mapping needs to know of a reachable state.
RefInv == /\ Inv /\ QueuesUnwrapped /\ LocalUnpopped /\ CapacityKnown /\ RingIntact
          /\ FreshEmpty /\ CopyIsPrefix /\ MoveEmpty /\ DeadlineMissed

\* Only LockSource takes a thread to its source, and only Timeout past its
\* deadline.
LEMMA PlacesStep ==
    ASSUME RefInv, NEW t \in Threads, Step(t) \/ SpuriousWake(t)
    PROVE  MoveEmpty' /\ DeadlineMissed'
<1> USE DEF RefInv, Inv
<1> DEFINE Move(u) == pc[u] = "source" /\ call[u].op = "move_ctor" => Empty(tmp[u])
           Late(u) == pc[u] \in {"timedout", "expired"} => call[u].op \in Timed
<1>1. ASSUME NEW u \in Threads \ {t}
      PROVE  Move(u)' /\ Late(u)'
  BY NonInterference DEF MoveEmpty, DeadlineMissed
<1>2. Move(t)' /\ Late(t)'
  <2>1. t \in DOMAIN pc
    BY DEF TypeOK
  <2>2. CASE LockSource(t)
    BY <2>1, <2>2 DEF LockSource, Lock, Goto, FreshEmpty, Empty
  <2>3. CASE Reacquire(t) \/ Timeout(t)
    BY <2>1, <2>3 DEF Reacquire, Timeout, StopWaiting, Lock, Goto, DeadlineMissed
  <2>4. CASE Push(t) \/ Pop(t)
    BY <2>4 DEF Push, Pop, LeaveAndWake
  <2>5. CASE CopyElement(t)
    BY <2>5 DEF CopyElement, Copying, CopyOps
  <2>6. CASE \/ Invoke(t) \/ Acquire(t) \/ Proceed(t) \/ Refuse(t) \/ Wait(t)
             \/ SpuriousWake(t) \/ ThrowElement(t) \/ Observe(t) \/ SelfCall(t)
             \/ LockFirst(t) \/ LockOther(t) \/ BackOff(t) \/ SwapMembers(t) \/ ReadCapacity(t)
             \/ CopyThrow(t) \/ CopyDone(t) \/ MoveOut(t) \/ LockTarget(t) \/ Install(t)
             \/ DestroyElement(t) \/ DestroyDone(t)
    <3>1. pc'[t] \notin {"source", "timedout", "expired"}
      BY <2>1, <2>6 DEF Invoke, MakeCall, Acquire, Lock, Proceed, Refuse, Wait, SpuriousWake,
         StopWaiting, ThrowElement, Observe, SelfCall, LockFirst, LockOther, BackOff,
         SwapMembers, ReadCapacity, CopyThrow, CopyDone, MoveOut, LockTarget, Install, Exchange,
         DestroyElement, DestroyDone, Leave, Goto
    <3> QED  BY <3>1
  <2> QED  BY <2>2, <2>3, <2>4, <2>5, <2>6 DEF Step
<1> QED  BY <1>1, <1>2 DEF MoveEmpty, DeadlineMissed

-----------------------------------------------------------------------------
\* The refinement mapping.

\* QueueBodyProofs' facts on contents, for a queue of the system.
LEMMA ContentsOf ==
    ASSUME NEW b, IsBody(b), RingOK(b)
    PROVE  /\ Contents(b) \in Seq(Values) /\ Len(Contents(b)) = b.size
           /\ \A i \in 1..b.size : Contents(b)[i] = At(b, i - 1)
           /\ Contents(b) = <<>> <=> Empty(b)
           /\ b.size \in Nat /\ b.capacity \in Capacities /\ b.capacity \in Nat
           /\ b.size <= b.capacity
<1> PICK c \in Capacities : b \in BodyOf(c)
  BY DEF IsBody
<1>1. c \in Nat \ {0} /\ b.capacity = c
  BY CapacityAssumption, SizeModAssumption DEF BodyOf, Capacities
<1> QED  BY <1>1, ContentsType DEF BodyOf, RingOK

\* A step of t maps to one that concerns no other thread's call or snapshot.
LEMMA OthersKept ==
    ASSUME Inv, NEW t \in Threads, Step(t) \/ SpuriousWake(t)
    PROVE  /\ absSnap' = [absSnap EXCEPT ![t] = absSnap'[t]]
           /\ absCall' = [absCall EXCEPT ![t] = absCall'[t]]
<1>1. ASSUME NEW u \in Threads \ {t}
      PROVE  absSnap'[u] = absSnap[u] /\ absCall'[u] = absCall[u]
  BY NonInterference DEF absSnap, absCall, Snapshot
<1> QED  BY <1>1 DEF absSnap, absCall

\* What a step that leaves all bodies alone leaves alone.
LEMMA BodiesKept ==
    ASSUME body' = body
    PROVE  absContent' = absContent /\ absCapacity' = absCapacity
  BY DEF absContent, absCapacity

\* Outside a copy assignment there is no snapshot.
LEMMA NoSnap ==
    ASSUME Inv, NEW t \in Threads, pc[t] \notin {"copied", "target"},
           pc'[t] \notin {"copied", "target"}, Step(t) \/ SpuriousWake(t)
    PROVE  absSnap' = absSnap /\ absSnap[t] = None
<1>1. absSnap[t] = None /\ absSnap'[t] = None
  BY DEF absSnap
<1> QED  BY <1>1, OthersKept DEF absSnap

\* A step after which t is not in its call any more, or only has a local object
\* left to destroy, maps to a return.
LEMMA Returns ==
    ASSUME Inv, NEW t \in Threads, Step(t) \/ SpuriousWake(t),
           pc'[t] = "destroy" \/ call'[t] = None, NEW st, NEW val,
           ret' = [ret EXCEPT ![t] = Result(st, val)]
    PROVE  Fifo!Return(t, st, val)
<1>1. absCall'[t] = None
  BY DEF absCall
<1> QED  BY <1>1, OthersKept DEF Fifo!Return, Fifo!Result, Result

\* A thread that is in its call is in the same one abstractly.
LEMMA SameCall ==
    ASSUME NEW t \in Threads, pc[t] # "destroy", Inv
    PROVE  /\ absCall[t] = call[t]
           /\ pc[t] # "idle" =>
                \A ops : Fifo!In(t, ops) <=> call[t].op \in ops
<1>1. absCall[t] = call[t]
  BY DEF absCall
<1>2. pc[t] # "idle" => call[t] # None
  BY CallTypes DEF Inv
<1> QED  BY <1>1, <1>2 DEF Fifo!In

-----------------------------------------------------------------------------
\* The steps that change nothing abstract.
LEMMA Stutters ==
    ASSUME RefInv, NEW t \in Threads,
           \/ Acquire(t) \/ Reacquire(t) \/ Proceed(t) \/ Wait(t) \/ Timeout(t)
           \/ SpuriousWake(t) \/ LockFirst(t) \/ LockOther(t) \/ BackOff(t) \/ ReadCapacity(t)
           \/ LockSource(t) \/ CopyElement(t) \/ LockTarget(t) \/ DestroyElement(t)
           \/ DestroyDone(t)
    PROVE  UNCHANGED Fifo!vars
<1> USE DEF RefInv, Inv
<1>1. Step(t) \/ SpuriousWake(t)
  BY DEF Step
<1>2. body' = body /\ ret' = ret /\ t \in DOMAIN pc /\ t \in DOMAIN call
  BY DEF TypeOK, Acquire, Reacquire, Lock, Proceed, Wait, Timeout, SpuriousWake, StopWaiting,
     LockFirst, LockOther, BackOff, ReadCapacity, LockSource, CopyElement, LockTarget,
     DestroyElement, DestroyDone
<1>3. absCall'[t] = absCall[t] /\ absSnap'[t] = absSnap[t]
  <2>1. CASE DestroyDone(t)
    BY <1>2, <2>1 DEF DestroyDone, Goto, absCall, absSnap
  <2>2. CASE ~DestroyDone(t)
    BY <1>2, <2>2 DEF Acquire, Reacquire, Lock, Proceed, Wait, Timeout, SpuriousWake,
       StopWaiting, LockFirst, LockOther, BackOff, ReadCapacity, LockSource, CopyElement,
       Copying, LockTarget, DestroyElement, Goto, absCall, absSnap, Snapshot
  <2> QED  BY <2>1, <2>2
<1>4. /\ absSnap' = [absSnap EXCEPT ![t] = absSnap'[t]]
      /\ absCall' = [absCall EXCEPT ![t] = absCall'[t]]
  BY <1>1, OthersKept
<1> HIDE DEF RefInv, Inv
<1>5. absCall' = absCall
  BY <1>3, <1>4 DEF absCall
<1>6. absSnap' = absSnap
  BY <1>3, <1>4 DEF absSnap
<1> QED  BY <1>2, <1>5, <1>6, BodiesKept DEF Fifo!vars

-----------------------------------------------------------------------------
\* The steps that a client sees.

\* A call begins.
LEMMA InvokeMaps ==
    ASSUME RefInv, NEW t \in Threads, Invoke(t)
    PROVE  Fifo!Invoke(t)
<1> USE DEF RefInv, Inv
<1>1. PICK c \in Calls[t] : MakeCall(t, c)
  BY DEF Invoke
<1>2. t \in DOMAIN pc /\ t \in DOMAIN call /\ call[t] = None
  BY <1>1 DEF TypeOK, ThreadOK, MakeCall
<1>3. absCall[t] = None /\ absCall'[t] = c /\ body' = body
      /\ ret' = [ret EXCEPT ![t] = Result("pending", <<>>)]
  BY <1>1, <1>2 DEF MakeCall, Goto, absCall, Pending
<1>4. pc[t] = "idle" /\ pc'[t] = "start"
  BY <1>1, <1>2 DEF MakeCall, Goto
<1> QED  BY <1>3, <1>4, OthersKept, NoSnap, BodiesKept DEF Fifo!Invoke, Fifo!Result, Result, Step

\* The construction of an element at the end, by any push that found room.
LEMMA PushMaps ==
    ASSUME RefInv, NEW t \in Threads, Push(t)
    PROVE  Fifo!Push(t)
<1> USE DEF RefInv, Inv
<1> DEFINE q == call[t].q
           v == Passed(call[t])
<1>1. /\ pc[t] = "act" /\ call[t].op \in PushOps /\ q \in Queues /\ v \in Values
      /\ pc'[t] = "idle" /\ call'[t] = None
      /\ ret' = [ret EXCEPT ![t] = Result("ok", <<>>)]
      /\ body' = [body EXCEPT ![q] = Construct(@, v)]
      /\ Step(t)
  BY CallTypes, PassedType DEF Push, LeaveAndWake, Return, Ok, TypeOK, Step
<1>2. IsBody(body[q]) /\ RingOK(body[q]) /\ ~Full(body[q]) /\ DOMAIN body = Queues
  BY <1>1 DEF TypeOK, RingIntact, PredicateStillHolds, Ready
<1>3. PICK c \in Capacities : body[q] \in BodyOf(c)
  BY <1>2 DEF IsBody
<1>4. /\ Contents(Construct(body[q], v)) = Append(Contents(body[q]), v)
      /\ Construct(body[q], v).capacity = body[q].capacity
  <2>1. c \in Nat \ {0} /\ body[q].capacity = c /\ body[q].size < c
    BY <1>2, <1>3, CapacityAssumption, SizeModAssumption DEF BodyOf, Capacities, RingOK, Full
  <2>2. Unbroken(Construct(body[q], v))
    BY <1>1, <1>3, <2>1, UnwrappedConstruct DEF QueuesUnwrapped
  <2> QED  BY <1>1, <1>2, <1>3, <2>1, <2>2, ContentsConstruct, BodyNumbers
<1>5. /\ absContent' = [absContent EXCEPT ![q] = Append(@, v)]
      /\ absCapacity' = absCapacity
  BY <1>1, <1>2, <1>4 DEF absContent, absCapacity
<1>6. Len(absContent[q]) < absCapacity[q]
  BY <1>1, <1>2, ContentsOf DEF absContent, absCapacity, Full
<1>7. /\ Fifo!Return(t, "ok", <<>>) /\ absSnap' = absSnap
      /\ absCall[t] = call[t] /\ Fifo!In(t, PushOps)
  BY <1>1, Returns, NoSnap, SameCall
<1> QED  BY <1>5, <1>6, <1>7 DEF Fifo!Push, Fifo!Passed, Passed, PushOps

\* The destruction of the first element, by any pop that found one.
LEMMA PopMaps ==
    ASSUME RefInv, NEW t \in Threads, Pop(t)
    PROVE  Fifo!Pop(t)
<1> USE DEF RefInv, Inv
<1> DEFINE q == call[t].q
<1>1. /\ pc[t] = "act" /\ call[t].op \in PopOps /\ q \in Queues
      /\ pc'[t] = "idle" /\ call'[t] = None
      /\ ret' = [ret EXCEPT ![t] = Result("ok", <<Moved(At(body[q], 0))>>)]
      /\ body' = [body EXCEPT ![q] = Destroy(@)]
      /\ Step(t)
  BY CallTypes DEF Pop, LeaveAndWake, Return, Ok, TypeOK, Step
<1>2. IsBody(body[q]) /\ RingOK(body[q]) /\ ~Empty(body[q]) /\ DOMAIN body = Queues
  BY <1>1 DEF TypeOK, RingIntact, PredicateStillHolds, Ready, PushOps, PopOps
<1>3. PICK c \in Capacities : body[q] \in BodyOf(c)
  BY <1>2 DEF IsBody
<1>4. /\ Contents(body[q]) # <<>> /\ Head(Contents(body[q])) = At(body[q], 0)
      /\ Contents(Destroy(body[q])) = Tail(Contents(body[q]))
      /\ Destroy(body[q]).capacity = body[q].capacity
  BY <1>1, <1>2, <1>3, ContentsDestroy, BodyNumbers
<1>5. /\ absContent' = [absContent EXCEPT ![q] = Tail(@)]
      /\ absCapacity' = absCapacity /\ absContent[q] = Contents(body[q])
  BY <1>1, <1>2, <1>4 DEF absContent, absCapacity
<1>7. /\ Fifo!Return(t, "ok", <<Moved(At(body[q], 0))>>) /\ absSnap' = absSnap
      /\ absCall[t] = call[t] /\ Fifo!In(t, PopOps)
  BY <1>1, Returns, NoSnap, SameCall
<1> QED  BY <1>4, <1>5, <1>7 DEF Fifo!Pop, PopOps

\* A refusal tells the truth about the queue at the moment it is decided.
LEMMA RefuseMaps ==
    ASSUME RefInv, NEW t \in Threads, Refuse(t)
    PROVE  Fifo!PushRefused(t) \/ Fifo!PopRefused(t)
<1> USE DEF RefInv, Inv
<1> DEFINE q == call[t].q
<1>1. /\ pc[t] \in {"locked", "expired"} /\ q \in Queues /\ ~Ready(call[t])
      /\ call[t].op \in Timed \cup Immediate
      /\ pc'[t] = "idle" /\ call'[t] = None
      /\ ret' = [ret EXCEPT ![t] = Result("refused", <<>>)]
      /\ body' = body /\ Step(t)
  BY CallTypes DEF Refuse, Leave, Return, Goto, Refused, TypeOK, Step, DeadlineMissed
<1>2. IsBody(body[q]) /\ RingOK(body[q])
  BY <1>1 DEF TypeOK, RingIntact
<1>3. /\ absContent[q] = Contents(body[q]) /\ absCapacity[q] = body[q].capacity
      /\ Len(absContent[q]) = body[q].size
      /\ absContent[q] = <<>> <=> Empty(body[q])
  BY <1>1, <1>2, ContentsOf DEF absContent, absCapacity
<1>4. /\ Fifo!Return(t, "refused", <<>>) /\ absSnap' = absSnap
      /\ absCall[t] = call[t] /\ \A ops : Fifo!In(t, ops) <=> call[t].op \in ops
  BY <1>1, Returns, NoSnap, SameCall
<1>5. CASE call[t].op \in PushOps
  <2>1. call[t].op \in {"try_push", "try_push_for"} /\ Full(body[q])
    BY <1>1, <1>5 DEF Ready, Timed, Immediate, PushOps
  <2>2. Len(absContent[q]) = absCapacity[q]
    BY <1>3, <2>1 DEF Full
  <2>3. Fifo!In(t, {"try_push", "try_push_for"})
    BY <1>4, <2>1
  <2> QED  BY <1>1, <1>4, <2>2, <2>3, BodiesKept DEF Fifo!PushRefused
<1>6. CASE call[t].op \notin PushOps
  <2>1. Fifo!In(t, {"try_pop", "try_pop_for"}) /\ absContent[q] = <<>>
    BY <1>1, <1>3, <1>4, <1>6 DEF Ready, Timed, Immediate, PushOps
  <2> QED  BY <1>1, <1>4, <2>1, BodiesKept DEF Fifo!PopRefused
<1> QED  BY <1>5, <1>6

\* empty(), full() and size() tell of one state of the queue.
LEMMA ObserveMaps ==
    ASSUME RefInv, NEW t \in Threads, Observe(t)
    PROVE  Fifo!Observe(t)
<1> USE DEF RefInv, Inv
<1> DEFINE q == call[t].q
           b == body[q]
<1>1. /\ pc[t] = "locked" /\ q \in Queues /\ call[t].op = "observe"
      /\ pc'[t] = "idle" /\ call'[t] = None
      /\ ret' = [ret EXCEPT ![t] = Result("ok", <<Empty(b), Full(b), b.size>>)]
      /\ body' = body /\ Step(t)
  BY CallTypes DEF Observe, Leave, Return, Goto, Ok, TypeOK, Step
<1>2. IsBody(b) /\ RingOK(b)
  BY <1>1 DEF TypeOK, RingIntact
<1>3. /\ absContent[q] = Contents(b) /\ absCapacity[q] = b.capacity
      /\ Len(absContent[q]) = b.size
  BY <1>1, <1>2, ContentsOf DEF absContent, absCapacity
<1>4. /\ Fifo!Return(t, "ok", <<Empty(b), Full(b), b.size>>) /\ absSnap' = absSnap
      /\ absCall[t] = call[t] /\ Fifo!In(t, {"observe"})
  BY <1>1, Returns, NoSnap, SameCall
<1> QED  BY <1>1, <1>3, <1>4, BodiesKept DEF Fifo!Observe, Empty, Full

\* swap() and move assignment of two queues.
LEMMA SwapMaps ==
    ASSUME RefInv, NEW t \in Threads, SwapMembers(t)
    PROVE  Fifo!Swap(t)
<1> USE DEF RefInv, Inv
<1> DEFINE q == call[t].q
           r == call[t].rhs
<1>1. /\ pc[t] = "swap" /\ call[t].op \in SwapOps /\ q \in Queues /\ r \in Queues
      /\ pc'[t] = "idle" /\ call'[t] = None /\ DOMAIN body = Queues
      /\ ret' = [ret EXCEPT ![t] = Result("ok", <<>>)]
      /\ body' = [body EXCEPT ![q] = body[r], ![r] = body[q]] /\ Step(t)
  BY CallTypes DEF SwapMembers, Return, Goto, Ok, TypeOK, Step, PlaceFitsCall
<1>2. /\ absContent' = [absContent EXCEPT ![q] = absContent[r], ![r] = absContent[q]]
      /\ absCapacity' = [absCapacity EXCEPT ![q] = absCapacity[r], ![r] = absCapacity[q]]
  BY <1>1 DEF absContent, absCapacity
<1>3. /\ Fifo!Return(t, "ok", <<>>) /\ absSnap' = absSnap
      /\ absCall[t] = call[t] /\ Fifo!In(t, SwapOps)
  BY <1>1, Returns, NoSnap, SameCall
<1> QED  BY <1>2, <1>3 DEF Fifo!Swap, SwapOps

\* The early return for this == &rhs.
LEMMA SelfCallMaps ==
    ASSUME RefInv, NEW t \in Threads, SelfCall(t)
    PROVE  Fifo!Swap(t) \/ Fifo!AssignSelf(t)
<1> USE DEF RefInv, Inv
<1>1. /\ pc[t] = "start" /\ call[t].op \in SwapOps \cup {"copy_assign"}
      /\ call[t].q = call[t].rhs /\ call[t].q \in Queues
      /\ pc'[t] = "idle" /\ call'[t] = None /\ body' = body
      /\ ret' = [ret EXCEPT ![t] = Result("ok", <<>>)] /\ Step(t)
  BY CallTypes DEF SelfCall, Return, Goto, Ok, TypeOK, Step
<1>2. /\ absContent' = absContent /\ absCapacity' = absCapacity
      /\ Fifo!Return(t, "ok", <<>>) /\ absSnap' = absSnap
      /\ absCall[t] = call[t] /\ \A ops : Fifo!In(t, ops) <=> call[t].op \in ops
  BY <1>1, Returns, NoSnap, SameCall, BodiesKept
<1>3. /\ absContent = [absContent EXCEPT ![call[t].q] = absContent[call[t].q]]
      /\ absCapacity = [absCapacity EXCEPT ![call[t].q] = absCapacity[call[t].q]]
  BY <1>1 DEF absContent, absCapacity
<1> QED  BY <1>1, <1>2, <1>3 DEF Fifo!Swap, Fifo!AssignSelf, SwapOps

\* The end of a copy: the snapshot of a copy assignment is made, a copy
\* constructor returns.
LEMMA CopyDoneMaps ==
    ASSUME RefInv, NEW t \in Threads, CopyDone(t)
    PROVE  Fifo!Copy(t) \/ Fifo!CopyConstruct(t)
<1> USE DEF RefInv, Inv
<1> DEFINE r == call[t].rhs
           s == Contents(body[r])
<1>1. /\ pc[t] = "source" /\ call[t].op \in CopyOps /\ r \in Queues /\ ~Copying(t)
      /\ call[t].op = "copy_assign" => call[t].q # r
      /\ body' = body /\ tmp' = tmp /\ Step(t)
      /\ t \in DOMAIN pc /\ t \in DOMAIN call /\ t \in DOMAIN ret
  BY CallTypes DEF CopyDone, CopyOps, Constructing, TypeOK, Step, PlaceFitsCall
<1>2. IsBody(body[r]) /\ RingOK(body[r]) /\ IsBody(tmp[t]) /\ RingOK(tmp[t])
  BY <1>1 DEF TypeOK, ThreadOK, Building, RingIntact
<1>3. /\ tmp[t].size = body[r].size
      /\ \A i \in 0..tmp[t].size - 1 : At(tmp[t], i) = Copied(At(body[r], i))
  <2>1. tmp[t].size \in Nat /\ body[r].size \in Nat
    BY <1>2, ContentsOf
  <2> QED  BY <1>1, <2>1 DEF CopyIsPrefix, Copying
<1>4. Snapshot(tmp[t]) = <<Fifo!Copies(absContent[r]), absCapacity[r]>>
  <2>1. tmp[t].capacity = body[r].capacity
    BY <1>1 DEF CapacityKnown
  <2>2. /\ DOMAIN s = 1..body[r].size /\ body[r].size \in Nat
        /\ \A i \in 1..body[r].size : s[i] = At(body[r], i - 1)
    BY <1>2, ContentsOf DEF Contents
  <2>3. ASSUME NEW i \in 1..body[r].size
        PROVE  At(tmp[t], i - 1) = Copied(s[i])
    <3>1. i - 1 \in 0..tmp[t].size - 1
      BY <1>3, <2>2
    <3> QED  BY <1>3, <2>2, <3>1
  <2>4. Contents(tmp[t]) = [i \in DOMAIN s |-> Copied(s[i])]
    BY <1>3, <2>2, <2>3 DEF Contents
  <2>5. absContent[r] = s /\ absCapacity[r] = body[r].capacity
    BY <1>1 DEF absContent, absCapacity
  <2> QED  BY <2>1, <2>4, <2>5 DEF Snapshot, Fifo!Copies
<1>5. /\ absCall[t] = call[t] /\ \A ops : Fifo!In(t, ops) <=> call[t].op \in ops
  BY <1>1, SameCall
<1>6. CASE call[t].op = "copy_assign"
  <2>1. pc'[t] = "copied" /\ ret' = ret /\ call' = call
    BY <1>1, <1>6 DEF CopyDone, Goto
  <2>2. absSnap[t] = None /\ absSnap'[t] = Snapshot(tmp[t]) /\ absCall'[t] = absCall[t]
    BY <1>1, <2>1 DEF absSnap, absCall
  <2>3. absCall' = absCall /\ absSnap' = [absSnap EXCEPT ![t] = Snapshot(tmp[t])]
    BY <1>1, <2>2, OthersKept DEF absCall
  <2> QED  BY <1>1, <1>4, <1>5, <1>6, <2>1, <2>2, <2>3, BodiesKept DEF Fifo!Copy
<1>7. CASE call[t].op = "copy_ctor"
  <2>1. pc'[t] = "destroy" /\ ret' = [ret EXCEPT ![t] = Result("ok", Snapshot(tmp[t]))]
    BY <1>1, <1>7 DEF CopyDone, Goto, Ok
  <2>2. Fifo!Return(t, "ok", Snapshot(tmp[t])) /\ absSnap' = absSnap
    BY <1>1, <2>1, Returns, NoSnap
  <2> QED  BY <1>1, <1>4, <1>5, <1>7, <2>2, BodiesKept DEF Fifo!CopyConstruct
<1> QED  BY <1>1, <1>6, <1>7 DEF CopyOps

\* The swap with the local object: a new queue has taken what its source had.
LEMMA MoveOutMaps ==
    ASSUME RefInv, NEW t \in Threads, MoveOut(t)
    PROVE  Fifo!MoveConstruct(t)
<1> USE DEF RefInv, Inv
<1> DEFINE r == call[t].rhs
<1>1. /\ pc[t] = "source" /\ call[t].op = "move_ctor" /\ r \in Queues
      /\ body' = [body EXCEPT ![r] = tmp[t]] /\ pc'[t] = "destroy" /\ DOMAIN body = Queues
      /\ ret' = [ret EXCEPT ![t] = Result("ok", Snapshot(body[r]))] /\ Step(t)
  BY CallTypes DEF MoveOut, Exchange, Goto, Ok, Constructing, TypeOK, Step
<1>2. IsBody(body[r]) /\ RingOK(body[r]) /\ IsBody(tmp[t]) /\ RingOK(tmp[t])
  BY <1>1 DEF TypeOK, ThreadOK, Building, RingIntact
<1>3. Contents(tmp[t]) = <<>> /\ tmp[t].capacity = body[r].capacity
  BY <1>1, <1>2, ContentsOf DEF MoveEmpty, CapacityKnown
<1>4. absContent' = [absContent EXCEPT ![r] = <<>>] /\ absCapacity' = absCapacity
  BY <1>1, <1>3 DEF absContent, absCapacity
<1>5. Snapshot(body[r]) = <<absContent[r], absCapacity[r]>>
  BY <1>1 DEF absContent, absCapacity, Snapshot
<1>6. /\ Fifo!Return(t, "ok", Snapshot(body[r])) /\ absSnap' = absSnap
      /\ absCall[t] = call[t] /\ Fifo!In(t, {"move_ctor"})
  BY <1>1, Returns, NoSnap, SameCall
<1> QED  BY <1>4, <1>5, <1>6 DEF Fifo!MoveConstruct

\* The swap of a copy assignment: the snapshot is the target's content.
LEMMA InstallMaps ==
    ASSUME RefInv, NEW t \in Threads, Install(t)
    PROVE  Fifo!Install(t)
<1> USE DEF RefInv, Inv
<1> DEFINE q == call[t].q
<1>1. /\ pc[t] = "target" /\ call[t].op = "copy_assign" /\ q \in Queues
      /\ body' = [body EXCEPT ![q] = tmp[t]] /\ pc'[t] = "destroy" /\ DOMAIN body = Queues
      /\ ret' = [ret EXCEPT ![t] = Result("ok", <<>>)] /\ Step(t)
  BY CallTypes DEF Install, Exchange, Goto, Ok, TypeOK, Step, PlaceFitsCall
<1>2. IsBody(tmp[t]) /\ RingOK(tmp[t])
  BY <1>1 DEF TypeOK, ThreadOK, Building, RingIntact
<1>3. /\ absSnap[t] = Snapshot(tmp[t]) /\ absSnap'[t] = None
      /\ absSnap[t][1] = Contents(tmp[t]) /\ absSnap[t][2] = tmp[t].capacity
  BY <1>1 DEF absSnap, Snapshot
<1>4. absSnap[t] # None
  BY <1>2, <1>3, ContentsOf, NoSnapshotAssumption DEF Snapshot
<1>5. /\ absContent' = [absContent EXCEPT ![q] = absSnap[t][1]]
      /\ absCapacity' = [absCapacity EXCEPT ![q] = absSnap[t][2]]
  BY <1>1, <1>3 DEF absContent, absCapacity
<1>6. /\ Fifo!Return(t, "ok", <<>>) /\ absSnap' = [absSnap EXCEPT ![t] = None]
      /\ absCall[t] = call[t] /\ Fifo!In(t, {"copy_assign"})
  BY <1>1, <1>3, Returns, OthersKept, SameCall
<1> QED  BY <1>4, <1>5, <1>6 DEF Fifo!Install

\* An exception leaves every queue as it was.
LEMMA ThrowMaps ==
    ASSUME RefInv, NEW t \in Threads, ThrowElement(t) \/ CopyThrow(t)
    PROVE  Fifo!Throw(t)
<1> USE DEF RefInv, Inv
<1>1. /\ pc[t] \in {"act", "source"} /\ call[t].op \in PushOps \cup PopOps \cup CopyOps
      /\ pc'[t] = "idle" /\ call'[t] = None /\ body' = body
      /\ ret' = [ret EXCEPT ![t] = Result("threw", <<>>)] /\ Step(t)
  BY DEF ThrowElement, CopyThrow, Copying, Leave, Return, Goto, Threw, TypeOK, Step,
     PlaceFitsCall
<1>2. /\ Fifo!Return(t, "threw", <<>>) /\ absSnap' = absSnap /\ absSnap[t] = None
      /\ absCall[t] = call[t] /\ \A ops : Fifo!In(t, ops) <=> call[t].op \in ops
  BY <1>1, Returns, NoSnap, SameCall
<1> QED  BY <1>1, <1>2, BodiesKept DEF Fifo!Throw, PushOps, PopOps, CopyOps

-----------------------------------------------------------------------------
\* Every step of a thread is one of the abstract queues, or a stutter.
LEMMA StepMaps ==
    ASSUME RefInv, NEW t \in Threads, Step(t) \/ SpuriousWake(t)
    PROVE  Fifo!Next \/ UNCHANGED Fifo!vars
  BY InvokeMaps, PushMaps, PopMaps, RefuseMaps, ObserveMaps, SwapMaps, SelfCallMaps, CopyDoneMaps,
     MoveOutMaps, InstallMaps, ThrowMaps, Stutters DEF Step, Fifo!Next

\* If the capacities divide 2^w, or the threads make fewer than about 2^w calls, and
\* no queue is given another's capacity while a different thread copies or moves it,
\* BoundedQueue promises what FifoQueues does: each member function that threads
\* call on shared queues takes effect at one instant of its call (copy assignment:
\* at two), in first-in first-out order, on every interleaving, timeout and exception.
THEOREM QueuesAreFifo ==
    ASSUME IndexesKept, CapacitiesKept
    PROVE  Spec => ImplementsFifoQueues
<1>1. Init => Fifo!Init
  <2> SUFFICES ASSUME Init PROVE Fifo!Init
    OBVIOUS
  <2>1. absContent = [q \in Queues |-> <<>>] /\ absCapacity = InitCapacity
    <3>1. \A q \in Queues : InitCapacity[q] \in Nat
      BY CapacityAssumption, SizeModAssumption
    <3>2. \A q \in Queues : Contents(body[q]) = <<>> /\ body[q].capacity = InitCapacity[q]
      BY <3>1, ContentsNew DEF Init, NewBody
    <3> QED  BY <3>2, CapacityAssumption DEF absContent, absCapacity
  <2>2. absSnap = [t \in Threads |-> None] /\ absCall = [t \in Threads |-> None]
    BY DEF Init, absSnap, absCall
  <2> QED  BY <2>1, <2>2 DEF Init, Fifo!Init, Fifo!Result, Pending, Result
<1>2. Init => FreshEmpty /\ CopyIsPrefix /\ MoveEmpty /\ DeadlineMissed
  BY DEF Init, FreshEmpty, CopyIsPrefix, MoveEmpty, DeadlineMissed
<1>3. RefInv /\ [Next]_vars => FreshEmpty' /\ CopyIsPrefix' /\ MoveEmpty' /\ DeadlineMissed'
  <2>1. ASSUME RefInv, UNCHANGED vars
        PROVE  FreshEmpty' /\ CopyIsPrefix' /\ MoveEmpty' /\ DeadlineMissed'
    BY <2>1 DEF RefInv, FreshEmpty, CopyIsPrefix, MoveEmpty, DeadlineMissed, vars
  <2> QED  BY <2>1, CopyStep, PlacesStep DEF RefInv, Next, Rest
<1>4. RefInv /\ [Next]_vars => [Fifo!Next]_Fifo!vars
  <2>1. UNCHANGED vars => UNCHANGED Fifo!vars
    BY DEF vars, Fifo!vars, absContent, absCapacity, absSnap, absCall, Snapshot
  <2> QED  BY <2>1, StepMaps DEF Next, Rest
<1>5. Spec => []RingIntact
  BY RingsIntact
<1>6. RefInv <=> /\ Inv /\ QueuesUnwrapped /\ LocalUnpopped /\ CapacityKnown /\ RingIntact
                 /\ FreshEmpty /\ CopyIsPrefix /\ MoveEmpty /\ DeadlineMissed
  BY DEF RefInv
<1> QED
  BY <1>1, <1>2, <1>3, <1>4, <1>5, <1>6, WrapFarOff, LocalsUnpopped, CapacitiesKnown, InvHolds,
     PTL
            DEF Spec, ImplementsFifoQueues, Fifo!Spec
=============================================================================
