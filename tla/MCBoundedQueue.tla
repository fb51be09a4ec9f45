--------------------------- MODULE MCBoundedQueue ---------------------------
(***************************************************************************)
(* Instances of BoundedQueueRefinement for TLC: which calls each thread of *)
(* a scenario may make, and how many.                                      *)
(***************************************************************************)
EXTENDS BoundedQueueRefinement, TLC

CONSTANTS p1, p2, c1, c2,   \* threads
          qa, qb,           \* queues
          x, y              \* elements

\* A copy is told from its original by its value; what is moved stays the same.
Twin(v) == CASE v = x -> y [] v = y -> x [] OTHER -> v
Same(v) == v

C(op, q, rhs, v) == [op |-> op, q |-> q, rhs |-> rhs, v |-> v]
Pushes(ops, q, v) == {C(op, q, None, v) : op \in ops}
Takes(ops, q) == {C(op, q, None, None) : op \in ops}
Both(ops, q, r) == {C(op, q, r, None) : op \in ops}

\* Producers and consumers in equal number, as in the multi-threaded tests; one
\* of each may have a deadline.
PipelineCalls == (p1 :> Pushes({"push"}, qa, x)) @@ (p2 :> Pushes({"push", "try_push_for"}, qa, y))
                 @@ (c1 :> Takes({"pop", "try_pop_for"}, qa)) @@ (c2 :> Takes({"pop"}, qa))
PipelineMax == [t \in Threads |-> 2]

\* Every operation on elements, with and without a deadline, while two consumers
\* or two producers may wait on a queue whose content and capacity are exchanged,
\* and whose elements may throw.
TimedCalls ==
    (p1 :> Pushes(PushOps \ {"push"}, qa, x))
    @@ (p2 :> Pushes({"push", "try_push_for"}, qa, y) \cup Both({"swap"}, qa, qb))
    @@ (c1 :> Takes({"try_pop", "try_pop_for", "observe"}, qa))
    @@ (c2 :> Takes({"pop", "try_pop_for"}, qa))
TimedMax == (p1 :> 2) @@ (p2 :> 2) @@ (c1 :> 2) @@ (c2 :> 1)

\* Whole queues change hands while one thread pushes and one pops.
WholeCalls ==
    (p1 :> Pushes({"push", "try_push"}, qa, x) \cup Pushes({"try_push"}, qb, y))
    @@ (p2 :> Both(SwapOps \cup {"copy_assign"}, qa, qb)
              \cup Both({"swap", "copy_assign"}, qa, qa) \cup Both({"move_ctor"}, qa, qb))
    @@ (c1 :> Both(SwapOps \cup {"copy_assign"}, qb, qa) \cup Both({"copy_ctor"}, qb, qa))
    @@ (c2 :> Takes({"try_pop"}, qa) \cup Takes({"pop"}, qb))
WholeMax == (p1 :> 2) @@ (p2 :> 2) @@ (c1 :> 1) @@ (c2 :> 1)

\* A queue with an element is swapped with one a consumer waits on.
SwapCalls == (p1 :> Pushes({"push"}, qa, x)) @@ (p2 :> Both({"swap"}, qa, qb))
             @@ (c1 :> Takes({"pop"}, qb))
SwapMax == [t \in Threads |-> 1]

\* A queue is copied while it is swapped with one of another capacity.
StaleCalls == (p1 :> Pushes({"push"}, qb, x) \cup Pushes({"push"}, qb, y))
              @@ (p2 :> Both({"swap"}, qa, qb)) @@ (c1 :> Both({"copy_ctor"}, qa, qa))
StaleMax == (p1 :> 2) @@ (p2 :> 1) @@ (c1 :> 1)

One == [q \in Queues |-> 1]
Two == [q \in Queues |-> 2]
OneAndTwo == (qa :> 1) @@ (qb :> 2)
TwoAndOne == (qa :> 2) @@ (qb :> 1)
=============================================================================
