----------------------------- MODULE FifoQueues -----------------------------
(***************************************************************************)
(* What a BoundedQueue promises its clients: every call of a member        *)
(* function takes effect at one instant between its call and its return,   *)
(* on queues that are sequences with a fixed capacity.  No mutexes, waits, *)
(* slots or indices.  Copy assignment takes effect at two instants: the    *)
(* copy of the source, then its installation in the target.                *)
(***************************************************************************)
EXTENDS Integers, Sequences

CONSTANTS Threads, Queues, None, Calls, InitCapacity,
          Copied(_), Moved(_)   \* an element made from v by copying, by moving

VARIABLES content,    \* content[q]: the elements of q, the next to pop first
          capacity,   \* capacity[q]
          snap,       \* snap[t]: what t's copy assignment copied, or None
          call, ret   \* the call t is in, and what its last one returned

vars == <<content, capacity, snap, call, ret>>

Result(st, val) == [st |-> st, val |-> val]

Init == /\ content = [q \in Queues |-> <<>>]
        /\ capacity = InitCapacity
        /\ snap = [t \in Threads |-> None]
        /\ call = [t \in Threads |-> None]
        /\ ret = [t \in Threads |-> Result("pending", <<>>)]

Invoke(t) ==
    /\ call[t] = None
    /\ \E c \in Calls[t] : call' = [call EXCEPT ![t] = c]
    /\ ret' = [ret EXCEPT ![t] = Result("pending", <<>>)]
    /\ UNCHANGED <<content, capacity, snap>>

\* t is in a call of one of ops.
In(t, ops) == call[t] # None /\ call[t].op \in ops

Return(t, st, val) == /\ call' = [call EXCEPT ![t] = None]
                      /\ ret' = [ret EXCEPT ![t] = Result(st, val)]

\* An rvalue is moved into the queue; anything else is copied.
Passed(c) == IF c.op = "push_rvalue" THEN Moved(c.v) ELSE Copied(c.v)
Copies(s) == [i \in DOMAIN s |-> Copied(s[i])]

Push(t) ==
    LET q == call[t].q IN
    /\ In(t, {"push", "push_rvalue", "try_push", "try_push_for"})
    /\ Len(content[q]) < capacity[q]
    /\ content' = [content EXCEPT ![q] = Append(@, Passed(call[t]))]
    /\ Return(t, "ok", <<>>) /\ UNCHANGED <<capacity, snap>>

PushRefused(t) ==
    /\ In(t, {"try_push", "try_push_for"})
    /\ Len(content[call[t].q]) = capacity[call[t].q]
    /\ Return(t, "refused", <<>>) /\ UNCHANGED <<content, capacity, snap>>

Pop(t) ==
    LET q == call[t].q IN
    /\ In(t, {"pop", "try_pop", "try_pop_for"})
    /\ content[q] # <<>>
    /\ content' = [content EXCEPT ![q] = Tail(@)]
    /\ Return(t, "ok", <<Moved(Head(content[q]))>>) /\ UNCHANGED <<capacity, snap>>

PopRefused(t) ==
    /\ In(t, {"try_pop", "try_pop_for"})
    /\ content[call[t].q] = <<>>
    /\ Return(t, "refused", <<>>) /\ UNCHANGED <<content, capacity, snap>>

Observe(t) ==
    LET q == call[t].q
        n == Len(content[q]) IN
    /\ In(t, {"observe"})
    /\ Return(t, "ok", <<n = 0, n = capacity[q], n>>)
    /\ UNCHANGED <<content, capacity, snap>>

Swap(t) ==
    LET q == call[t].q
        r == call[t].rhs IN
    /\ In(t, {"swap", "move_assign"})
    /\ content' = [content EXCEPT ![q] = content[r], ![r] = content[q]]
    /\ capacity' = [capacity EXCEPT ![q] = capacity[r], ![r] = capacity[q]]
    /\ Return(t, "ok", <<>>) /\ UNCHANGED snap

AssignSelf(t) ==
    /\ In(t, {"copy_assign"}) /\ call[t].q = call[t].rhs
    /\ Return(t, "ok", <<>>) /\ UNCHANGED <<content, capacity, snap>>

Copy(t) ==
    LET r == call[t].rhs IN
    /\ In(t, {"copy_assign"}) /\ call[t].q # r /\ snap[t] = None
    /\ snap' = [snap EXCEPT ![t] = <<Copies(content[r]), capacity[r]>>]
    /\ UNCHANGED <<content, capacity, call, ret>>

Install(t) ==
    LET q == call[t].q IN
    /\ In(t, {"copy_assign"}) /\ snap[t] # None
    /\ content' = [content EXCEPT ![q] = snap[t][1]]
    /\ capacity' = [capacity EXCEPT ![q] = snap[t][2]]
    /\ snap' = [snap EXCEPT ![t] = None]
    /\ Return(t, "ok", <<>>)

\* The constructors: the new queue's content and capacity are the result.
CopyConstruct(t) ==
    LET r == call[t].rhs IN
    /\ In(t, {"copy_ctor"})
    /\ Return(t, "ok", <<Copies(content[r]), capacity[r]>>)
    /\ UNCHANGED <<content, capacity, snap>>

MoveConstruct(t) ==
    LET r == call[t].rhs IN
    /\ In(t, {"move_ctor"})
    /\ content' = [content EXCEPT ![r] = <<>>]
    /\ Return(t, "ok", <<content[r], capacity[r]>>)
    /\ UNCHANGED <<capacity, snap>>

\* An operation on an element throws: no queue has changed.
Throw(t) ==
    /\ In(t, {"push", "push_rvalue", "try_push", "try_push_for", "pop", "try_pop",
              "try_pop_for", "copy_ctor", "copy_assign"})
    /\ snap[t] = None
    /\ Return(t, "threw", <<>>) /\ UNCHANGED <<content, capacity, snap>>

Next == \E t \in Threads :
    \/ Invoke(t) \/ Push(t) \/ PushRefused(t) \/ Pop(t) \/ PopRefused(t)
    \/ Observe(t) \/ Swap(t) \/ AssignSelf(t) \/ Copy(t) \/ Install(t)
    \/ CopyConstruct(t) \/ MoveConstruct(t) \/ Throw(t)

Spec == Init /\ [][Next]_vars
=============================================================================
