-------------------------- MODULE BoundedSequences --------------------------
(***************************************************************************)
(* What ExW7's BoundedBuffer promises its caller: sequences with a fixed   *)
(* capacity, on which a call that throws changes nothing.  push_many() is  *)
(* the exception: what it has pushed before it throws stays.               *)
(***************************************************************************)
EXTENDS Integers, Sequences

CONSTANTS Buffers, None, Calls,
          Copied(_), Moved(_)   \* an element made from v by copying, by moving

VARIABLES seqs,       \* seqs[b]: elements and capacity, or None
          call, ret   \* the call the caller is in, and what the last returned

vars == <<seqs, call, ret>>

Buffer(els, cap) == [els |-> els, cap |-> cap]
Result(st, val) == [st |-> st, val |-> val]

Init == /\ seqs = [b \in Buffers |-> None]
        /\ call = None /\ ret = Result("pending", <<>>)

Invoke == /\ call = None
          /\ \E c \in Calls : call' = c
          /\ ret' = Result("pending", <<>>)
          /\ UNCHANGED seqs

In(ops) == call # None /\ call.op \in ops
Return(st, val) == call' = None /\ ret' = Result(st, val)
Set(s) == seqs' = [seqs EXCEPT ![call.b] = s]
Els == seqs[call.b].els
IsFull == Len(Els) = seqs[call.b].cap

New == /\ In({"new"}) /\ call.n > 0
       /\ Set(Buffer(<<>>, call.n)) /\ Return("ok", <<>>)

NewRefused == /\ In({"new"}) /\ call.n = 0
              /\ Return("invalid_argument", <<>>) /\ UNCHANGED seqs

Add(v) == ~IsFull /\ seqs' = [seqs EXCEPT ![call.b].els = Append(@, v)]

Passed(e) == IF e.rvalue THEN Moved(e.v) ELSE Copied(e.v)

Push == In({"push"}) /\ Add(Passed(Head(call.eles))) /\ Return("ok", <<>>)

PushOneOfMany == /\ In({"push_many"}) /\ call.n < Len(call.eles)
                 /\ Add(Passed(call.eles[call.n + 1]))
                 /\ call' = [call EXCEPT !.n = @ + 1] /\ UNCHANGED ret

PushedMany == /\ In({"push_many"}) /\ call.n = Len(call.eles)
              /\ Return("ok", <<>>) /\ UNCHANGED seqs

PushRefused == /\ In({"push", "push_many"}) /\ call.n < Len(call.eles) /\ IsFull
               /\ Return("logic_error", <<>>) /\ UNCHANGED seqs

Pop == /\ In({"pop"}) /\ Els # <<>>
       /\ seqs' = [seqs EXCEPT ![call.b].els = Tail(@)] /\ Return("ok", <<>>)

Front == /\ In({"front"}) /\ Els # <<>>
         /\ Return("ok", <<Head(Els)>>) /\ UNCHANGED seqs

Back == /\ In({"back"}) /\ Els # <<>>
        /\ Return("ok", <<Els[Len(Els)]>>) /\ UNCHANGED seqs

EmptyRefused == /\ In({"pop", "front", "back"}) /\ Els = <<>>
                /\ Return("logic_error", <<>>) /\ UNCHANGED seqs

Observe == /\ In({"observe"})
           /\ Return("ok", <<Els = <<>>, IsFull, Len(Els)>>) /\ UNCHANGED seqs

Swap == /\ In({"swap", "move_assign"})
        /\ seqs' = [seqs EXCEPT ![call.b] = seqs[call.rhs], ![call.rhs] = seqs[call.b]]
        /\ Return("ok", <<>>)

\* The source of a move is left without elements and without capacity.
Move == /\ In({"move_ctor"})
        /\ seqs' = [seqs EXCEPT ![call.b] = seqs[call.rhs], ![call.rhs] = Buffer(<<>>, 0)]
        /\ Return("ok", <<>>)

AssignSelf == /\ In({"copy_assign"}) /\ call.b = call.rhs
              /\ Return("ok", <<>>) /\ UNCHANGED seqs

Copy == /\ In({"copy_ctor", "copy_assign"}) /\ call.b # call.rhs
        /\ LET s == seqs[call.rhs] IN
           Set(Buffer([i \in DOMAIN s.els |-> Copied(s.els[i])], s.cap))
        /\ Return("ok", <<>>)

Make == /\ In({"make"})
        /\ Set(Buffer([i \in DOMAIN call.eles |-> Passed(call.eles[i])], Len(call.eles))) /\ Return("ok", <<>>)

Erase == /\ In({"clear", "destroy"})
         /\ seqs' = [seqs EXCEPT ![call.b].els = <<>>] /\ UNCHANGED <<call, ret>>

Cleared == /\ In({"clear"}) /\ Els = <<>>
           /\ Return("ok", <<>>) /\ UNCHANGED seqs

Destroyed == /\ In({"destroy"}) /\ Els = <<>>
             /\ Set(None) /\ Return("ok", <<>>)

\* An element throws.
Throw == /\ In({"push", "push_many", "make", "copy_ctor", "copy_assign"})
         /\ Return("element", <<>>) /\ UNCHANGED seqs

Next == \/ Invoke \/ New \/ NewRefused \/ Push \/ PushOneOfMany \/ PushedMany
        \/ PushRefused \/ Pop \/ Front \/ Back \/ EmptyRefused \/ Observe
        \/ Swap \/ Move \/ AssignSelf \/ Copy \/ Make \/ Erase \/ Cleared \/ Destroyed \/ Throw

Spec == Init /\ [][Next]_vars
=============================================================================
