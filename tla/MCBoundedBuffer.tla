--------------------------- MODULE MCBoundedBuffer ---------------------------
(***************************************************************************)
(* Instances of BoundedBufferRefinement for TLC.                           *)
(***************************************************************************)
EXTENDS BoundedBufferRefinement

CONSTANTS a, b,    \* buffers
          x, y     \* elements

\* A copy is told from its original by its value; what is moved stays the same.
Twin(v) == CASE v = x -> y [] v = y -> x [] OTHER -> v
Same(v) == v

Arg(v, r) == [v |-> v, rvalue |-> r]
C(op, o, r, eles, n) == [op |-> op, b |-> o, rhs |-> r, eles |-> eles, n |-> n]

Lone(ops) == {C(op, o, None, <<>>, 0) : op \in ops, o \in Buffers}
Pairs(ops) == {C(op, o, r, <<>>, 0) : op \in ops, o \in Buffers, r \in Buffers}
News(caps) == {C("new", o, None, <<>>, n) : o \in Buffers, n \in caps}
Pushes == {C("push", o, None, <<Arg(v, v = x)>>, 0) : o \in Buffers, v \in Values}

\* Every operation, on objects of different capacities.
AllCalls ==
    News({0, 1, 2}) \cup Pushes
    \cup Lone({"pop", "front", "back", "observe", "clear", "destroy"})
    \cup Pairs(TwoBuffers)
    \cup {C(op, o, None, <<Arg(x, FALSE), Arg(y, TRUE)>>, 0) : op \in Filling, o \in Buffers}
=============================================================================
