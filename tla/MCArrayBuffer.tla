---------------------------- MODULE MCArrayBuffer ----------------------------
(***************************************************************************)
(* An instance of ArrayBufferRefinement for TLC: objects of the classes    *)
(* with N from 0 to 3, of which elements may throw.                        *)
(***************************************************************************)
EXTENDS ArrayBufferRefinement

CONSTANTS a, b,    \* buffers
          x, h     \* elements: one, and T{}, which is also what is left of a moved one

Same(v) == v
Emptied(v) == h

Arg(v) == [v |-> v, rvalue |-> v = x]
C(op, o, r, eles, n) == [op |-> op, b |-> o, rhs |-> r, eles |-> eles, n |-> n]

AllCalls ==
    {C("new", o, None, <<>>, n) : o \in Buffers, n \in 0..3}
    \cup {C("push", o, None, <<Arg(v)>>, 0) : o \in Buffers, v \in {h, x}}
    \cup {C(op, o, None, <<>>, 0) : op \in {"pop", "front", "back", "observe", "destroy"}, o \in Buffers}
    \cup {C(op, o, r, <<>>, 0) : op \in TwoBuffers, o \in Buffers, r \in Buffers}
    \cup {C("make", o, None, <<Arg(x), Arg(h)>>, n) : o \in Buffers, n \in {1, 3}}
    \cup {C("push_many", o, None, <<Arg(h), Arg(x)>>, 0) : o \in Buffers}
=============================================================================
