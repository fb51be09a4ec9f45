----------------------------- MODULE MCBBIterator -----------------------------
(***************************************************************************)
(* Instances of BBIterator for TLC: two buffers of two slots, which the    *)
(* caller fills, drains, swaps and destroys while it keeps iterators.      *)
(***************************************************************************)
EXTENDS BBIterator, TLC

CONSTANTS a, b,    \* buffers
          i, j,    \* iterators
          x, y     \* elements

\* A copy is told from its original by its value; what is moved stays the same.
Twin(v) == CASE v = x -> y [] v = y -> x [] OTHER -> v
Same(v) == v

Arg(v) == [v |-> v, rvalue |-> FALSE]
C(op, o, r, eles, n) == [op |-> op, b |-> o, rhs |-> r, eles |-> eles, n |-> n]

IteratedCalls ==
    {C("new", o, None, <<>>, 2) : o \in Buffers}
    \cup {C("push", o, None, <<Arg(v)>>, 0) : o \in Buffers, v \in Values}
    \cup {C(op, a, None, <<>>, 0) : op \in {"pop", "clear", "destroy"}}
    \cup {C(op, a, o, <<>>, 0) : op \in {"swap", "copy_assign"}, o \in Buffers \ {a}}

SmallJumps == {-1, 1, 3}

\* The caller treats the elements alike, and the iterators.
Alike == Permutations(Iterators) \cup Permutations(Values)
=============================================================================
