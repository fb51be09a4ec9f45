----------------------------- MODULE QueueBody -----------------------------
(***************************************************************************)
(* The private part of ExW11/src/BoundedQueue.h: the four members swap()   *)
(* exchanges (index_, size_, capacity_, container_), as one record, and    *)
(* the unlocked helpers that read and change them.  ExW7's BoundedBuffer,  *)
(* from which the queue was made, has the same members and the same        *)
(* expressions on them.  A slot of the raw memory holds a constructed      *)
(* element or Raw.                                                         *)
(*                                                                         *)
(* index_ is a size_t that only ever grows: it wraps at SizeMod = 2^w.     *)
(***************************************************************************)
EXTENDS Integers, Sequences

CONSTANTS Values,   \* the elements
          Raw,      \* a slot without a constructed element
          Copied(_), Moved(_),   \* an element made from v by copying, by moving
          SizeMod   \* 2^w for the width w of size_t

ASSUME SizeModAssumption == SizeMod \in Nat \ {0}
ASSUME RawAssumption == Raw \notin Values
ASSUME TransferAssumption ==
    /\ \A v \in Values : Copied(v) \in Values /\ Moved(v) \in Values
    /\ Copied(Raw) = Raw

\* The members of a queue constructed with capacity c.
BodyOf(c) == [index : 0..SizeMod - 1, size : Nat, capacity : {c},
              container : [0..c - 1 -> Values \cup {Raw}]]

NewBody(c) == [index |-> 0, size |-> 0, capacity |-> c,
               container |-> [s \in 0..c - 1 |-> Raw]]

Empty(b) == b.size = 0
Full(b) == b.size = b.capacity

Slot(b, i) == ((b.index + i) % SizeMod) % b.capacity
At(b, i) == b.container[Slot(b, i)]

\* Mutant: the slot is computed after the element was counted.
ConstructAfterCount(b, v) == [b EXCEPT !.container[Slot(b, b.size + 1)] = v, !.size = @ + 1]

\* _push: construct in pushBuffer(), then count the element.
Construct(b, v) == [b EXCEPT !.container[Slot(b, b.size)] = v, !.size = @ + 1]

NextIndex(b) == (b.index + 1) % SizeMod

\* Mutant: the front element's destructor is not run.
DestroyNothing(b) == [b EXCEPT !.size = @ - 1, !.index = NextIndex(b)]

\* _pop: destroy the front element, then step past its slot.
Destroy(b) == [b EXCEPT !.container[Slot(b, 0)] = Raw, !.size = @ - 1,
                        !.index = NextIndex(b)]

\* What a client sees: the elements in the order pop() returns them.
Contents(b) == [i \in 1..b.size |-> At(b, i - 1)]

\* The queue never counts more elements than it has slots, its elements have
\* slots of their own, and these are the slots with a constructed element.
RingOK(b) ==
    /\ b.size <= b.capacity
    /\ \A i, j \in 0..b.size - 1 : Slot(b, i) = Slot(b, j) => i = j
    /\ \A s \in 0..b.capacity - 1 :
           b.container[s] # Raw <=> \E i \in 0..b.size - 1 : s = Slot(b, i)
=============================================================================
