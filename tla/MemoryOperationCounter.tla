----------------------- MODULE MemoryOperationCounter -----------------------
(***************************************************************************)
(* MemoryOperationCounter.h (one in each exercise): the element with which *)
(* the test suites count how often an element was moved and copied, and    *)
(* see whether it was moved from.  The other element types of the suites   *)
(* are told apart by a value; one record stands for all of them.           *)
(***************************************************************************)
EXTENDS Naturals

CONSTANTS MaxVal,       \* bound on the values of the elements
          UnsignedMod   \* 2^w for the width w of unsigned

Elements == [val : 0..MaxVal, moves : 0..UnsignedMod - 1, copies : 0..UnsignedMod - 1,
             known_state : BOOLEAN]

Value(v) == [val |-> v, moves |-> 0, copies |-> 0, known_state |-> TRUE]

Counter(m, c, known) == [val |-> 0, moves |-> m, copies |-> c, known_state |-> known]

\* Mutant: the move constructor reads its source after it changed it.
MovedLate(e) == [e EXCEPT !.moves = (@ + 1) % UnsignedMod, !.copies = (@ + 1) % UnsignedMod,
                          !.known_state = FALSE]

\* An element moved from e, an element copied from e, and what e is after it
\* was moved from.  Construction and assignment do the same.
MoveOf(e) == [e EXCEPT !.moves = (@ + 1) % UnsignedMod]
CopyOf(e) == [e EXCEPT !.copies = (@ + 1) % UnsignedMod]
HollowOf(e) == [e EXCEPT !.known_state = FALSE]

\* operator==, in which == binds stronger than &&: the results of comparing
\* copies and known_state are compared with each other.
Same(e, f) == /\ e.moves = f.moves
              /\ (e.copies = f.copies) = (e.known_state = f.known_state)
=============================================================================
