----------------------- MODULE BoundedBufferRefinement -----------------------
(***************************************************************************)
(* How the objects of BoundedBuffer are the sequences of BoundedSequences. *)
(***************************************************************************)
EXTENDS BoundedBuffer

\* An object that is being cleared has no elements any more.
Clearing(b) == pc = "clear" /\ tmp = None /\ call.b = b

absSeqs == [b \in Buffers |->
               IF buf[b] = None THEN None
               ELSE [els |-> IF Clearing(b) THEN <<>> ELSE Contents(buf[b]),
                     cap |-> buf[b].capacity]]

\* A call that only has a local object left to destroy has taken effect; a
\* make_buffer() still is to give its caller the elements it pushed.
absCall == IF tmp = None THEN call
           ELSE IF pc = "clear" THEN None
           ELSE IF pc = "fill" THEN [call EXCEPT !.n = 0]
           ELSE call

Abstract == INSTANCE BoundedSequences WITH seqs <- absSeqs, call <- absCall

\* The objects behave as bounded sequences, first in, first out; a call that
\* throws changes none of them, a copy or a move changes no other one, and the
\* capacity goes with the content.
ImplementsBoundedSequences == Abstract!Spec
=============================================================================
