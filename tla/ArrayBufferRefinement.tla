------------------------ MODULE ArrayBufferRefinement ------------------------
(***************************************************************************)
(* How the objects of ArrayBuffer are the sequences of ArraySequences.     *)
(***************************************************************************)
EXTENDS ArrayBuffer

Contents(o) == [i \in 1..o.count |-> o.container[Slot(o, i - 1)]]

absSeqs == [b \in Buffers |-> IF buf[b] = None THEN None
                              ELSE [els |-> Contents(buf[b]), cap |-> buf[b].N]]

absCall == IF call # None /\ call.op = "push_many" THEN [call EXCEPT !.n = done] ELSE call

Abstract == INSTANCE ArraySequences WITH seqs <- absSeqs, call <- absCall

\* The objects behave as sequences of at most N elements, first in, first out;
\* calls that throw keep their lengths, except that a push whose assignment
\* throws has pushed some element all the same.
ImplementsArraySequences == Abstract!ArraySpec
=============================================================================
