----------------------- MODULE BoundedQueueRefinement -----------------------
(***************************************************************************)
(* BoundedQueue implements FifoQueues.  A queue's abstract content is the  *)
(* window of its slots; a call has returned, abstractly, once only its     *)
(* local object's destruction is left; a copy assignment's snapshot exists *)
(* from the end of its copy to its installation.                           *)
(***************************************************************************)
EXTENDS BoundedQueue

\* None is not what a copy of a queue looks like.
ASSUME NoSnapshotAssumption == None \notin Seq(Values) \X Capacities

absContent == [q \in Queues |-> Contents(body[q])]
absCapacity == [q \in Queues |-> body[q].capacity]
absSnap == [t \in Threads |-> IF pc[t] \in {"copied", "target"}
                              THEN Snapshot(tmp[t]) ELSE None]
absCall == [t \in Threads |-> IF pc[t] = "destroy" THEN None ELSE call[t]]

Fifo == INSTANCE FifoQueues WITH content <- absContent, capacity <- absCapacity,
                                 snap <- absSnap, call <- absCall

\* Every call takes effect atomically, in first-in first-out order, and leaves
\* a queue's capacity to it.
ImplementsFifoQueues == Fifo!Spec
=============================================================================
