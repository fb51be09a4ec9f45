----------------------------- MODULE ArraySuites -----------------------------
(***************************************************************************)
(* ExW3's test executable: the test functions run as callers of the        *)
(* buffers of ArrayBuffer and of a RingN, and CUTE judges what they get.   *)
(***************************************************************************)
EXTENDS ArrayBuffer, CuteRunner

VARIABLE ring   \* a test's RingN: its N and its value, or None

allVars == <<vars, runnerVars, ring>>

SuiteInit == Init /\ RunnerInit /\ ring = None

CallOf(item) == [op |-> item.do, b |-> item.on,
                 rhs |-> IF item.do \in TwoBuffers THEN item.rhs ELSE None,
                 eles |-> item.args, n |-> item.n]

\* The test calls an operation of a buffer, the operation runs, and the test
\* looks at what it gave.
CallOperation == /\ Due(Ops) /\ Invoke(CallOf(Item)) /\ BeginItem
                 /\ UNCHANGED ring
RunOperation == Body /\ UNCHANGED <<runnerVars, ring>>
Judged == /\ doing /\ pc = "idle" /\ Judge(ret)
          /\ UNCHANGED <<vars, ring>>

\* It looks at what it collected itself.
JudgedOwn == /\ Due({"noted"}) /\ Judge(Ok(<<noted>>))
             /\ UNCHANGED <<vars, ring>>

\* It does an operation on a RingN.
NewRing == /\ Due({"ring"}) /\ Judge(Ok(<<>>))
           /\ ring' = [N |-> Item.n, val |-> Ring(Item.n, Item.args[1])]
           /\ UNCHANGED vars
Given == Ring(ring.N, Item.n)
OnRing == /\ Due({"ring+=", "ring-="}) /\ Judge(Ok(<<>>))
          /\ ring' = [ring EXCEPT !.val = IF Item.do = "ring+=" THEN RingPlus(ring.N, @, Given)
                                          ELSE RingMinus(ring.N, @, Given)]
          /\ UNCHANGED vars
CompareRing == /\ Due({"ring=="}) /\ Judge(Ok(<<ring.val = Given>>))
               /\ UNCHANGED <<vars, ring>>

\* Its local variables are destroyed when it returns or an exception leaves it.
DestroyLocal ==
    /\ BodyOver /\ pc = "idle" /\ \E b \in Buffers : buf[b] # None
    /\ Invoke([op |-> "destroy", b |-> CHOOSE b \in Buffers : buf[b] # None,
               rhs |-> None, eles |-> <<>>, n |-> 0])
    /\ UNCHANGED <<runnerVars, ring>>

Finish == /\ pc = "idle" /\ \A b \in Buffers : buf[b] = None
          /\ EndTest /\ ring' = None
          /\ UNCHANGED vars

Run == BetweenTests /\ UNCHANGED <<vars, ring>>

SuiteStep == \/ CallOperation \/ RunOperation \/ Judged \/ JudgedOwn
             \/ NewRing \/ OnRing \/ CompareRing \/ DestroyLocal \/ Finish \/ Run

EqualityExact == (doing /\ pc = "idle") => EqualityOn(ret)
=============================================================================
