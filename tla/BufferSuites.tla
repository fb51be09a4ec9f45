---------------------------- MODULE BufferSuites ----------------------------
(***************************************************************************)
(* ExW7's test executable: the test functions run as callers of the        *)
(* buffers and iterators of BBIterator, one operation at a time, and CUTE  *)
(* judges what each operation gives.                                       *)
(***************************************************************************)
EXTENDS BBIterator, CuteRunner, FiniteSetsExt

VARIABLE stats    \* the static counters of the suites' element types

allVars == <<itVars, runnerVars, stats>>

NoStats == [copies |-> 0, moves |-> 0, assigned |-> 0, destroyed |-> 0, arrays |-> 0]

SuiteInit == ItInit /\ RunnerInit /\ stats = NoStats

-----------------------------------------------------------------------------
\* What a step of the buffers' code does to the static counters.

\* The constructed elements.
LiveIn(o) == IF o = None THEN 0
             ELSE Cardinality({s \in DOMAIN o.container : o.container[s] # Raw})
Live == LiveIn(tmp) + MapThenSumSet(LAMBDA b : LiveIn(buf[b]), Buffers)

\* Elements are constructed in raw memory and never assigned to, and the memory
\* is an array of char: no array of elements is allocated.
Constructed == IF pc # "copy" /\ call.eles[call.n + 1].rvalue THEN "moves" ELSE "copies"
CountElements ==
    LET more == Live' - Live IN
    stats' = CASE more > 0 -> [stats EXCEPT ![Constructed] = @ + more]
               [] more < 0 -> [stats EXCEPT !.destroyed = @ - more - (leaked' - leaked)]
               [] OTHER    -> stats

-----------------------------------------------------------------------------
CallOf(item) == [op |-> item.do, b |-> item.on,
                 rhs |-> IF item.do \in TwoBuffers THEN item.rhs ELSE None,
                 eles |-> item.args, n |-> item.n]

Destruction(o) == [op |-> "destroy", b |-> o, rhs |-> None, eles |-> <<>>, n |-> 0]

\* The test calls an operation of a buffer, and the operation runs.
CallOperation ==
    /\ Due(Ops) /\ Invoke(CallOf(Item)) /\ BeginItem
    /\ UNCHANGED <<it, res, stats>>

RunOperation ==
    /\ Body /\ CountElements
    /\ UNCHANGED <<it, res, runnerVars>>

\* It does an operation on the iterator i.
OnIterator(i) ==
    \/ Item.do = "begin" /\ Begin(i) /\ it'[i].buf = Item.rhs
    \/ Item.do = "end" /\ End(i) /\ it'[i].buf = Item.rhs
    \/ Item.do = "copy" /\ CopyIterator(i) /\ it'[i] = it[Item.rhs]
    \/ Item.do = "++" /\ Increment(i)
    \/ Item.do = "--" /\ Decrement(i)
    \/ Item.do = "+=" /\ Use(i) /\ Advance(i, Item.n)
    \/ Item.do = "-=" /\ Use(i) /\ Retreat(i, Item.n)
    \/ Item.do = "difference" /\ Difference(i, Item.rhs)
    \/ Item.do = "compare" /\ Compare(i, Item.rhs)
    \/ Item.do = "deref" /\ Dereference(i)
    \/ Item.do = "write" /\ Write(i) /\ At(buf'[it[i].buf], it[i].pos) = Item.args[1].v

UseIterator ==
    \E i \in Iterators :
        /\ Due({"begin", "end", "copy", "++", "--", "+=", "-=",
                "difference", "compare", "deref", "write"})
        /\ Item.on = i /\ OnIterator(i) /\ BeginItem
        /\ UNCHANGED stats

\* It looks at what the operation gave.
Answer == IF Item.on \in Iterators THEN res ELSE ret
Judged ==
    /\ doing /\ pc = "idle" /\ Judge(Answer)
    /\ UNCHANGED <<itVars, stats>>

\* It looks at what it collected itself.
JudgedOwn ==
    /\ Due({"noted", "count"})
    /\ Judge(Ok(<<IF Item.do = "noted" THEN noted ELSE stats[Item.on]>>))
    /\ UNCHANGED <<itVars, stats>>

\* resetCounters(), resetAllocationCounters()
ResetCounters ==
    /\ Due({"reset"}) /\ stats' = NoStats
    /\ Judge(Ok(<<>>))
    /\ UNCHANGED itVars

\* Its local variables are destroyed when it returns or an exception leaves it.
Left == BodyOver /\ pc = "idle"
LocalsGone == (\A i \in Iterators : it[i] = None) /\ \A b \in Buffers : buf[b] = None

DropIterators ==
    /\ Left /\ \E i \in Iterators : it[i] # None
    /\ it' = [i \in Iterators |-> None]
    /\ UNCHANGED <<vars, res, stats, runnerVars>>

DestroyLocal ==
    /\ Left /\ \A i \in Iterators : it[i] = None
    /\ \E b \in Buffers : buf[b] # None
    /\ Invoke(Destruction(CHOOSE b \in Buffers : buf[b] # None))
    /\ UNCHANGED <<it, res, stats, runnerVars>>

Finish == /\ Left /\ LocalsGone /\ EndTest
          /\ UNCHANGED <<itVars, stats>>

Run == BetweenTests /\ UNCHANGED <<itVars, stats>>

SuiteStep == \/ CallOperation \/ RunOperation \/ UseIterator \/ Judged \/ JudgedOwn
             \/ ResetCounters \/ DropIterators \/ DestroyLocal \/ Finish \/ Run

-----------------------------------------------------------------------------
EqualityExact == (doing /\ pc = "idle") => EqualityOn(Answer)
=============================================================================
