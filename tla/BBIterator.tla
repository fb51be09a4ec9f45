----------------------------- MODULE BBIterator -----------------------------
(***************************************************************************)
(* ExW7/src/BoundedBuffer.h, BBIterator: the iterators the caller keeps    *)
(* between its calls of the buffers' operations.  An iterator knows its    *)
(* buffer object and a position, an unsigned number that the arithmetic    *)
(* converts to a signed one of the same width and back.                    *)
(*                                                                         *)
(* Iterators to a buffer that was destroyed are nobody's to use; Careful   *)
(* says whether the caller also gives up the iterators to buffers whose    *)
(* elements it removes or exchanges, and Leaps whether it relies on        *)
(* checkOverflow() and checkUnderflow() where these do not check.          *)
(***************************************************************************)
EXTENDS BoundedBuffer

CONSTANTS Iterators,  \* the variables that may hold an iterator
          Jumps,      \* the numbers the caller adds and subtracts
          Careful, Leaps

HalfMod == SizeMod \div 2

ASSUME JumpsAssumption == Jumps \subseteq -HalfMod..HalfMod - 1
ASSUME CallerAssumption == Careful \in BOOLEAN /\ Leaps \in BOOLEAN

VARIABLES it,   \* it[i]: buffer_ and pos_, or None
          res   \* what the last iterator operation returned

itVars == <<vars, it, res>>

\* A size_type converted to index_type or difference_type.
Signed(n) == IF n < HalfMod THEN n ELSE n - SizeMod

Size(i) == buf[it[i].buf].size
AtEnd(i) == it[i].pos = Size(i)
AtBegin(i) == it[i].pos = 0
SameBuffers(i, j) == it[i].buf = it[j].buf

\* Mutant: one past the end passes.
OverflowsLate(i, n) == it[i].pos > 0 /\ n > Size(i) + 1 - Signed(it[i].pos)

\* checkOverflow(), which lets everything pass at the beginning.
Overflows(i, n) == Signed(it[i].pos) > 0 /\ n > Signed(Size(i)) - Signed(it[i].pos)
Underflows(i, n) == Signed(it[i].pos) < n

ItInit == Init /\ it = [i \in Iterators |-> None] /\ res = Pending

-----------------------------------------------------------------------------
\* The buffers' operations.

\* Those that remove the elements of a buffer or exchange them.
Invalidating == {"pop", "clear", "destroy", "copy_assign", "swap", "move_assign", "move_ctor"}
Changes(c, b) == /\ c.op \in Invalidating
                 /\ b = c.b \/ (b = c.rhs /\ c.op # "copy_assign")

Disturbed(i, c) == /\ it[i] # None /\ Changes(c, it[i].buf)
                   /\ Careful \/ c.op = "destroy"

\* The caller makes a call, having given up the iterators it disturbs.
CallBuffer(c) ==
    /\ Invoke(c)
    /\ it' = [i \in Iterators |-> IF Disturbed(i, c) THEN None ELSE it[i]]
    /\ UNCHANGED res

BufferStep == \/ \E c \in Calls : CallBuffer(c)
              \/ Body /\ UNCHANGED <<it, res>>

-----------------------------------------------------------------------------
\* The iterators' operations, between calls.

Use(i) == pc = "idle" /\ it[i] # None /\ UNCHANGED vars
Create(i, b, p) ==
    /\ pc = "idle" /\ it[i] = None /\ buf[b] # None
    /\ it' = [it EXCEPT ![i] = [buf |-> b, pos |-> p]] /\ res' = Ok(<<>>)
    /\ UNCHANGED vars
MoveTo(i, p) == it' = [it EXCEPT ![i].pos = p % SizeMod] /\ res' = Ok(<<>>)
Give(r) == res' = r /\ UNCHANGED it

Begin(i) == \E b \in Buffers : Create(i, b, 0)
End(i) == \E b \in Buffers : buf[b] # None /\ Create(i, b, buf[b].size)
CopyIterator(i) ==
    \E j \in Iterators : it[j] # None /\ Create(i, it[j].buf, it[j].pos)

\* The iterator's lifetime ends.
Drop(i) == Use(i) /\ it' = [it EXCEPT ![i] = None] /\ res' = Pending

\* Mutant: the end is not checked.
IncrementUnchecked(i) == Use(i) /\ MoveTo(i, it[i].pos + 1)

Increment(i) == /\ Use(i)
                /\ IF AtEnd(i) THEN Give(LogicError) ELSE MoveTo(i, it[i].pos + 1)

Decrement(i) == /\ Use(i)
                /\ IF AtBegin(i) THEN Give(LogicError) ELSE MoveTo(i, it[i].pos - 1)

\* operator+=(index_type) and operator-=(index_type)
Advance(i, n) == IF Overflows(i, n) THEN Give(LogicError) ELSE MoveTo(i, it[i].pos + n)
Retreat(i, n) == IF Underflows(i, n) THEN Give(LogicError) ELSE MoveTo(i, it[i].pos - n)

\* The caller leaves to the checks what they check.
LeavesToCheck(i, n, checked) == Leaps \/ checked \/ it[i].pos + n \in 0..Size(i)

Plus(i) == \E n \in Jumps : /\ Use(i) /\ LeavesToCheck(i, n, n >= 0 /\ it[i].pos > 0)
                            /\ Advance(i, n)
Minus(i) == \E n \in Jumps : /\ Use(i) /\ LeavesToCheck(i, -n, n >= 0)
                             /\ Retreat(i, n)

\* Operations on two iterators, which check that these have one buffer.
Both(i, j) == Use(i) /\ it[j] # None
PlusIterator(i, j) ==
    /\ Both(i, j)
    /\ IF SameBuffers(i, j) THEN Advance(i, Signed(it[j].pos)) ELSE Give(LogicError)
MinusIterator(i, j) ==
    /\ Both(i, j)
    /\ IF SameBuffers(i, j) THEN Retreat(i, Signed(it[j].pos)) ELSE Give(LogicError)
Difference(i, j) ==
    /\ Both(i, j)
    /\ Give(IF SameBuffers(i, j) /\ ~Underflows(i, Signed(it[j].pos))
            THEN Ok(<<Signed((it[i].pos - it[j].pos) % SizeMod)>>) ELSE LogicError)
Compare(i, j) ==
    /\ Both(i, j)
    /\ Give(IF SameBuffers(i, j)
            THEN Ok(<<it[i].pos < it[j].pos, it[i].pos = it[j].pos>>) ELSE LogicError)

Dereference(i) ==
    /\ Use(i)
    /\ Give(IF AtEnd(i) THEN LogicError ELSE Ok(<<At(buf[it[i].buf], it[i].pos)>>))

\* An assignment to what a non-const iterator's operator* returns.
Write(i) ==
    /\ pc = "idle" /\ it[i] # None /\ ~AtEnd(i)
    /\ \E v \in Values :
           LET o == it[i].buf IN
           buf' = [buf EXCEPT ![o].container[Slot(buf[o], it[i].pos)] = v]
    /\ Give(Ok(<<>>))
    /\ UNCHANGED <<tmp, pc, call, ret, leaked, throws>>

IteratorStep(i) ==
    \/ Begin(i) \/ End(i) \/ CopyIterator(i) \/ Drop(i)
    \/ Increment(i) \/ Decrement(i) \/ Plus(i) \/ Minus(i)
    \/ Dereference(i) \/ Write(i)
    \/ \E j \in Iterators : \/ PlusIterator(i, j) \/ MinusIterator(i, j)
                            \/ Difference(i, j) \/ Compare(i, j)

ItNext == BufferStep \/ \E i \in Iterators : IteratorStep(i)

ItSpec == ItInit /\ [][ItNext]_itVars

-----------------------------------------------------------------------------
\* Properties.

\* Every iterator has its type, and none has a buffer that is gone.
ItTypeOK ==
    /\ TypeOK
    /\ it \in [Iterators -> [buf : Buffers, pos : 0..SizeMod - 1] \cup {None}]
    /\ \A i \in Iterators : (it[i] # None /\ pc = "idle") => buf[it[i].buf] # None

\* An iterator is on an element of its buffer or at its end: throwIfEnd(),
\* which tests for the end only, is enough to keep it from anything else.
IteratorsInRange ==
    \A i \in Iterators : (it[i] # None /\ pc = "idle") => it[i].pos \in 0..Size(i)

\* What the caller can read through an iterator is a constructed element.
ReadsElements ==
    \A i \in Iterators :
        (it[i] # None /\ pc = "idle" /\ ~AtEnd(i)) => At(buf[it[i].buf], it[i].pos) # Raw

\* An iterator stays on its element whatever the caller then does to buffers,
\* short of removing or exchanging elements: pushes never move any.
StaysOnElement ==
    [][BufferStep =>
        \A i \in Iterators :
            (it[i] # None /\ it'[i] # None /\ it[i].pos < Size(i)) =>
                At(buf'[it[i].buf], it[i].pos) = At(buf[it[i].buf], it[i].pos)]_itVars
=============================================================================
