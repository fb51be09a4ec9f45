-------------------------- MODULE BBIteratorProofs --------------------------
(***************************************************************************)
(* What the checks of BBIterator guarantee, for any buffers, iterators,    *)
(* calls, capacities and jumps, to a caller that gives up its iterators    *)
(* before it removes or exchanges elements and that does not jump where    *)
(* nothing is checked.                                                     *)
(***************************************************************************)
EXTENDS BBIterator, BoundedBufferProofs

\* The discipline of the caller.
Disciplined == Careful /\ ~Leaps

\* Positions are below 2^(w-1): as signed numbers they are what they were.
Positive == \A c \in Capacities \cup {0} : c < HalfMod

-----------------------------------------------------------------------------
\* The inductive invariant.

\* Iterator i is in its buffer, which the call in progress does not disturb.
Stands(i) ==
    it[i] # None => /\ buf[it[i].buf] # None /\ it[i].pos <= buf[it[i].buf].size
                    /\ pc # "idle" => ~Changes(call, it[i].buf)

ItShape == it \in [Iterators -> [buf : Buffers, pos : 0..SizeMod - 1] \cup {None}]

ItInv == Inv /\ ItShape /\ \A i \in Iterators : Stands(i)

\* What buffer o undergoes while iterators stand in it: nothing, or a push.
Grows(o) == \/ buf'[o] = buf[o]
            \/ /\ ~Full(buf[o])
               /\ \E v \in Values : buf'[o] = Construct(buf[o], v)

\* The body of an operation runs in a call, which stays the same but for the
\* arguments that are used up.
LEMMA BodyInCall == Body => pc # "idle"
  BY DEF Body, New, NewRefused, Refused, Push, PushThrows, Pop, Front, Back, Observe, Swap,
         MoveConstruct, AssignSelf, CopyStart, CopyElement, CopyThrows, CopyConstructed,
         CopyAssigned, MakeStart, PushManyStart, Fill, FillRefused, FillThrows, Made,
         PushedMany, ClearStart, ClearElement, Cleared, Destroyed, Dropped, In, Copying,
         MoreToFill

\* The buffers' steps stay in the call they are in, or end it.
LEMMA BodyKeepsCall ==
    ASSUME Inv, Body, pc' # "idle"
    PROVE  call'.op = call.op /\ call'.b = call.b /\ call'.rhs = call.rhs
<1>1. CASE Fill
  <2>1. call \in Call
    BY BodyInCall, CallFields DEF Inv
  <2> QED  BY <1>1, <2>1 DEF Fill, Call
<1>2. CASE ~Fill
  BY <1>2 DEF Body, New, NewRefused, Refused, Push, PushThrows, Pop, Front, Back, Observe, Swap,
         MoveConstruct, AssignSelf, CopyStart, CopyElement, CopyThrows, CopyConstructed,
         CopyAssigned, MakeStart, PushManyStart, FillRefused, FillThrows, Made,
         PushedMany, ClearStart, ClearElement, Cleared, Destroyed, Dropped, In, Copying, Return,
         MoreToFill, Unwind
<1> QED  BY <1>1, <1>2

\* The steps of a call leave a buffer that the call does not change alone, or
\* push to it.
LEMMA BodyGrows ==
    ASSUME Inv, Body, NEW o \in Buffers, buf[o] # None, ~Changes(call, o)
    PROVE  Grows(o)
<1> USE DEF Inv, Shape, CallFits, StartFits, CopyFits, FillFits, ClearFits, Changes,
            Invalidating, Creating
<1>1. pc # "idle"
  BY BodyInCall
<1>2. /\ call.b \in Buffers
      /\ call.eles # <<>> => Passed(Head(call.eles)) \in Values
      /\ call.n < Len(call.eles) => Passed(call.eles[call.n + 1]) \in Values
      /\ pc = "start" => /\ call.op \in TwoBuffers => call.rhs \in Buffers
                         /\ call.op = "push" => call.eles # <<>>
  BY <1>1, CallFields, StartFields, PassedTypes
<1>3. CASE UNCHANGED buf
  BY <1>3 DEF Grows
<1>4. CASE New \/ CopyConstructed \/ CopyAssigned \/ Made
  BY <1>2, <1>4 DEF New, CopyConstructed, CopyAssigned, Made, In, Copying, MoreToFill, Set,
                    Grows
<1>5. CASE Push
  BY <1>2, <1>5 DEF Push, In, Refuses, Set, This, Grows
<1>6. CASE Pop \/ Swap \/ MoveConstruct
  BY <1>2, <1>6 DEF Pop, Swap, MoveConstruct, In, SwapOps, TwoBuffers, Set, Grows
<1>7. CASE Fill
  <2>1. pc = "fill" /\ ~Full(Subject) /\ Passed(call.eles[call.n + 1]) \in Values
    BY <1>2, <1>7 DEF Fill, MoreToFill, Refuses, Filling
  <2> QED  BY <1>2, <1>7, <2>1 DEF Fill, Subject, SetSubject, Set, This, Grows
<1>8. CASE ClearElement \/ Destroyed
  BY <1>2, <1>8 DEF ClearElement, Destroyed, Subject, SetSubject, Set, Grows
<1>9. \/ UNCHANGED buf \/ New \/ CopyConstructed \/ CopyAssigned \/ Made \/ Push \/ Pop
      \/ Swap \/ MoveConstruct \/ Fill \/ ClearElement \/ Destroyed
  BY DEF Body, NewRefused, Refused, PushThrows, Front, Back, Observe, AssignSelf, CopyStart,
         CopyElement, CopyThrows, MakeStart, PushManyStart, FillRefused, FillThrows,
         PushedMany, ClearStart, Cleared, Dropped
<1> QED  BY <1>3, <1>4, <1>5, <1>6, <1>7, <1>8, <1>9

\* A buffer that grows is there afterwards, with all its elements.
LEMMA GrowsSize ==
    ASSUME Inv, NEW o \in Buffers, buf[o] # None, Grows(o)
    PROVE  buf'[o] # None /\ buf'[o].size >= buf[o].size
<1>1. Sound(buf[o])
  BY DEF Inv, Shape
<1> QED  BY <1>1, SoundConstruct, SoundFields DEF Grows

\* Between calls, and when one begins, and inside it: the buffers' own steps.
LEMMA BufferStepGrows ==
    ASSUME ItInv, Careful, BufferStep, NEW i \in Iterators, it'[i] # None
    PROVE  it'[i] = it[i] /\ it[i].buf \in Buffers /\ Grows(it[i].buf)
<1> USE DEF ItInv, ItShape, Stands
<1>1. CASE \E c \in Calls : CallBuffer(c)
  BY <1>1 DEF CallBuffer, Invoke, Grows
<1>2. CASE Body /\ UNCHANGED <<it, res>>
  <2>1. it[i] # None /\ it[i].buf \in Buffers /\ buf[it[i].buf] # None
    BY <1>2
  <2>2. pc # "idle"
    BY <1>2, BodyInCall
  <2> QED  BY <1>2, <2>1, <2>2, BodyGrows
<1> QED  BY <1>1, <1>2 DEF BufferStep

-----------------------------------------------------------------------------
\* The iterators' own steps, which leave the buffers as they are.

\* A buffer's size and the positions in it are the same as signed numbers.
LEMMA SignedSize ==
    ASSUME Positive, Inv, NEW o \in Buffers, buf[o] # None, NEW p \in 0..buf[o].size
    PROVE  buf[o].size \in Nat /\ p < SizeMod /\ Signed(p) = p /\ Signed(buf[o].size) = buf[o].size
<1>1. Sound(buf[o])
  BY DEF Inv, Shape
<1>2. /\ buf[o].size \in Nat /\ buf[o].size <= buf[o].capacity
      /\ buf[o].capacity < HalfMod /\ buf[o].capacity \in 0..SizeMod - 1
  BY <1>1, SoundFields DEF Positive
<1>3. SizeMod \in Nat /\ HalfMod \in Int
  BY SizeModAssumption DEF HalfMod
<1> QED  BY <1>2, <1>3 DEF Signed

\* A position inside the buffer.
Moves(i) == \/ it' = it
            \/ \E p \in 0..Size(i) : it' = [it EXCEPT ![i].pos = p]

\* An iterator that moves inside its buffer stands there.
LEMMA MovesStands ==
    ASSUME Positive, ItInv, pc = "idle", UNCHANGED vars,
           NEW i \in Iterators, it[i] # None, Moves(i)
    PROVE  ItInv'
<1>1. Inv'
  BY StepInv DEF ItInv
<1>2. CASE it' = it
  BY <1>1, <1>2 DEF ItInv, ItShape, Stands, vars, Changes
<1>3. CASE it' # it
  <2>1. PICK p \in 0..Size(i) : it' = [it EXCEPT ![i].pos = p]
    BY <1>3 DEF Moves
  <2>2. it[i].buf \in Buffers /\ buf[it[i].buf] # None
    BY DEF ItInv, ItShape, Stands
  <2>3. p \in 0..SizeMod - 1 /\ p \in 0..buf[it[i].buf].size
    BY <2>2, SignedSize, SizeModAssumption DEF ItInv, Size
  <2>4. ItShape'
    BY <2>1, <2>3 DEF ItInv, ItShape
  <2>5. ASSUME NEW j \in Iterators PROVE Stands(j)'
    BY <2>1, <2>2, <2>3 DEF ItInv, ItShape, Stands, vars
  <2> QED  BY <1>1, <2>4, <2>5 DEF ItInv
<1> QED  BY <1>2, <1>3

\* An iterator created at a position inside a buffer stands there.
LEMMA CreateStands ==
    ASSUME Positive, ItInv, NEW i \in Iterators, NEW o \in Buffers, buf[o] # None,
           NEW p \in 0..buf[o].size, Create(i, o, p)
    PROVE  ItInv'
<1>1. Inv'
  BY StepInv DEF ItInv, Create
<1>2. p \in 0..SizeMod - 1
  BY SignedSize, SizeModAssumption DEF ItInv
<1>3. ItShape'
  BY <1>2 DEF ItInv, ItShape, Create
<1>4. ASSUME NEW j \in Iterators PROVE Stands(j)'
  BY <1>2 DEF ItInv, ItShape, Stands, vars, Create
<1> QED  BY <1>1, <1>3, <1>4 DEF ItInv

\* What operator+=(index_type) does to an iterator in its buffer, if the
\* caller only adds what is checked or leads to an element.
LEMMA AdvanceMoves ==
    ASSUME Positive, ItInv, NEW i \in Iterators, it[i] # None, NEW n \in Int, Advance(i, n),
           (n >= 0 /\ it[i].pos > 0) \/ it[i].pos + n \in 0..Size(i)
    PROVE  Moves(i)
<1> DEFINE p == it[i].pos
           m == Size(i)
<1>1. it[i].buf \in Buffers /\ buf[it[i].buf] # None /\ p \in Nat /\ p <= m
  BY DEF ItInv, ItShape, Stands, Size
<1>2. m \in Nat /\ m < SizeMod /\ Signed(p) = p /\ Signed(m) = m
  <2>1. p \in 0..m /\ m \in 0..m
    BY <1>1, SoundFields DEF ItInv, Inv, Shape, Size
  <2> QED  BY <1>1, <2>1, SignedSize DEF ItInv, Size
<1>3. CASE Overflows(i, n)
  BY <1>3 DEF Advance, Give, Moves
<1>4. CASE ~Overflows(i, n)
  <2>1. p + n \in 0..m
    BY <1>1, <1>2, <1>4 DEF Overflows
  <2>2. (p + n) % SizeMod = p + n
    BY <1>2, <2>1, SizeModAssumption
  <2> QED  BY <1>4, <2>1, <2>2 DEF Advance, MoveTo, Moves
<1> QED  BY <1>3, <1>4

\* The same for operator-=(index_type).
LEMMA RetreatMoves ==
    ASSUME Positive, ItInv, NEW i \in Iterators, it[i] # None, NEW n \in Int, Retreat(i, n),
           n >= 0 \/ it[i].pos - n \in 0..Size(i)
    PROVE  Moves(i)
<1> DEFINE p == it[i].pos
           m == Size(i)
<1>1. it[i].buf \in Buffers /\ buf[it[i].buf] # None /\ p \in Nat /\ p <= m
  BY DEF ItInv, ItShape, Stands, Size
<1>2. m \in Nat /\ m < SizeMod /\ Signed(p) = p
  <2>1. p \in 0..m /\ m \in 0..m
    BY <1>1, SoundFields DEF ItInv, Inv, Shape, Size
  <2> QED  BY <1>1, <2>1, SignedSize DEF ItInv, Size
<1>3. CASE Underflows(i, n)
  BY <1>3 DEF Retreat, Give, Moves
<1>4. CASE ~Underflows(i, n)
  <2>1. p - n \in 0..m
    BY <1>1, <1>2, <1>4 DEF Underflows
  <2>2. (p - n) % SizeMod = p - n
    BY <1>2, <2>1, SizeModAssumption
  <2> QED  BY <1>4, <2>1, <2>2 DEF Retreat, MoveTo, Moves
<1> QED  BY <1>3, <1>4

\* What a caller does through operator* changes one element.
LEMMA WriteStands ==
    ASSUME Positive, ItInv, NEW i \in Iterators, Write(i)
    PROVE  /\ ItInv'
           /\ RingIntact => RingIntact'
<1> DEFINE o == it[i].buf
<1> PICK v \in Values : buf' = [buf EXCEPT ![o].container[Slot(buf[o], it[i].pos)] = v]
  BY DEF Write
<1>1. /\ o \in Buffers /\ buf[o] # None /\ it[i].pos \in 0..buf[o].size - 1
      /\ Sound(buf[o]) /\ pc = "idle" /\ DOMAIN buf = Buffers
  <2>1. o \in Buffers /\ buf[o] # None /\ it[i].pos \in Nat /\ it[i].pos <= buf[o].size
    BY DEF Write, ItInv, ItShape, Stands
  <2>2. Sound(buf[o]) /\ pc = "idle" /\ DOMAIN buf = Buffers
    BY <2>1 DEF Write, ItInv, Inv, Shape
  <2> QED  BY <2>1, <2>2, SoundFields DEF Write, AtEnd, Size
<1> DEFINE b == buf[o]
           s == Slot(b, it[i].pos)
           d == [b EXCEPT !.container[s] = v]
           c == b.capacity
<1>2. b \in BodyOf(c) /\ s \in 0..c - 1 /\ c \in 0..SizeMod - 1 /\ c \in Capacities \cup {0}
  BY <1>1, SoundFields, SoundAt
<1>3. buf' = [buf EXCEPT ![o] = d]
  BY <1>1
<1> HIDE DEF s
<1>4. d.container = [b.container EXCEPT ![s] = v] /\ d.size = b.size /\ d.capacity = c
      /\ d.index = b.index
  BY <1>2 DEF BodyOf
<1>5. d \in BodyOf(c)
  <2> DEFINE f == [b.container EXCEPT ![s] = v]
  <2>1. f \in [0..c - 1 -> Values \cup {Raw}] /\ d = [b EXCEPT !.container = f]
    BY <1>2 DEF BodyOf
  <2> HIDE DEF f
  <2> QED  BY <1>2, <2>1 DEF BodyOf
<1>6. Sound(d)
  BY <1>1, <1>2, <1>4, <1>5, SoundFields DEF Sound, IsBody
<1>7. d # None
  BY <1>6, SoundFields
<1> HIDE DEF d
<1>8. Inv'
  BY <1>1, <1>3, <1>6, <1>7 DEF Write, ItInv, Inv, Shape, CallFits
<1>9. ItShape' /\ \A j \in Iterators : Stands(j)'
  <2>1. it' = it /\ pc' = "idle"
    BY <1>1 DEF Write, Give
  <2> QED  BY <1>1, <1>3, <1>4, <1>7, <2>1 DEF ItInv, ItShape, Stands
<1>10. ASSUME RingIntact PROVE RingIntact'
  <2>1. RingOK(b)
    BY <1>1, <1>10 DEF RingIntact
  <2>2. \A j : Slot(d, j) = Slot(b, j)
    BY <1>4 DEF Slot
  <2>3. \A q \in 0..c - 1 : d.container[q] = IF q = s THEN v ELSE b.container[q]
    BY <1>2, <1>4 DEF BodyOf
  <2>4. b.container[s] # Raw
    BY <1>1, <1>2, <2>1 DEF RingOK, s
  <2>5. RingOK(d)
    BY <1>4, <2>1, <2>2, <2>3, <2>4, RawAssumption DEF RingOK
  <2> QED  BY <1>1, <1>3, <1>10, <2>5 DEF Write, RingIntact
<1> QED  BY <1>8, <1>9, <1>10 DEF ItInv

-----------------------------------------------------------------------------
\* Every step.

\* A step of the buffers is one of BoundedBuffer.
LEMMA BufferStepIsNext == BufferStep => Next
  BY DEF BufferStep, CallBuffer, Next

\* A step of the buffers leaves the iterators that are kept standing.
LEMMA BufferStepStands ==
    ASSUME Disciplined, ItInv, BufferStep
    PROVE  ItInv'
<1>1. Inv'
  BY StepInv, BufferStepIsNext DEF ItInv
<1>2. ItShape'
  BY DEF ItInv, ItShape, BufferStep, CallBuffer
<1>3. ASSUME NEW i \in Iterators, it'[i] # None
      PROVE  Stands(i)'
  <2>1. it'[i] = it[i] /\ it[i].buf \in Buffers /\ Grows(it[i].buf)
    BY <1>3, BufferStepGrows DEF Disciplined
  <2>2. /\ buf[it[i].buf] # None /\ it[i].pos <= buf[it[i].buf].size
        /\ pc # "idle" => ~Changes(call, it[i].buf)
    BY <1>3, <2>1 DEF ItInv, Stands
  <2>3. buf'[it[i].buf] # None /\ buf'[it[i].buf].size >= buf[it[i].buf].size
    BY <2>1, <2>2, GrowsSize DEF ItInv
  <2>4. it[i].pos \in Nat /\ buf[it[i].buf].size \in Nat /\ buf'[it[i].buf].size \in Nat
    <3>1. Sound(buf[it[i].buf]) /\ Sound(buf'[it[i].buf])
      BY <1>1, <2>1, <2>2, <2>3 DEF ItInv, Inv, Shape
    <3> QED  BY <1>3, <2>1, <3>1, SoundFields DEF ItInv, ItShape
  <2>5. ASSUME pc' # "idle" PROVE ~Changes(call, it[i].buf)'
    <3>1. CASE \E c \in Calls : CallBuffer(c)
      BY <1>3, <2>1, <3>1 DEF CallBuffer, Invoke, Disturbed, Disciplined, Changes
    <3>2. CASE Body /\ UNCHANGED <<it, res>>
      BY <2>1, <2>2, <2>5, <3>2, BodyInCall, BodyKeepsCall DEF ItInv, Changes
    <3> QED  BY <3>1, <3>2 DEF BufferStep
  <2> QED  BY <2>1, <2>2, <2>3, <2>4, <2>5 DEF Stands
<1> QED  BY <1>1, <1>2, <1>3 DEF ItInv, Stands

\* So does a step of an iterator.
LEMMA IteratorStepStands ==
    ASSUME Disciplined, Positive, ItInv, NEW i \in Iterators, IteratorStep(i)
    PROVE  ItInv'
<1> DEFINE o == it[i].buf
<1>1. ASSUME it[i] # None
      PROVE  o \in Buffers /\ buf[o] # None /\ it[i].pos \in 0..Size(i) /\ Size(i) \in Nat
  <2>1. o \in Buffers /\ buf[o] # None /\ it[i].pos \in Nat /\ it[i].pos <= Size(i)
    BY <1>1 DEF ItInv, ItShape, Stands, Size
  <2> QED  BY <2>1, SoundFields DEF ItInv, Inv, Shape, Size
<1>2. ASSUME NEW p \in Buffers, buf[p] # None
      PROVE  buf[p].size \in Nat
  BY <1>2, SoundFields DEF ItInv, Inv, Shape
<1>3. CASE Begin(i)
  <2>1. PICK p \in Buffers : Create(i, p, 0) /\ buf[p] # None
    BY <1>3 DEF Begin, Create
  <2>2. 0 \in 0..buf[p].size
    BY <1>2, <2>1
  <2> QED  BY <2>1, <2>2, CreateStands
<1>4. CASE End(i)
  BY <1>2, <1>4, CreateStands DEF End
<1>5. CASE CopyIterator(i)
  <2>1. PICK j \in Iterators : it[j] # None /\ Create(i, it[j].buf, it[j].pos)
    BY <1>5 DEF CopyIterator
  <2>2. /\ it[j].buf \in Buffers /\ buf[it[j].buf] # None
        /\ it[j].pos \in Nat /\ it[j].pos <= buf[it[j].buf].size
    BY <2>1 DEF ItInv, ItShape, Stands
  <2> QED  BY <1>2, <2>1, <2>2, CreateStands
<1>6. CASE Drop(i)
  <2>1. Inv'
    BY <1>6, StepInv DEF Drop, Use, ItInv
  <2> QED  BY <1>6, <2>1 DEF Drop, Use, ItInv, ItShape, Stands, vars, Changes
<1>7. ASSUME Use(i), Moves(i) PROVE ItInv'
  BY <1>7, MovesStands DEF Use
<1>8. ASSUME Use(i) PROVE Size(i) < SizeMod
  <2>1. Size(i) \in 0..buf[o].size
    BY <1>1, <1>8 DEF Use, Size
  <2> QED  BY <1>1, <1>8, <2>1, SignedSize DEF Use, ItInv
<1>9. CASE Increment(i)
  <2>1. ASSUME ~AtEnd(i)
        PROVE  it[i].pos + 1 \in 0..Size(i) /\ (it[i].pos + 1) % SizeMod = it[i].pos + 1
    BY <1>1, <1>8, <1>9, <2>1, SizeModAssumption DEF Increment, Use, AtEnd
  <2> QED  BY <1>7, <1>9, <2>1 DEF Increment, Give, MoveTo, Moves
<1>10. CASE Decrement(i)
  <2>1. ASSUME ~AtBegin(i)
        PROVE  it[i].pos - 1 \in 0..Size(i) /\ (it[i].pos - 1) % SizeMod = it[i].pos - 1
    BY <1>1, <1>8, <1>10, <2>1, SizeModAssumption DEF Decrement, Use, AtBegin
  <2> QED  BY <1>7, <1>10, <2>1 DEF Decrement, Give, MoveTo, Moves
<1>11. CASE Plus(i)
  <2>1. PICK n \in Jumps : /\ Use(i) /\ LeavesToCheck(i, n, n >= 0 /\ it[i].pos > 0)
                           /\ Advance(i, n)
    BY <1>11 DEF Plus
  <2>2. n \in Int
    BY JumpsAssumption, SizeModAssumption DEF HalfMod
  <2> QED  BY <1>7, <2>1, <2>2, AdvanceMoves DEF LeavesToCheck, Disciplined, Use
<1>12. CASE Minus(i)
  <2>1. PICK n \in Jumps : /\ Use(i) /\ LeavesToCheck(i, -n, n >= 0) /\ Retreat(i, n)
    BY <1>12 DEF Minus
  <2>2. n \in Int
    BY JumpsAssumption, SizeModAssumption DEF HalfMod
  <2>3. n >= 0 \/ it[i].pos - n \in 0..Size(i)
    BY <1>1, <2>1, <2>2 DEF LeavesToCheck, Disciplined, Use
  <2> QED  BY <1>7, <2>1, <2>2, <2>3, RetreatMoves DEF Use
<1>13. ASSUME NEW j \in Iterators, Both(i, j), SameBuffers(i, j)
       PROVE  Signed(it[j].pos) = it[j].pos /\ it[j].pos \in 0..Size(i)
  <2>1. it[j].pos \in 0..Size(i)
    BY <1>1, <1>13 DEF Both, Use, SameBuffers, ItInv, ItShape, Stands, Size
  <2> QED  BY <1>1, <1>13, <2>1, SignedSize DEF Both, Use, ItInv, Size
<1>14. ASSUME NEW j \in Iterators, PlusIterator(i, j) PROVE ItInv'
  <2>1. CASE ~SameBuffers(i, j)
    BY <1>7, <1>14, <2>1 DEF PlusIterator, Both, Give, Moves
  <2>2. CASE SameBuffers(i, j)
    <3>1. /\ Use(i) /\ it[i] # None /\ Advance(i, it[j].pos) /\ it[j].pos \in 0..Size(i)
      BY <1>13, <1>14, <2>2 DEF PlusIterator, Both, Use
    <3> QED  BY <1>1, <1>7, <3>1, AdvanceMoves
  <2> QED  BY <2>1, <2>2
<1>15. ASSUME NEW j \in Iterators, MinusIterator(i, j) PROVE ItInv'
  <2>1. CASE ~SameBuffers(i, j)
    BY <1>7, <1>15, <2>1 DEF MinusIterator, Both, Give, Moves
  <2>2. CASE SameBuffers(i, j)
    <3>1. /\ Use(i) /\ it[i] # None /\ Retreat(i, it[j].pos) /\ it[j].pos \in 0..Size(i)
      BY <1>13, <1>15, <2>2 DEF MinusIterator, Both, Use
    <3> QED  BY <1>1, <1>7, <3>1, RetreatMoves
  <2> QED  BY <2>1, <2>2
<1>16. ASSUME NEW j \in Iterators, Difference(i, j) \/ Compare(i, j) PROVE ItInv'
  BY <1>7, <1>16 DEF Difference, Compare, Both, Give, Moves
<1>17. CASE Dereference(i)
  BY <1>7, <1>17 DEF Dereference, Give, Moves
<1>18. CASE Write(i)
  BY <1>18, WriteStands
<1> QED  BY <1>3, <1>4, <1>5, <1>6, <1>9, <1>10, <1>11, <1>12, <1>14, <1>15, <1>16, <1>17,
            <1>18 DEF IteratorStep

\* Every step keeps the invariant.
LEMMA StepItInv ==
    ASSUME Disciplined, Positive, ItInv, [ItNext]_itVars
    PROVE  ItInv'
<1>1. CASE UNCHANGED itVars
  <2>1. Inv'
    BY <1>1, StepInv DEF ItInv, itVars
  <2> QED  BY <1>1, <2>1 DEF itVars, vars, ItInv, ItShape, Stands, Changes
<1> QED  BY <1>1, BufferStepStands, IteratorStepStands DEF ItNext

\* The invariant holds before the first call.
LEMMA InitItInv == ItInit => ItInv
  BY InitInv DEF ItInit, ItInv, ItShape, Stands

\* The invariant is strong enough.
LEMMA ItInvMeans == ItInv => ItTypeOK /\ IteratorsInRange
<1> SUFFICES ASSUME ItInv PROVE ItTypeOK /\ IteratorsInRange
  OBVIOUS
<1>1. ItTypeOK
  BY InvTypes DEF ItInv, ItShape, Stands, ItTypeOK
<1>2. ASSUME NEW i \in Iterators, it[i] # None
      PROVE  it[i].pos \in 0..Size(i)
  <2>1. it[i].buf \in Buffers /\ buf[it[i].buf] # None /\ it[i].pos \in Nat
        /\ it[i].pos <= Size(i)
    BY <1>2 DEF ItInv, ItShape, Stands, Size
  <2> QED  BY <2>1, SoundFields DEF ItInv, Inv, Shape, Size
<1> QED  BY <1>1, <1>2 DEF IteratorsInRange

\* An iterator of a caller that keeps the discipline has a buffer as long as it
\* exists, and its position does not wrap.
THEOREM ItTypeCorrect ==
    ASSUME Disciplined, Positive
    PROVE  ItSpec => []ItTypeOK
<1>1. ItInv /\ [ItNext]_itVars => ItInv'
  BY StepItInv
<1> QED  BY <1>1, InitItInv, ItInvMeans, PTL DEF ItSpec

\* It never leaves its buffer: the checks for begin and end, for overflow and
\* for underflow suffice.
THEOREM InRange ==
    ASSUME Disciplined, Positive
    PROVE  ItSpec => []IteratorsInRange
<1>1. ItInv /\ [ItNext]_itVars => ItInv'
  BY StepItInv
<1> QED  BY <1>1, InitItInv, ItInvMeans, PTL DEF ItSpec

-----------------------------------------------------------------------------
\* What iterators denote.

\* A push moves no element.
LEMMA GrowsKeeps ==
    ASSUME Inv, RingIntact', NEW o \in Buffers, buf[o] # None, Grows(o),
           NEW p \in 0..buf[o].size - 1
    PROVE  At(buf'[o], p) = At(buf[o], p)
<1> DEFINE b == buf[o]
           c == b.capacity
<1>1. CASE buf'[o] = b
  BY <1>1
<1>2. CASE buf'[o] # b
  <2>1. PICK v \in Values : buf'[o] = Construct(b, v) /\ ~Full(b)
    BY <1>2 DEF Grows
  <2>2. /\ Sound(b) /\ b \in BodyOf(c) /\ c \in Nat \ {0}
        /\ b.size \in 0..c - 1 /\ p \in 0..c - 1 /\ p \in Int /\ p # b.size
    BY <2>1, SoundFields DEF Inv, Shape, Full
  <2>6. /\ Construct(b, v).container = [b.container EXCEPT ![Slot(b, b.size)] = v]
        /\ \A i : Slot(Construct(b, v), i) = Slot(b, i)
        /\ Construct(b, v).size = b.size + 1
    BY <2>2, ConstructFields
  <2>3. RingOK(Construct(b, v))
    BY <2>1, <2>2, SoundConstruct DEF RingIntact
  <2>4. Slot(b, p) # Slot(b, b.size)
    <3>1. /\ p \in 0..Construct(b, v).size - 1 /\ b.size \in 0..Construct(b, v).size - 1
      BY <2>2, <2>6
    <3> QED  BY <2>2, <2>3, <2>6, <3>1 DEF RingOK
  <2>5. Slot(b, p) \in 0..c - 1
    BY <2>2, SlotRange
  <2>7. Construct(b, v).container[Slot(b, p)] = b.container[Slot(b, p)]
    BY <2>2, <2>4, <2>5, <2>6 DEF BodyOf
  <2> QED  BY <2>1, <2>6, <2>7 DEF At
<1> QED  BY <1>1, <1>2

ItInvRings == ItInv /\ RingIntact

\* Before the first call the rings are intact, too.
LEMMA InitItInvRings == ItInit => ItInvRings
  BY InitItInv, InitRings DEF ItInit, ItInvRings, InvRings

\* A step keeps the iterators and the rings.
LEMMA StepItInvRings ==
    ASSUME Disciplined, Positive, ItInvRings, IndexesKept', [ItNext]_itVars
    PROVE  ItInvRings'
<1>1. ItInv'
  BY StepItInv DEF ItInvRings
<1>2. ASSUME BufferStep \/ UNCHANGED vars PROVE RingIntact'
  BY <1>1, <1>2, BufferStepIsNext, StepRings DEF ItInvRings, ItInv
<1>3. ASSUME NEW i \in Iterators, Write(i) PROVE RingIntact'
  BY <1>3, WriteStands DEF ItInvRings
<1>4. ASSUME NEW i \in Iterators, IteratorStep(i), ~Write(i) PROVE UNCHANGED vars
  BY <1>4 DEF IteratorStep, Begin, End, CopyIterator, Create, Drop, Increment, Decrement, Plus,
              Minus, PlusIterator, MinusIterator, Difference, Compare, Dereference, Both, Use
<1> QED  BY <1>1, <1>2, <1>3, <1>4 DEF ItNext, itVars, ItInvRings

\* Capacities that divide 2^w keep the indexes, whatever the iterators do.
THEOREM ItEvenIndexes ==
    ASSUME Disciplined, Positive, EvenWrap
    PROVE  ItSpec => []IndexesKept
<1>1. ItInv => IndexesKept
  BY EvenUnbroken DEF ItInv, Inv, Shape, IndexesKept
<1>2. ItInv /\ [ItNext]_itVars => ItInv'
  BY StepItInv
<1> QED  BY <1>1, <1>2, InitItInv, PTL DEF ItSpec

\* What a disciplined caller reads through an iterator is a constructed element.
THEOREM ReadsConstructed ==
    ASSUME Disciplined, Positive
    PROVE  ItSpec /\ []IndexesKept => []ReadsElements
<1>1. ItInvRings /\ IndexesKept' /\ [ItNext]_itVars => ItInvRings'
  BY StepItInvRings
<1>2. ASSUME ItInvRings PROVE ReadsElements
  <2> SUFFICES ASSUME NEW i \in Iterators, it[i] # None, pc = "idle", ~AtEnd(i)
               PROVE  At(buf[it[i].buf], it[i].pos) # Raw
    BY DEF ReadsElements
  <2>1. it[i].buf \in Buffers /\ buf[it[i].buf] # None /\ it[i].pos \in 0..Size(i)
    BY <1>2, ItInvMeans DEF ItInvRings, ItInv, ItShape, Stands, IteratorsInRange
  <2>2. Sound(buf[it[i].buf]) /\ RingOK(buf[it[i].buf])
    BY <1>2, <2>1 DEF ItInvRings, ItInv, Inv, Shape, RingIntact
  <2>3. it[i].pos \in 0..buf[it[i].buf].size - 1
    BY <2>1, <2>2, SoundFields DEF AtEnd, Size
  <2> QED  BY <2>2, <2>3, RingAt, RawAssumption
<1> QED  BY <1>1, <1>2, InitItInvRings, PTL DEF ItSpec

\* The iterators that a disciplined caller keeps go on denoting the same
\* elements whatever happens to the buffers.
THEOREM StaysOn ==
    ASSUME Disciplined, Positive
    PROVE  ItSpec /\ []IndexesKept => StaysOnElement
<1>1. ItInvRings /\ IndexesKept' /\ [ItNext]_itVars => ItInvRings'
  BY StepItInvRings
<1>2. ASSUME ItInvRings, RingIntact', BufferStep, NEW i \in Iterators,
             it[i] # None, it'[i] # None, it[i].pos < Size(i)
      PROVE  At(buf'[it[i].buf], it[i].pos) = At(buf[it[i].buf], it[i].pos)
  <2>1. it[i].buf \in Buffers /\ Grows(it[i].buf)
    BY <1>2, BufferStepGrows DEF ItInvRings, Disciplined
  <2>2. buf[it[i].buf] # None /\ it[i].pos \in Nat
    BY <1>2, <2>1 DEF ItInvRings, ItInv, ItShape, Stands
  <2>3. it[i].pos \in 0..buf[it[i].buf].size - 1
    BY <1>2, <2>1, <2>2, SoundFields DEF ItInvRings, ItInv, Inv, Shape, Size
  <2> QED  BY <1>2, <2>1, <2>2, <2>3, GrowsKeeps DEF ItInvRings, ItInv
<1>3. ItInvRings /\ RingIntact' =>
        [BufferStep =>
            \A i \in Iterators :
                (it[i] # None /\ it'[i] # None /\ it[i].pos < Size(i)) =>
                    At(buf'[it[i].buf], it[i].pos) = At(buf[it[i].buf], it[i].pos)]_itVars
  BY <1>2
<1>4. ItInvRings' => RingIntact'
  BY DEF ItInvRings
<1> QED  BY <1>1, <1>3, <1>4, InitItInvRings, PTL DEF ItSpec, StaysOnElement
=============================================================================
