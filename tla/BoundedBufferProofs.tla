------------------------- MODULE BoundedBufferProofs -------------------------
(***************************************************************************)
(* The invariants of BoundedBuffer, for any calls, capacities, sizes of an *)
(* element, width of size_t, and any elements that throw.                  *)
(*                                                                         *)
(* Inv is inductive: every object is well-formed (Shape), and the place    *)
(* the caller is at fits the call it is in and the objects that exist      *)
(* (CallFits).  The ring's invariant is proved on top of it, and on both   *)
(* of them that the objects are the sequences of BoundedSequences.         *)
(***************************************************************************)
EXTENDS BoundedBufferRefinement, QueueBodyProofs, FiniteSetTheorems

\* The capacities that the caller's calls ask for.
Capacities == {c.n : c \in {d \in Calls : d.op = "new"}}
              \cup {Len(c.eles) : c \in {d \in Calls : d.op = "make"}}

\* What every object is, also a moved-from one.
Sound(b) == /\ IsBody(b) /\ b.size <= b.capacity
            /\ b.capacity \in Capacities \cup {0}

-----------------------------------------------------------------------------
\* Objects.

\* The fields of an object have their types, and it is not None.
LEMMA SoundFields ==
    ASSUME NEW b, Sound(b)
    PROVE  /\ b.size \in Nat /\ b.capacity \in 0..SizeMod - 1 /\ b.size <= b.capacity
           /\ b.capacity \in Capacities \cup {0}
           /\ b \in BodyOf(b.capacity) /\ b # None
<1> PICK c \in 0..SizeMod - 1 : b \in BodyOf(c)
  BY DEF Sound, IsBody
<1>1. b.size \in Nat /\ b.capacity = c
  BY DEF BodyOf
<1> QED  BY <1>1, NoneAssumption DEF Sound

\* A new object of a capacity that some object may have is well-formed.
LEMMA SoundNew ==
    ASSUME NEW c \in 0..SizeMod - 1, c \in Capacities \cup {0}
    PROVE  /\ Sound(NewBody(c)) /\ NewBody(c).size = 0 /\ NewBody(c).capacity = c
           /\ NewBody(c) # None
<1>1. NewBody(c) \in BodyOf(c)
  BY SizeModAssumption DEF NewBody, BodyOf
<1>2. NewBody(c).size = 0 /\ NewBody(c).capacity = c
  BY DEF NewBody
<1>3. Sound(NewBody(c))
  BY <1>1, <1>2 DEF Sound, IsBody
<1> QED  BY <1>2, <1>3, SoundFields

\* _push() into an object that is not full.
LEMMA SoundConstruct ==
    ASSUME NEW b, Sound(b), ~Full(b), NEW v \in Values \cup {Raw}
    PROVE  /\ Sound(Construct(b, v)) /\ Construct(b, v) # None
           /\ Construct(b, v).size = b.size + 1
           /\ Construct(b, v).capacity = b.capacity
<1> DEFINE c == b.capacity
<1>1. c \in Nat \ {0} /\ c \in 0..SizeMod - 1 /\ b \in BodyOf(c) /\ b.size < c /\ b.size \in Nat
  BY SoundFields DEF Full
<1>2. Construct(b, v) \in BodyOf(c)
  BY <1>1, ConstructType
<1>3. Construct(b, v).size = b.size + 1 /\ Construct(b, v).capacity = c
  BY <1>1 DEF Construct, BodyOf
<1>4. Sound(Construct(b, v))
  BY <1>1, <1>2, <1>3 DEF Sound, IsBody
<1> QED  BY <1>3, <1>4, SoundFields

\* _pop() from an object that is not empty.
LEMMA SoundDestroy ==
    ASSUME NEW b, Sound(b), ~Empty(b)
    PROVE  /\ Sound(Destroy(b)) /\ Destroy(b) # None
           /\ Destroy(b).size = b.size - 1 /\ Destroy(b).capacity = b.capacity
<1> DEFINE c == b.capacity
<1>1. c \in Nat \ {0} /\ c \in 0..SizeMod - 1 /\ b \in BodyOf(c) /\ b.size <= c
      /\ b.size \in Nat \ {0}
  BY SoundFields DEF Empty
<1>2. Destroy(b) \in BodyOf(c)
  BY <1>1, DestroyType
<1>3. Destroy(b).size = b.size - 1 /\ Destroy(b).capacity = c
  BY <1>1 DEF Destroy, BodyOf
<1>4. Sound(Destroy(b))
  BY <1>1, <1>2, <1>3 DEF Sound, IsBody
<1> QED  BY <1>3, <1>4, SoundFields

\* at() reads a slot of the object's memory.
LEMMA SoundAt ==
    ASSUME NEW b, Sound(b), NEW i \in 0..b.size - 1
    PROVE  Slot(b, i) \in 0..b.capacity - 1 /\ At(b, i) \in Values \cup {Raw}
<1>1. b.capacity \in Nat \ {0} /\ b \in BodyOf(b.capacity) /\ i \in Int
  BY SoundFields
<1> QED  BY <1>1, SlotRange

\* The elements in an object's memory can be counted, and an intact empty
\* ring has none.
LEMMA ReleaseCount ==
    ASSUME NEW b, Sound(b)
    PROVE  LET n == Cardinality({s \in DOMAIN b.container : b.container[s] # Raw})
           IN  n \in Nat /\ (RingOK(b) /\ Empty(b) => n = 0)
<1> DEFINE live == {s \in DOMAIN b.container : b.container[s] # Raw}
<1>1. DOMAIN b.container = 0..b.capacity - 1 /\ b.capacity \in Nat
  BY SoundFields DEF BodyOf
<1>2. IsFiniteSet(0..b.capacity - 1)
  BY <1>1, FS_Interval
<1>3. IsFiniteSet(live)
  BY <1>1, <1>2, FS_Subset
<1>4. ASSUME RingOK(b), Empty(b)
      PROVE  live = {}
  BY <1>1, <1>4 DEF RingOK, Empty
<1> QED  BY <1>3, <1>4, FS_CardinalityType, FS_EmptySet

-----------------------------------------------------------------------------
\* The inductive invariant, part by part.

\* Every object is well-formed.
Shape ==
    /\ DOMAIN buf = Buffers
    /\ \A b \in Buffers : buf[b] # None => Sound(buf[b])
    /\ tmp # None => Sound(tmp)
    /\ pc \in {"idle", "start", "copy", "fill", "clear"}
    /\ IF pc = "idle" THEN call = None ELSE call \in Call
    /\ pc \in {"idle", "start"} => tmp = None
    /\ leaked \in Nat /\ throws \in Nat

\* A call starts on the objects it needs.
StartFits ==
    /\ call \in Calls
    /\ call.op \in Creating <=> buf[call.b] = None
    /\ call.op \in TwoBuffers => buf[call.rhs] # None

\* A copy in progress has the source's capacity and not more elements.
CopyFits ==
    /\ call.op \in CopyOps /\ call.rhs \in Buffers /\ call.b # call.rhs
    /\ call.op = "copy_assign" <=> buf[call.b] # None
    /\ buf[call.rhs] # None /\ tmp # None
    /\ tmp.capacity = buf[call.rhs].capacity /\ tmp.size <= buf[call.rhs].size

\* make_buffer() fills a local object, push_many() the caller's.
FillFits ==
    /\ call.op \in Filling /\ Len(call.eles) < SizeMod
    /\ IF call.op = "make" THEN tmp # None /\ buf[call.b] = None
                           ELSE tmp = None /\ buf[call.b] # None

\* A local object is cleared when there is one, else the caller's.
ClearFits ==
    /\ call.op \in {"make", "copy_assign", "clear", "destroy"}
    /\ IF call.op \in {"make", "copy_assign"} THEN tmp # None
                                              ELSE tmp = None /\ buf[call.b] # None

CallFits == /\ pc = "start" => StartFits
            /\ pc = "copy" => CopyFits
            /\ pc = "fill" => FillFits
            /\ pc = "clear" => ClearFits

Inv == Shape /\ CallFits

\* The inductive invariant is about well-formed objects, which have types.
LEMMA InvTypes == Inv => TypeOK
  BY DEF Inv, Shape, CallFits, CopyFits, TypeOK, Sound

\* The fields of the call in progress.
LEMMA CallFields ==
    ASSUME Shape, pc # "idle"
    PROVE  /\ call \in Call /\ call # None /\ call.op \in Ops /\ call.b \in Buffers
           /\ call.rhs \in Buffers \cup {None} /\ call.eles \in Seq(Argument)
           /\ call.n \in 0..SizeMod - 1
  BY NoneAssumption DEF Shape, Call

\* What is pushed is an element, made from the argument that is due.
LEMMA PassedType ==
    ASSUME NEW e \in Argument
    PROVE  Passed(e) \in Values
  BY TransferAssumption DEF Passed, Argument

\* The element that a push of one, or of the next of many, constructs.
LEMMA PassedTypes ==
    ASSUME Shape, pc # "idle"
    PROVE  /\ call.eles # <<>> => Passed(Head(call.eles)) \in Values
           /\ call.n < Len(call.eles) => Passed(call.eles[call.n + 1]) \in Values
<1>1. call.eles \in Seq(Argument) /\ call.n \in Nat
  BY CallFields, SizeModAssumption
<1>2. call.eles # <<>> => Head(call.eles) \in Argument
  BY <1>1
<1>3. call.n < Len(call.eles) => call.eles[call.n + 1] \in Argument
  BY <1>1
<1> QED  BY <1>2, <1>3, PassedType

\* The parts of an operator of CALLS that say what the call's arguments are.
LEMMA StartFields ==
    ASSUME Inv, pc = "start"
    PROVE  /\ call.op \in TwoBuffers => call.rhs \in Buffers
           /\ call.op \in Filling \cup {"push"} => call.eles # <<>>
           /\ call.n \in 0..SizeMod - 1 /\ Len(call.eles) \in 0..SizeMod - 1
           /\ call.op = "new" => call.n \in Capacities
           /\ call.op = "make" => Len(call.eles) \in Capacities
<1>1. call \in Calls
  BY DEF Inv, CallFits, StartFits
<1>2. call \in Call /\ Len(call.eles) < SizeMod
  BY <1>1, CallsAssumption
<1>3. call.n \in 0..SizeMod - 1 /\ Len(call.eles) \in Nat
  BY <1>2 DEF Call
<1>4. Len(call.eles) \in 0..SizeMod - 1
  BY <1>2, <1>3, SizeModAssumption
<1> QED  BY <1>1, <1>3, <1>4, CallsAssumption DEF Capacities

\* Nothing exists at the beginning.
LEMMA InitInv == Init => Inv
  BY DEF Init, Inv, Shape, CallFits

\* A step keeps all of it.
LEMMA StepInv == Inv /\ [Next]_vars => Inv'
<1> SUFFICES ASSUME Inv, [Next]_vars PROVE Inv'
  OBVIOUS
<1> USE DEF Inv, Shape, CallFits, StartFits, CopyFits, FillFits, ClearFits
<1>1. ASSUME NEW c \in Calls, Invoke(c)
      PROVE  Inv'
  BY <1>1, NoneAssumption, CallsAssumption DEF Invoke
<1>2. ASSUME pc # "idle"
      PROVE  /\ call \in Call /\ call # None /\ call.op \in Ops /\ call.b \in Buffers
             /\ call.rhs \in Buffers \cup {None}
             /\ pc = "start" => /\ call.op \in TwoBuffers => call.rhs \in Buffers
                                /\ call.op \in Filling \cup {"push"} => call.eles # <<>>
                                /\ call.n \in 0..SizeMod - 1
                                /\ Len(call.eles) \in 0..SizeMod - 1
                                /\ call.op = "new" => call.n \in Capacities
                                /\ call.op = "make" => Len(call.eles) \in Capacities
  BY <1>2, CallFields, StartFields DEF Call
<1>3. ASSUME pc # "idle"
      PROVE  /\ call.eles # <<>> => Passed(Head(call.eles)) \in Values
             /\ call.n < Len(call.eles) => Passed(call.eles[call.n + 1]) \in Values
  BY <1>3, PassedTypes
<1>4. CASE New
  BY <1>4, <1>2, SoundNew DEF New, In, Set, Return, This
<1>5. CASE NewRefused
  BY <1>5 DEF NewRefused, In, Return
<1>6. CASE Refused
  BY <1>6 DEF Refused, In, Return
<1>7. CASE Push
  <2>1. call.eles # <<>> /\ This # None /\ ~Full(This)
    BY <1>2, <1>7 DEF Push, In, Refuses, This, Creating
  <2>2. /\ Sound(Construct(This, Passed(Head(call.eles))))
        /\ Construct(This, Passed(Head(call.eles))) # None
    BY <1>2, <1>3, <1>7, <2>1, SoundConstruct DEF Push, In, This
  <2> QED  BY <1>2, <1>7, <2>2 DEF Push, In, Set, Return
<1>8. CASE PushThrows
  BY <1>8 DEF PushThrows, In, Return, ElementThrows
<1>9. CASE Pop
  <2>1. This # None /\ ~Empty(This)
    BY <1>9 DEF Pop, In, Refuses, This, Creating
  <2>2. Sound(Destroy(This)) /\ Destroy(This) # None
    BY <1>2, <1>9, <2>1, SoundDestroy DEF Pop, In, This
  <2> QED  BY <1>2, <1>9, <2>2 DEF Pop, In, Set, Return
<1>10. CASE Front
  BY <1>10 DEF Front, In, Return
<1>11. CASE Back
  BY <1>11 DEF Back, In, Return
<1>12. CASE Observe
  BY <1>12 DEF Observe, In, Return
<1>13. CASE Swap
  BY <1>13, <1>2 DEF Swap, In, Return, SwapOps, TwoBuffers, Creating
<1>14. CASE MoveConstruct
  <2>1. Sound(MovedFrom)
    BY SoundNew, SizeModAssumption DEF MovedFrom
  <2> QED  BY <1>2, <1>14, <2>1 DEF MoveConstruct, In, Return, TwoBuffers
<1>15. CASE AssignSelf
  BY <1>15 DEF AssignSelf, In, Return
<1>16. CASE CopyStart
  BY <1>16, <1>2, SoundNew, SoundFields DEF CopyStart, In, CopyOps, TwoBuffers, Creating
<1>17. CASE CopyElement
  <2>1. /\ Sound(tmp) /\ Sound(buf[call.rhs]) /\ tmp.size \in 0..buf[call.rhs].size - 1
        /\ ~Full(tmp)
    BY <1>17, SoundFields DEF CopyElement, Copying, Full
  <2> DEFINE v == At(buf[call.rhs], tmp.size)
  <2> DEFINE d == Construct(tmp, Copied(v))
  <2>5. Copied(v) \in Values \cup {Raw}
    BY <2>1, SoundAt, TransferAssumption
  <2>2. Sound(d) /\ d # None /\ d.size = tmp.size + 1 /\ d.capacity = tmp.capacity
    BY <2>1, <2>5, SoundConstruct
  <2>3. d.size <= buf[call.rhs].size
    BY <2>1, <2>2, SoundFields
  <2> HIDE DEF d
  <2>4. tmp' = d /\ UNCHANGED <<buf, pc, call, ret, leaked, throws>>
    BY <1>17 DEF CopyElement, d
  <2> QED  BY <1>2, <1>17, <2>2, <2>3, <2>4 DEF CopyElement, Copying
<1>18. CASE CopyThrows
  BY <1>18, <1>2, ReleaseCount DEF CopyThrows, In, Copying, Release, Return, ElementThrows
<1>19. CASE CopyConstructed
  BY <1>19, <1>2 DEF CopyConstructed, In, Set, Return
<1>20. CASE CopyAssigned
  BY <1>20, <1>2 DEF CopyAssigned, In, Set, This
<1>21. CASE MakeStart
  <2>1. Len(call.eles) \in 0..SizeMod - 1 /\ Len(call.eles) < SizeMod
    BY <1>21, StartFields, SizeModAssumption DEF MakeStart, In
  <2> QED  BY <1>21, <1>2, <2>1, SoundNew DEF MakeStart, In, Filling, Creating
<1>22. CASE PushManyStart
  <2>1. Len(call.eles) < SizeMod
    BY <1>22, StartFields, SizeModAssumption DEF PushManyStart, In
  <2> QED  BY <1>22, <1>2, <2>1 DEF PushManyStart, In, Filling, Creating
<1>23. CASE Fill
  <2>1. pc = "fill" /\ call.op \in {"make", "push_many"} /\ ~Full(Subject)
        /\ call.n < Len(call.eles)
    BY <1>23 DEF Fill, MoreToFill, Refuses, Filling
  <2>2. call' = [call EXCEPT !.n = @ + 1] /\ call.n + 1 \in 0..SizeMod - 1
    <3>1. call.n \in 0..SizeMod - 1 /\ Len(call.eles) \in Nat /\ Len(call.eles) < SizeMod
      BY <1>23, <2>1, CallFields DEF Fill, MoreToFill
    <3> QED  BY <1>23, <2>1, <3>1, SizeModAssumption DEF Fill
  <2>3. call' \in Call /\ call'.op = call.op /\ call'.b = call.b /\ call'.eles = call.eles
    BY <1>2, <2>1, <2>2 DEF Call
  <2>5. Passed(call.eles[call.n + 1]) \in Values
    BY <1>3, <2>1
  <2>4. /\ Sound(Construct(Subject, Passed(call.eles[call.n + 1])))
        /\ Construct(Subject, Passed(call.eles[call.n + 1])) # None
    BY <1>2, <2>5, <2>1, SoundConstruct DEF Subject, This
  <2> QED  BY <1>2, <1>23, <2>1, <2>3, <2>4 DEF Fill, Subject, SetSubject, Set, This
<1>24. CASE FillRefused
  BY <1>24, <1>2 DEF FillRefused, In, MoreToFill, Unwind, Return, Filling
<1>25. CASE FillThrows
  BY <1>25, <1>2 DEF FillThrows, In, MoreToFill, Unwind, Return, Filling, ElementThrows
<1>26. CASE Made
  BY <1>26, <1>2 DEF Made, In, MoreToFill, Set, Return
<1>27. CASE PushedMany
  BY <1>27, <1>2 DEF PushedMany, In, MoreToFill, Return
<1>28. CASE ClearStart
  BY <1>28, <1>2 DEF ClearStart, In, Creating
<1>29. CASE ClearElement
  BY <1>29, <1>2, SoundDestroy DEF ClearElement, In, Subject, SetSubject, Set, This
<1>30. CASE Cleared
  BY <1>30, <1>2 DEF Cleared, In, Return
<1>31. CASE Destroyed
  BY <1>31, <1>2, ReleaseCount DEF Destroyed, In, Set, This, Release, Return
<1>32. CASE Dropped
  BY <1>32, <1>2, ReleaseCount DEF Dropped, In, Release
<1>33. CASE UNCHANGED vars
  BY <1>33 DEF vars
<1> QED  BY <1>1, <1>4, <1>5, <1>6, <1>7, <1>8, <1>9, <1>10, <1>11, <1>12, <1>13, <1>14,
  <1>15, <1>16, <1>17, <1>18, <1>19, <1>20, <1>21, <1>22, <1>23, <1>24, <1>25, <1>26,
  <1>27, <1>28, <1>29, <1>30, <1>31, <1>32, <1>33
  DEF Next, Body

\* Every variable of the buffer has its type, whatever is called and whatever
\* throws; in particular no element count becomes negative or exceeds the
\* capacity.
THEOREM TypeCorrect == Spec => []TypeOK
<1>1. Inv /\ UNCHANGED vars => Inv'
  BY StepInv
<1> QED  BY InitInv, StepInv, InvTypes, PTL DEF Spec

-----------------------------------------------------------------------------
\* Rings.

\* index_ never wraps in the middle of an object's elements, or its wrap cannot
\* be seen.
IndexesKept == /\ \A b \in Buffers : buf[b] # None => Unbroken(buf[b])
               /\ tmp # None => Unbroken(tmp)

\* Each capacity asked for divides 2^w.
EvenWrap == \A c \in Capacities \ {0} : WrapsEvenly(c)

\* The wrap of index_ is not seen in an object whose capacity divides 2^w, nor in
\* one without a slot.
LEMMA EvenUnbroken ==
    ASSUME EvenWrap, NEW b, Sound(b)
    PROVE  Unbroken(b)
<1>1. /\ b.capacity \in Capacities \cup {0} /\ b.size \in Nat /\ b.size <= b.capacity
      /\ b \in BodyOf(b.capacity)
  BY SoundFields
<1>2. b.index \in 0..SizeMod - 1 /\ SizeMod \in Nat
  BY <1>1, SizeModAssumption DEF BodyOf
<1>3. CASE b.capacity = 0
  BY <1>1, <1>2, <1>3 DEF Unbroken
<1>4. CASE b.capacity # 0
  BY <1>1, <1>4 DEF Unbroken, EvenWrap
<1> QED  BY <1>3, <1>4

\* Whoever asks only for capacities that divide 2^w need not count: then index_
\* may wrap wherever it does.
THEOREM EvenIndexes ==
    ASSUME EvenWrap
    PROVE  Spec => []IndexesKept
<1>1. Inv => IndexesKept
  BY EvenUnbroken DEF Inv, Shape, IndexesKept
<1>2. Inv /\ UNCHANGED vars => Inv'
  BY StepInv
<1> QED  BY <1>1, InitInv, StepInv, PTL DEF Spec

\* An object without elements, of any capacity.
LEMMA RingNew == ASSUME NEW c \in Nat PROVE RingOK(NewBody(c))
  BY DEF NewBody, RingOK

\* What QueueBodyProofs proves of a ring, for well-formed objects.
LEMMA RingConstruct ==
    ASSUME NEW b, Sound(b), RingOK(b), ~Full(b), NEW v \in Values, Unbroken(Construct(b, v))
    PROVE  RingOK(Construct(b, v))
<1>1. b.capacity \in Nat \ {0} /\ b \in BodyOf(b.capacity)
  BY SoundFields DEF Full
<1> QED  BY <1>1, ConstructRing

\* _pop() from a well-formed object.
LEMMA RingDestroy ==
    ASSUME NEW b, Sound(b), RingOK(b), ~Empty(b)
    PROVE  RingOK(Destroy(b))
<1>1. b.capacity \in Nat \ {0} /\ b \in BodyOf(b.capacity)
  BY SoundFields DEF Empty
<1> QED  BY <1>1, DestroyRing

\* at() on an intact ring finds a constructed element.
LEMMA RingAt ==
    ASSUME NEW b, Sound(b), RingOK(b), NEW i \in 0..b.size - 1
    PROVE  At(b, i) \in Values
<1>1. Slot(b, i) \in 0..b.capacity - 1 /\ At(b, i) \in Values \cup {Raw}
  BY SoundAt
<1>2. b.container[Slot(b, i)] # Raw
  BY <1>1 DEF RingOK
<1> QED  BY <1>1, <1>2 DEF At

\* A step keeps the rings.
LEMMA StepRings ==
    ASSUME Inv, RingIntact, Inv', IndexesKept', [Next]_vars
    PROVE  RingIntact'
<1> USE DEF Inv, Shape, CallFits, StartFits, CopyFits, FillFits, ClearFits, RingIntact
<1>1. CASE UNCHANGED <<buf, tmp>>
  BY <1>1
<1>2. ASSUME pc # "idle"
      PROVE  /\ call.b \in Buffers
             /\ call.eles # <<>> => Passed(Head(call.eles)) \in Values
             /\ call.n < Len(call.eles) => Passed(call.eles[call.n + 1]) \in Values
             /\ pc = "start" => /\ call.op \in TwoBuffers => call.rhs \in Buffers
                                /\ call.op = "push" => call.eles # <<>>
                                /\ call.n \in Nat /\ Len(call.eles) \in Nat
  BY <1>2, CallFields, StartFields, PassedTypes
<1>3. CASE New
  BY <1>2, <1>3, RingNew DEF New, In, Set
<1>4. CASE Push
  <2>1. This # None /\ ~Full(This) /\ Passed(Head(call.eles)) \in Values
    BY <1>2, <1>4 DEF Push, In, Refuses, This, Creating
  <2> DEFINE d == Construct(This, Passed(Head(call.eles)))
  <2>2. Sound(This) /\ RingOK(This) /\ d # None
    BY <1>2, <1>4, <2>1, SoundConstruct DEF Push, In, This
  <2>3. call.b \in Buffers /\ buf' = [buf EXCEPT ![call.b] = d] /\ tmp' = tmp
    BY <1>2, <1>4 DEF Push, In, Set
  <2> HIDE DEF d
  <2>4. Unbroken(d)
    BY <2>2, <2>3 DEF IndexesKept
  <2>5. RingOK(d)
    BY <2>1, <2>2, <2>4, RingConstruct DEF d
  <2> QED  BY <2>3, <2>5
<1>5. CASE Pop
  <2>1. This # None /\ ~Empty(This)
    BY <1>5 DEF Pop, In, Refuses, This, Creating
  <2>2. RingOK(Destroy(This))
    BY <1>2, <1>5, <2>1, RingDestroy DEF Pop, In, This
  <2> QED  BY <1>2, <1>5, <2>2 DEF Pop, In, Set
<1>6. CASE Swap
  BY <1>2, <1>6 DEF Swap, In, SwapOps, TwoBuffers, Creating
<1>7. CASE MoveConstruct
  <2>1. RingOK(MovedFrom)
    BY RingNew DEF MovedFrom
  <2> QED  BY <1>2, <1>7, <2>1 DEF MoveConstruct, In, TwoBuffers
<1>8. CASE CopyStart
  BY <1>2, <1>8, RingNew, SoundFields DEF CopyStart, In, CopyOps, TwoBuffers
<1>9. CASE CopyElement
  <2>1. /\ Sound(tmp) /\ RingOK(tmp) /\ ~Full(tmp)
        /\ Sound(buf[call.rhs]) /\ RingOK(buf[call.rhs])
        /\ tmp.size \in 0..buf[call.rhs].size - 1
    BY <1>9, SoundFields DEF CopyElement, Copying, Full
  <2> DEFINE v == Copied(At(buf[call.rhs], tmp.size))
             d == Construct(tmp, v)
  <2>2. v \in Values
    BY <2>1, RingAt, TransferAssumption
  <2>3. tmp' = d /\ buf' = buf
    BY <1>9 DEF CopyElement
  <2> HIDE DEF v
  <2>4. d # None
    BY <2>1, <2>2, SoundConstruct
  <2> HIDE DEF d
  <2>5. Unbroken(d)
    BY <2>3, <2>4 DEF IndexesKept
  <2>6. RingOK(d)
    BY <2>1, <2>2, <2>5, RingConstruct DEF d
  <2> QED  BY <2>3, <2>6
<1>10. CASE CopyThrows
  BY <1>10 DEF CopyThrows
<1>11. CASE CopyConstructed \/ CopyAssigned
  BY <1>2, <1>11 DEF CopyConstructed, CopyAssigned, Set, This
<1>12. CASE MakeStart
  BY <1>2, <1>12, RingNew DEF MakeStart, In
<1>13. CASE Fill
  <2>1. pc = "fill" /\ ~Full(Subject) /\ Passed(call.eles[call.n + 1]) \in Values
    BY <1>2, <1>13 DEF Fill, MoreToFill, Refuses, Filling
  <2> DEFINE v == Passed(call.eles[call.n + 1])
             d == Construct(Subject, v)
  <2>2. Sound(Subject) /\ RingOK(Subject) /\ call.b \in Buffers
    BY <1>2, <2>1 DEF Subject, This
  <2>3. IF tmp = None THEN buf' = [buf EXCEPT ![call.b] = d] /\ tmp' = tmp
                      ELSE tmp' = d /\ buf' = buf
    BY <1>13 DEF Fill, SetSubject, Set
  <2>4. d # None
    BY <2>1, <2>2, SoundConstruct
  <2> HIDE DEF d
  <2>5. Unbroken(d)
    BY <2>2, <2>3, <2>4 DEF IndexesKept
  <2>6. RingOK(d)
    BY <2>1, <2>2, <2>5, RingConstruct DEF d
  <2> QED  BY <2>3, <2>4, <2>6
<1>14. CASE Made
  BY <1>2, <1>14 DEF Made, MoreToFill, Set
<1>15. CASE ClearElement
  <2>1. pc = "clear" /\ ~Empty(Subject)
    BY <1>15 DEF ClearElement
  <2>2. RingOK(Destroy(Subject))
    BY <1>2, <2>1, RingDestroy DEF Subject, This
  <2> QED  BY <1>2, <1>15, <2>1, <2>2 DEF ClearElement, Subject, SetSubject, Set, This
<1>16. CASE Destroyed
  BY <1>2, <1>16 DEF Destroyed, Set
<1>17. CASE Dropped
  BY <1>17 DEF Dropped
<1>18. \/ UNCHANGED <<buf, tmp>> \/ New \/ Push \/ Pop \/ Swap \/ MoveConstruct \/ CopyStart
       \/ CopyElement \/ CopyThrows \/ CopyConstructed \/ CopyAssigned \/ MakeStart \/ Fill
       \/ Made \/ ClearElement \/ Destroyed \/ Dropped
  <2>1. ASSUME NEW c \in Calls, Invoke(c) PROVE UNCHANGED <<buf, tmp>>
    BY <2>1 DEF Invoke
  <2>2. CASE NewRefused \/ Refused \/ PushThrows \/ Front \/ Back \/ Observe \/ AssignSelf
    BY <2>2 DEF NewRefused, Refused, PushThrows, Front, Back, Observe, AssignSelf
  <2>3. CASE PushManyStart \/ FillRefused \/ FillThrows \/ PushedMany \/ ClearStart \/ Cleared
    BY <2>3 DEF PushManyStart, FillRefused, FillThrows, PushedMany, ClearStart, Cleared, Unwind
  <2>4. CASE UNCHANGED vars
    BY <2>4 DEF vars
  <2> QED  BY <2>1, <2>2, <2>3, <2>4 DEF Next, Body
<1> QED  BY <1>1, <1>3, <1>4, <1>5, <1>6, <1>7, <1>8, <1>9, <1>10, <1>11, <1>12, <1>13,
            <1>14, <1>15, <1>16, <1>17, <1>18

\* Both invariants.
InvRings == Inv /\ RingIntact

\* The rings are intact before the first call, and a step keeps them so.
LEMMA InitRings == Init => InvRings
  BY InitInv DEF InvRings, Init, RingIntact

\* Every step keeps the invariant and the rings.
LEMMA StepInvRings == InvRings /\ IndexesKept' /\ [Next]_vars => InvRings'
  BY StepInv, StepRings DEF InvRings

\* As long as no index_ wraps in the middle of its object's elements, live slots
\* and windows agree in every object, whatever throws and however memory is
\* exchanged; for capacities that divide 2^w, for ever.
THEOREM RingsIntact == Spec /\ []IndexesKept => []RingIntact
<1>1. InvRings /\ IndexesKept' /\ [Next]_vars => InvRings'
  BY StepInvRings
<1>2. InvRings => RingIntact
  BY DEF InvRings
<1> QED  BY <1>1, <1>2, InitRings, PTL DEF Spec

-----------------------------------------------------------------------------
\* Lifetimes.

\* A step releases constructed elements only where a copy is interrupted.
LEMMA StepLeaks ==
    ASSUME InvRings, [Next]_vars, leaked' # leaked
    PROVE  CopyThrows
<1> USE DEF InvRings, Inv, Shape, CallFits, ClearFits
<1>1. ASSUME NEW b, Sound(b), RingOK(b), Empty(b), Release(b)
      PROVE  FALSE
  BY <1>1, ReleaseCount DEF Release
<1>2. CASE Destroyed
  <2>1. buf[call.b] # None /\ call.b \in Buffers
    BY <1>2, CallFields DEF Destroyed
  <2> QED  BY <1>1, <1>2, <2>1 DEF Destroyed, Subject, This, RingIntact
<1>3. CASE Dropped
  BY <1>1, <1>3 DEF Dropped, RingIntact
<1>4. ASSUME NEW c \in Calls, Invoke(c) PROVE FALSE
  BY <1>4 DEF Invoke
<1>5. CASE New \/ NewRefused \/ Refused \/ Push \/ PushThrows \/ Pop \/ Front \/ Back
           \/ Observe \/ Swap \/ MoveConstruct \/ AssignSelf
  BY <1>5 DEF New, NewRefused, Refused, Push, PushThrows, Pop, Front, Back, Observe, Swap,
              MoveConstruct, AssignSelf
<1>6. CASE CopyStart \/ CopyElement \/ CopyConstructed \/ CopyAssigned \/ MakeStart
           \/ PushManyStart \/ Fill \/ FillRefused \/ FillThrows \/ Made \/ PushedMany
           \/ ClearStart \/ ClearElement \/ Cleared
  BY <1>6 DEF CopyStart, CopyElement, CopyConstructed, CopyAssigned, MakeStart,
              PushManyStart, Fill, FillRefused, FillThrows, Made, PushedMany, ClearStart,
              ClearElement, Cleared, Unwind, Return
<1>7. CASE UNCHANGED vars
  BY <1>7 DEF vars
<1> QED  BY <1>2, <1>3, <1>4, <1>5, <1>6, <1>7 DEF Next, Body

\* Elements whose copying does not throw are all destroyed before their memory
\* is released, also if other operations on them throw.
THEOREM AllDestroyed ==
    ASSUME Throwing \cap CopyOps = {}
    PROVE  Spec /\ []IndexesKept => []NoLeak
<1> DEFINE J == InvRings /\ NoLeak
<1>1. Init => J
  BY InitRings DEF Init, NoLeak
<1>2. ASSUME J, IndexesKept', [Next]_vars PROVE J'
  <2>1. ~CopyThrows
    BY <1>2 DEF CopyThrows, Copying, ElementThrows, InvRings, Inv, CallFits, CopyFits
  <2>2. leaked' = leaked
    BY <1>2, <2>1, StepLeaks
  <2> QED  BY <1>2, <2>2, StepInvRings DEF NoLeak
<1>3. J => NoLeak
  OBVIOUS
<1> QED  BY <1>1, <1>2, <1>3, PTL DEF Spec

\* Whatever throws, only the interruption of a copy leaves elements undestroyed.
THEOREM LeaksAreCopies == Spec /\ []IndexesKept => OnlyCopiesLeak
<1>1. ASSUME InvRings, [Next]_vars
      PROVE  [leaked' # leaked => pc = "copy" /\ ret' = ElementThrew]_vars
  BY <1>1, StepLeaks DEF CopyThrows, Copying, Return
<1>2. InvRings /\ IndexesKept' /\ [Next]_vars => InvRings'
  BY StepInvRings
<1> QED  BY <1>1, <1>2, InitRings, PTL DEF Spec, OnlyCopiesLeak

-----------------------------------------------------------------------------
\* The end of calls.

\* How much a call that fills an object has pushed, and how much there is room for.
FillBounded ==
    pc = "fill" => /\ call.n <= Len(call.eles)
                   /\ call.op = "make" => tmp.capacity = Len(call.eles)

\* No call pushes more than it was given.
LEMMA StepFillBounded == Inv /\ FillBounded /\ [Next]_vars => FillBounded'
<1> SUFFICES ASSUME Inv, FillBounded, [Next]_vars, pc' = "fill"
             PROVE  /\ call'.n <= Len(call'.eles)
                    /\ call'.op = "make" => tmp'.capacity = Len(call'.eles)
  BY DEF FillBounded
<1> USE DEF Inv
<1>1. CASE UNCHANGED vars
  BY <1>1 DEF vars, FillBounded
<1>2. CASE MakeStart \/ PushManyStart
  <2>1. pc = "start" /\ call.op \in Filling /\ call' = call
    BY <1>2 DEF MakeStart, PushManyStart, In, Filling
  <2>2. call.n = 0 /\ Len(call.eles) \in Nat
    BY <2>1, CallsAssumption, StartFields DEF CallFits, StartFits
  <2>3. call.op = "make" => tmp'.capacity = Len(call.eles)
    BY <1>2 DEF MakeStart, PushManyStart, In, NewBody
  <2> QED  BY <2>1, <2>2, <2>3
<1>3. CASE Fill
  <2>1. /\ pc = "fill" /\ call.n < Len(call.eles) /\ call' = [call EXCEPT !.n = @ + 1]
        /\ ~Full(Subject) /\ call \in Call /\ call.n \in Nat /\ Len(call.eles) \in Nat
    BY <1>3, CallFields DEF Fill, MoreToFill, Refuses, CallFits, FillFits
  <2>2. call'.op = call.op /\ call'.eles = call.eles /\ call'.n = call.n + 1
    BY <2>1 DEF Call
  <2>3. ASSUME call.op = "make"
        PROVE  tmp'.capacity = tmp.capacity
    <3>1. tmp # None /\ Sound(tmp) /\ ~Full(tmp)
          /\ tmp' = Construct(tmp, Passed(call.eles[call.n + 1]))
      BY <1>3, <2>1, <2>3 DEF Fill, Subject, SetSubject, CallFits, FillFits, Shape
    <3> QED  BY <2>1, <3>1, SoundConstruct, PassedTypes
  <2> QED  BY <2>1, <2>2, <2>3 DEF FillBounded
<1>4. CASE Next /\ ~MakeStart /\ ~PushManyStart /\ ~Fill
  BY <1>4 DEF Next, Invoke, Body, New, NewRefused, Refused, Push, PushThrows, Pop, Front, Back,
     Observe, Swap, MoveConstruct, AssignSelf, CopyStart, CopyElement, Copying, CopyThrows,
     CopyConstructed, CopyAssigned, FillRefused, FillThrows, Unwind, Made, PushedMany, ClearStart,
     ClearElement, Cleared, Destroyed, Dropped, Return
<1> QED  BY <1>1, <1>2, <1>3, <1>4

\* The steps that remain can be counted.
LEMMA RemainingType ==
    ASSUME Inv, FillBounded
    PROVE  Remaining \in Nat /\ (pc # "idle" => Remaining > 0)
<1> USE DEF Inv
<1>1. \A b : Sound(b) => b.size \in Nat /\ b # None
  BY SoundFields
<1>2. ASSUME pc # "idle"
      PROVE  /\ call.b \in Buffers /\ Len(call.eles) \in Nat /\ call.n \in Nat
             /\ ElementsIn(This) \in Nat
             /\ pc = "start" /\ call.op \in CopyOps => ElementsIn(buf[call.rhs]) \in Nat
  <2>1. /\ call.b \in Buffers /\ Len(call.eles) \in Nat /\ call.n \in Nat
        /\ pc = "start" => (call.op \in TwoBuffers => call.rhs \in Buffers)
    BY <1>2, CallFields, StartFields, SizeModAssumption
  <2> QED  BY <1>1, <2>1 DEF This, ElementsIn, Shape, TwoBuffers
<1>3. CASE pc = "idle"
  BY <1>3 DEF Remaining
<1>4. CASE pc = "start"
  BY <1>2, <1>4 DEF Remaining
<1>5. CASE pc = "copy"
  <2>1. tmp.size \in Nat /\ buf[call.rhs].size \in Nat /\ tmp.size <= buf[call.rhs].size
    BY <1>1, <1>5 DEF CallFits, CopyFits, Shape
  <2> QED  BY <1>2, <1>5, <2>1 DEF Remaining
<1>6. CASE pc = "fill"
  BY <1>2, <1>6 DEF Remaining, FillBounded
<1>7. CASE pc = "clear"
  <2>1. Subject.size \in Nat
    BY <1>1, <1>2, <1>7 DEF Subject, This, CallFits, ClearFits, Shape
  <2> QED  BY <1>7, <2>1 DEF Remaining
<1> QED  BY <1>3, <1>4, <1>5, <1>6, <1>7 DEF Shape

\* Each step of a call leaves fewer to take.
LEMMA RemainingFalls ==
    ASSUME Inv, Inv', FillBounded, FillBounded', Next, pc # "idle"
    PROVE  Remaining' < Remaining
<1> USE DEF Inv
<1>1. /\ Remaining \in Nat /\ Remaining > 0
      /\ call \in Call /\ call.b \in Buffers /\ Len(call.eles) \in Nat /\ call.n \in Nat
      /\ DOMAIN buf = Buffers
  BY RemainingType, CallFields, SizeModAssumption DEF Shape
<1>2. \A b : Sound(b) => b.size \in Nat /\ b # None
  BY SoundFields
<1>3. ElementsIn(This) \in Nat
  BY <1>1, <1>2 DEF This, ElementsIn, Shape
<1>4. CASE pc' = "idle"
  BY <1>1, <1>4 DEF Remaining
<1>5. CASE CopyStart
  <2>1. /\ pc = "start" /\ call.op \in CopyOps /\ pc' = "copy" /\ tmp'.size = 0
        /\ buf' = buf /\ call' = call
    BY <1>5 DEF CopyStart, In, NewBody
  <2>2. ElementsIn(buf[call.rhs]) = buf[call.rhs].size /\ buf[call.rhs].size \in Nat
    BY <1>2, <2>1, StartFields DEF CallFits, StartFits, TwoBuffers, ElementsIn, Shape
  <2>3. Remaining = 3 + 2 * Len(call.eles) + ElementsIn(This) + buf[call.rhs].size
    BY <2>1, <2>2 DEF Remaining
  <2>4. Remaining' = 2 + buf[call.rhs].size + ElementsIn(This)
    BY <2>1, <2>2 DEF Remaining, This, ElementsIn
  <2> HIDE DEF Inv
  <2> QED  BY <1>1, <1>3, <2>2, <2>3, <2>4
<1>6. CASE CopyElement
  <2>1. /\ pc = "copy" /\ pc' = "copy" /\ buf' = buf /\ call' = call
        /\ Sound(tmp) /\ tmp'.size = tmp.size + 1 /\ Sound(buf[call.rhs])
    BY <1>6 DEF CopyElement, Copying, Construct, CallFits, CopyFits, Shape, Sound, IsBody, BodyOf
  <2>2. Remaining' = 2 + (buf[call.rhs].size - (tmp.size + 1)) + ElementsIn(This)
    BY <2>1 DEF Remaining, This, ElementsIn
  <2>3. Remaining = 2 + (buf[call.rhs].size - tmp.size) + ElementsIn(This)
    BY <2>1 DEF Remaining
  <2>4. tmp.size \in Nat /\ buf[call.rhs].size \in Nat
    BY <1>2, <2>1
  <2> HIDE DEF Inv
  <2> QED  BY <1>3, <2>2, <2>3, <2>4
<1>7. CASE CopyAssigned
  <2>1. /\ pc = "copy" /\ pc' = "clear" /\ This # None /\ tmp' = This
        /\ tmp.size \in Nat /\ buf[call.rhs].size \in Nat /\ tmp.size <= buf[call.rhs].size
    BY <1>2, <1>7 DEF CopyAssigned, CallFits, CopyFits, This, Shape
  <2>2. Remaining' = 1 + ElementsIn(This)
    BY <2>1 DEF Remaining, Subject, ElementsIn
  <2>3. Remaining = 2 + (buf[call.rhs].size - tmp.size) + ElementsIn(This)
    BY <2>1 DEF Remaining
  <2> HIDE DEF Inv
  <2> QED  BY <1>3, <2>1, <2>2, <2>3
<1>8. CASE MakeStart \/ PushManyStart
  <2>1. pc = "start" /\ pc' = "fill" /\ call' = call /\ call.op \notin CopyOps
    BY <1>8 DEF MakeStart, PushManyStart, In, CopyOps
  <2> HIDE DEF Inv
  <2> QED  BY <1>1, <1>3, <2>1 DEF Remaining
<1>9. CASE Fill
  <2>1. pc = "fill" /\ pc' = "fill" /\ call' = [call EXCEPT !.n = @ + 1]
    BY <1>9 DEF Fill, MoreToFill
  <2>2. call'.eles = call.eles /\ call'.n = call.n + 1
    BY <1>1, <2>1 DEF Call
  <2> HIDE DEF Inv
  <2> QED  BY <1>1, <2>1, <2>2 DEF Remaining
<1>10. CASE (FillRefused \/ FillThrows) /\ call.op = "make"
  <2>1. pc = "fill" /\ pc' = "clear" /\ tmp' = tmp /\ tmp # None /\ Sound(tmp)
    BY <1>10 DEF FillRefused, FillThrows, MoreToFill, Unwind, CallFits, FillFits, Shape
  <2>2. tmp.size \in Nat /\ tmp.size <= Len(call.eles) /\ call.n <= Len(call.eles)
    BY <1>10, <2>1, SoundFields DEF FillBounded
  <2> HIDE DEF Inv
  <2> QED  BY <1>1, <2>1, <2>2 DEF Remaining, Subject
<1>11. CASE ClearStart
  <2>1. /\ pc = "start" /\ pc' = "clear" /\ tmp' = None /\ buf' = buf /\ call' = call
        /\ This # None /\ call.op \notin CopyOps
    BY <1>11 DEF ClearStart, In, CallFits, StartFits, Creating, CopyOps, Shape, This
  <2>2. Remaining' = 1 + ElementsIn(This)
    BY <2>1 DEF Remaining, Subject, This, ElementsIn
  <2> HIDE DEF Inv
  <2> QED  BY <1>1, <1>3, <2>1, <2>2 DEF Remaining
<1>12. CASE ClearElement
  <2>1. pc = "clear" /\ ~Empty(Subject) /\ Sound(Subject)
    BY <1>1, <1>12 DEF ClearElement, Subject, This, CallFits, ClearFits, Shape
  <2>2. /\ Destroy(Subject).size = Subject.size - 1 /\ Destroy(Subject) # None
    BY <2>1, SoundDestroy
  <2>3. pc' = "clear" /\ Subject' = Destroy(Subject)
    BY <1>1, <1>12, <2>2 DEF ClearElement, SetSubject, Set, Subject, This
  <2> HIDE DEF Inv
  <2> QED  BY <1>2, <2>1, <2>2, <2>3 DEF Remaining
<1>13. pc' # "idle" => \/ CopyStart \/ CopyElement \/ CopyAssigned \/ MakeStart
                       \/ PushManyStart \/ Fill \/ ClearStart \/ ClearElement
                       \/ (FillRefused \/ FillThrows) /\ call.op = "make"
  BY DEF Next, Invoke, Body, New, NewRefused, Refused, Push, PushThrows, Pop, Front, Back,
     Observe, Swap, MoveConstruct, AssignSelf, CopyThrows, CopyConstructed, FillRefused,
     FillThrows, Unwind, Made, PushedMany, Cleared, Destroyed, Dropped, Return
<1> QED  BY <1>4, <1>5, <1>6, <1>7, <1>8, <1>9, <1>10, <1>11, <1>12, <1>13

\* Every call of any buffer comes to an end: loops over a size end because it
\* falls, loops over arguments because these are used up, and unwinding because
\* it destroys what the call has constructed.
THEOREM AllCallsEnd == Spec => CallsEnd
<1>1. ASSUME Inv /\ FillBounded, (Inv /\ FillBounded)', [Next]_vars
      PROVE  [pc # "idle" => Remaining \in Nat /\ Remaining' < Remaining]_vars
  BY <1>1, RemainingType, RemainingFalls
<1>2. Init => Inv /\ FillBounded
  BY InitInv DEF Init, FillBounded
<1>3. Inv /\ FillBounded /\ [Next]_vars => (Inv /\ FillBounded)'
  BY StepInv, StepFillBounded
<1> QED  BY <1>1, <1>2, <1>3, PTL DEF Spec, CallsEnd

-----------------------------------------------------------------------------
\* The refinement.

\* A copy in progress has copies of the source's first elements.
CopyPrefix == \A i \in 0..tmp.size - 1 : At(tmp, i) = Copied(At(buf[call.rhs], i))

\* make_buffer()'s local object has room for all arguments, and the elements
\* made from those that have been pushed.
MakePrefix ==
    /\ tmp.size = call.n /\ tmp.capacity = Len(call.eles)
    /\ \A i \in 0..tmp.size - 1 : At(tmp, i) = Passed(call.eles[i + 1])

Progress == /\ pc = "copy" => CopyPrefix
            /\ pc = "fill" => call.n <= Len(call.eles)
            /\ pc = "fill" /\ call.op = "make" => MakePrefix
            /\ pc = "start" /\ call.op \in Filling \cup {"push"} => call.n = 0

\* What the refinement mapping needs to know of a reachable state.
RefInv == InvRings /\ Progress

\* Constructing an element leaves those before it alone.
LEMMA SoundConstructKeeps ==
    ASSUME NEW b, Sound(b), ~Full(b), NEW v, Unbroken(Construct(b, v))
    PROVE  /\ b.size \in Nat /\ Construct(b, v).size = b.size + 1
           /\ Construct(b, v).capacity = b.capacity
           /\ \A i \in 0..b.size - 1 : At(Construct(b, v), i) = At(b, i)
           /\ At(Construct(b, v), b.size) = v
<1> DEFINE c == b.capacity
           d == Construct(b, v)
<1>1. /\ b \in BodyOf(c) /\ b.size \in 0..c - 1
      /\ DOMAIN b.container = 0..c - 1
  BY SoundFields DEF Full, BodyOf
<1>2. c \in Nat \ {0}
  BY SoundFields DEF Full
<1>3. /\ d.size = b.size + 1 /\ d.capacity = c /\ d.index = b.index
      /\ d.container = [b.container EXCEPT ![Slot(b, b.size)] = v]
      /\ \A i : Slot(d, i) = Slot(b, i)
  BY <1>1, ConstructFields
<1>7. WrapsEvenly(c) \/ b.index + (b.size + 1) <= SizeMod
  BY <1>3 DEF Unbroken
<1>4. ASSUME NEW i \in 0..b.size
      PROVE  At(d, i) = IF i = b.size THEN v ELSE At(b, i)
  <2>1. i \in 0..c - 1 /\ i \in Int /\ b.size \in Int
    BY <1>1, <1>2
  <2>2. Slot(b, i) \in 0..c - 1 /\ Slot(b, b.size) \in 0..c - 1
    BY <1>1, <1>2, <2>1, SlotRange
  <2>3. i # b.size => Slot(b, i) # Slot(b, b.size)
    <3>1. b.size + 1 \in 0..c /\ i \in 0..(b.size + 1) - 1 /\ b.size \in 0..(b.size + 1) - 1
      BY <1>1, <1>2
    <3> QED  BY <1>1, <1>2, <1>7, <3>1, SlotsDistinct
  <2>4. At(d, i) = [b.container EXCEPT ![Slot(b, b.size)] = v][Slot(b, i)]
    BY <1>3 DEF At
  <2> QED  BY <1>1, <2>2, <2>3, <2>4 DEF At
<1>5. \A i \in 0..b.size - 1 : At(d, i) = At(b, i)
  BY <1>1, <1>4
<1>6. At(d, b.size) = v
  BY <1>1, <1>4
<1> QED  BY <1>1, <1>3, <1>5, <1>6

\* A step keeps what is known of copies and of objects being made.
LEMMA StepProgress ==
    ASSUME RefInv, Inv', IndexesKept', [Next]_vars
    PROVE  Progress'
<1> USE DEF RefInv, InvRings, Inv, Progress
<1>1. ASSUME NEW c \in Calls, Invoke(c)
      PROVE  Progress'
  BY <1>1, CallsAssumption DEF Invoke
<1>2. CASE CopyStart
  <2>1. pc' = "copy" /\ tmp'.size = 0
    BY <1>2 DEF CopyStart, NewBody
  <2> QED  BY <2>1 DEF CopyPrefix
<1>3. CASE CopyElement
  <2> DEFINE v == Copied(At(buf[call.rhs], tmp.size))
  <2>1. /\ pc = "copy" /\ pc' = "copy" /\ call' = call /\ buf' = buf
        /\ tmp' = Construct(tmp, v)
    BY <1>3 DEF CopyElement, Copying
  <2>2. Sound(tmp) /\ ~Full(tmp)
    BY <1>3, <2>1, SoundFields DEF CopyElement, Copying, Shape, CallFits, CopyFits, Full
  <2>6. Unbroken(tmp')
    BY <2>1 DEF CallFits, CopyFits, IndexesKept
  <2>3. /\ tmp.size \in Nat /\ tmp'.size = tmp.size + 1
        /\ \A i \in 0..tmp.size - 1 : At(tmp', i) = At(tmp, i)
        /\ At(tmp', tmp.size) = v
    BY <2>1, <2>2, <2>6, SoundConstructKeeps
  <2>4. \A i \in 0..tmp.size - 1 : At(tmp, i) = Copied(At(buf[call.rhs], i))
    BY <2>1 DEF CopyPrefix
  <2>5. CopyPrefix'
    BY <2>1, <2>3, <2>4 DEF CopyPrefix
  <2> QED  BY <2>1, <2>5
<1>4. CASE MakeStart
  <2>1. /\ pc = "start" /\ call.op = "make" /\ pc' = "fill" /\ call' = call
        /\ tmp'.size = 0 /\ tmp'.capacity = Len(call.eles)
    BY <1>4 DEF MakeStart, In, NewBody
  <2>2. call.n = 0 /\ Len(call.eles) \in Nat
    BY <2>1, CallFields DEF Filling
  <2> QED  BY <2>1, <2>2 DEF MakePrefix
<1>5. CASE PushManyStart
  <2>1. /\ pc = "start" /\ call.op = "push_many" /\ pc' = "fill" /\ call' = call
    BY <1>5 DEF PushManyStart, In
  <2>2. call.n = 0 /\ Len(call.eles) \in Nat
    BY <2>1, CallFields DEF Filling
  <2> QED  BY <2>1, <2>2
<1>6. CASE Fill
  <2> DEFINE v == Passed(call.eles[call.n + 1])
  <2>1. /\ pc = "fill" /\ pc' = "fill" /\ call.op \in Filling /\ ~Full(Subject)
        /\ call.n < Len(call.eles) /\ call' = [call EXCEPT !.n = @ + 1]
    BY <1>6 DEF Fill, MoreToFill, Refuses, CallFits, FillFits
  <2>2. call.n \in Nat /\ Len(call.eles) \in Nat /\ call \in Call
    BY <2>1, CallFields
  <2>3. call'.op = call.op /\ call'.eles = call.eles /\ call'.n = call.n + 1
    BY <2>1, <2>2 DEF Call
  <2>4. ASSUME call.op = "make"
        PROVE  MakePrefix'
    <3>1. tmp # None /\ Sound(tmp) /\ ~Full(tmp) /\ tmp' = Construct(tmp, v)
      BY <1>6, <2>1, <2>4 DEF Fill, Subject, SetSubject, CallFits, FillFits, Shape
    <3>8. Unbroken(tmp')
      BY <2>1, <2>3, <2>4 DEF CallFits, FillFits, IndexesKept
    <3>2. /\ tmp.size \in Nat /\ tmp'.size = tmp.size + 1 /\ tmp'.capacity = tmp.capacity
          /\ \A i \in 0..tmp.size - 1 : At(tmp', i) = At(tmp, i)
          /\ At(tmp', tmp.size) = v
      BY <3>1, <3>8, SoundConstructKeeps
    <3>3. /\ tmp.size = call.n /\ tmp.capacity = Len(call.eles)
          /\ \A i \in 0..tmp.size - 1 : At(tmp, i) = Passed(call.eles[i + 1])
      BY <2>1, <2>4 DEF MakePrefix
    <3> HIDE DEF v
    <3>4. ASSUME NEW i \in 0..tmp.size
          PROVE  At(tmp', i) = Passed(call.eles[i + 1])
      <4>1. CASE i = tmp.size
        BY <3>2, <3>3, <4>1 DEF v
      <4>2. CASE i # tmp.size
        <5>1. i \in 0..tmp.size - 1
          BY <3>2, <4>2
        <5> QED  BY <3>2, <3>3, <5>1
      <4> QED  BY <4>1, <4>2
    <3>5. tmp'.size - 1 = tmp.size
      BY <3>2
    <3>6. \A i \in 0..tmp'.size - 1 : At(tmp', i) = Passed(call'.eles[i + 1])
      BY <2>3, <3>4, <3>5
    <3>7. tmp'.size = call'.n /\ tmp'.capacity = Len(call'.eles)
      BY <2>3, <3>2, <3>3
    <3> QED  BY <3>6, <3>7 DEF MakePrefix
  <2> QED  BY <2>1, <2>2, <2>3, <2>4
<1>7. CASE UNCHANGED vars
  BY <1>7 DEF vars, CopyPrefix, MakePrefix
<1>8. ASSUME pc' \in {"idle", "clear"}
      PROVE  Progress'
  BY <1>8
<1>9. CASE Body
  BY <1>2, <1>3, <1>4, <1>5, <1>6, <1>8, <1>9 DEF Body, New, NewRefused, Refused, Push, PushThrows,
     Pop, Front, Back, Observe, Swap, MoveConstruct, AssignSelf, CopyThrows, CopyConstructed,
     CopyAssigned, FillRefused, FillThrows, Unwind, Made, PushedMany, ClearStart, ClearElement,
     Cleared, Destroyed, Dropped, Return
<1> QED  BY <1>1, <1>7, <1>9 DEF Next

\* QueueBodyProofs' facts on contents, for well-formed objects.
LEMMA SoundContentsConstruct ==
    ASSUME NEW b, Sound(b), RingOK(b), ~Full(b), NEW v \in Values, Unbroken(Construct(b, v))
    PROVE  Contents(Construct(b, v)) = Append(Contents(b), v)
<1>1. b.capacity \in Nat \ {0} /\ b \in BodyOf(b.capacity)
  BY SoundFields DEF Full
<1> QED  BY <1>1, ContentsConstruct

\* _pop() takes the first of what a caller sees.
LEMMA SoundContentsDestroy ==
    ASSUME NEW b, Sound(b), RingOK(b), ~Empty(b)
    PROVE  Contents(b) # <<>> /\ Contents(Destroy(b)) = Tail(Contents(b))
<1>1. b.capacity \in Nat \ {0} /\ b \in BodyOf(b.capacity)
  BY SoundFields DEF Empty
<1> QED  BY <1>1, ContentsDestroy

\* What a caller sees of a well-formed object.
LEMMA ContentsSound ==
    ASSUME NEW b, Sound(b), RingOK(b)
    PROVE  /\ Contents(b) \in Seq(Values) /\ Len(Contents(b)) = b.size
           /\ \A i \in 1..b.size : Contents(b)[i] = At(b, i - 1)
           /\ Contents(b) = <<>> <=> Empty(b)
           /\ b.size \in Nat /\ b.capacity \in Nat
<1>1. b \in BodyOf(b.capacity) /\ b.capacity \in Nat /\ b.size \in Nat
  BY SoundFields
<1> QED  BY <1>1, ContentsType

\* An object that is not being cleared.
LEMMA Seen ==
    ASSUME InvRings, NEW b \in Buffers, buf[b] # None, ~Clearing(b)
    PROVE  /\ absSeqs[b] = Abstract!Buffer(Contents(buf[b]), buf[b].capacity)
           /\ absSeqs[b].els = Contents(buf[b]) /\ absSeqs[b].cap = buf[b].capacity
           /\ Sound(buf[b]) /\ RingOK(buf[b])
  BY DEF absSeqs, Abstract!Buffer, InvRings, Inv, Shape, RingIntact

\* The object of a call that has not begun to clear it.
LEMMA SeenThis ==
    ASSUME InvRings, pc \in {"start", "copy", "fill"}
    PROVE  /\ call \in Call /\ call # None /\ call.b \in Buffers
           /\ \A b : ~Clearing(b)
           /\ This # None =>
                /\ absSeqs[call.b].els = Contents(This) /\ absSeqs[call.b].cap = This.capacity
                /\ Sound(This) /\ RingOK(This)
                /\ Len(absSeqs[call.b].els) = This.size
                /\ absSeqs[call.b].els = <<>> <=> Empty(This)
<1>1. call \in Call /\ call # None /\ call.b \in Buffers
  BY CallFields DEF InvRings, Inv
<1>2. \A b : ~Clearing(b)
  BY DEF Clearing
<1> QED  BY <1>1, <1>2, Seen, ContentsSound DEF This

\* A step that gives the object of the call new members.
LEMMA SetSeen ==
    ASSUME InvRings, pc \in {"start", "copy", "fill"}, pc' # "clear" \/ tmp' # None,
           NEW d, d # None, Set(d)
    PROVE  absSeqs' = [absSeqs EXCEPT ![call.b] = Abstract!Buffer(Contents(d), d.capacity)]
<1>1. /\ DOMAIN buf = Buffers /\ call.b \in Buffers
      /\ buf' = [buf EXCEPT ![call.b] = d]
      /\ \A b : ~Clearing(b) /\ ~Clearing(b)'
  BY SeenThis DEF Set, InvRings, Inv, Shape, Clearing
<1> QED  BY <1>1 DEF absSeqs, Abstract!Buffer

\* An object's sequence is replaced, its capacity kept.
LEMMA SeenRecord ==
    ASSUME InvRings, pc \in {"start", "copy", "fill"}, This # None, NEW els
    PROVE  [absSeqs EXCEPT ![call.b].els = els] =
               [absSeqs EXCEPT ![call.b] = Abstract!Buffer(els, This.capacity)]
<1>1. absSeqs[call.b] = Abstract!Buffer(Contents(This), This.capacity)
  BY SeenThis, Seen DEF This
<1>2. [absSeqs[call.b] EXCEPT !.els = els] = Abstract!Buffer(els, This.capacity)
  BY <1>1 DEF Abstract!Buffer
<1> QED  BY <1>2

\* One element is appended to an object's sequence.
LEMMA AddOne ==
    ASSUME InvRings, pc \in {"start", "copy", "fill"}, This # None, ~Full(This), absCall = call,
           NEW v, absSeqs' = [absSeqs EXCEPT ![call.b] =
                                 Abstract!Buffer(Append(Contents(This), v), This.capacity)]
    PROVE  Abstract!Add(v)
<1>1. /\ absSeqs[call.b].els = Contents(This) /\ absSeqs[call.b].cap = This.capacity
      /\ Len(absSeqs[call.b].els) = This.size
  BY SeenThis
<1>2. ~Abstract!IsFull
  BY <1>1 DEF Abstract!IsFull, Abstract!Els, Full
<1>3. absSeqs' = [absSeqs EXCEPT ![call.b].els = Append(Contents(This), v)]
  BY SeenRecord
<1>4. absSeqs' = [absSeqs EXCEPT ![call.b].els = Append(@, v)]
  BY <1>1, <1>3
<1> QED  BY <1>2, <1>4 DEF Abstract!Add

\* A step that leaves all objects alone, and clears none.
LEMMA Unseen ==
    ASSUME pc # "clear" \/ tmp # None, pc' # "clear" \/ tmp' # None, buf' = buf
    PROVE  absSeqs' = absSeqs
<1>1. \A b : ~Clearing(b) /\ ~Clearing(b)'
  BY DEF Clearing
<1> QED  BY <1>1 DEF absSeqs

\* The end of a call.
LEMMA Returns ==
    ASSUME NEW st, NEW val, Return(Result(st, val)), tmp' = None
    PROVE  Abstract!Return(st, val)
  BY DEF Return, Abstract!Return, Abstract!Result, Result, absCall

\* The call that the caller is in, while it has no local object.
LEMMA SameCall ==
    ASSUME InvRings, pc \in {"start", "copy", "fill"}, tmp = None \/ pc = "copy"
    PROVE  absCall = call /\ \A ops : Abstract!In(ops) <=> call.op \in ops
<1>1. absCall = call
  BY DEF absCall
<1> QED  BY <1>1, SeenThis DEF Abstract!In

-----------------------------------------------------------------------------
\* Operations that take one step.

\* The start of the body of a call, and what it needs.
LEMMA Started ==
    ASSUME RefInv, pc = "start"
    PROVE  /\ tmp = None /\ call \in Calls /\ call \in Call
           /\ absCall = call /\ \A ops : Abstract!In(ops) <=> call.op \in ops
           /\ call.op \notin Creating => This # None
           /\ call.op \in Creating => This = None
           /\ call.op \in TwoBuffers => call.rhs \in Buffers /\ buf[call.rhs] # None
           /\ call.op \in Filling \cup {"push"} =>
                  call.n = 0 /\ Len(call.eles) \in Nat \ {0} /\ call.eles # <<>>
           /\ call.n \in 0..SizeMod - 1
<1> USE DEF RefInv, InvRings, Inv
<1>1. /\ tmp = None /\ call \in Calls /\ call \in Call
      /\ call.op \notin Creating => This # None
      /\ call.op \in Creating => This = None
  BY DEF Shape, CallFits, StartFits, This
<1>2. call.op \in TwoBuffers => call.rhs \in Buffers /\ buf[call.rhs] # None
  BY StartFields DEF CallFits, StartFits
<1>3. call.op \in Filling \cup {"push"} => call.n = 0 /\ call.eles # <<>>
  BY StartFields DEF Progress
<1>4. call.eles \in Seq(Argument)
  BY <1>1 DEF Call
<1>5. call.eles # <<>> => Len(call.eles) \in Nat \ {0}
  BY <1>4, EmptySeq
<1> QED  BY <1>1, <1>2, <1>3, <1>5, SameCall, StartFields

\* The constructor that takes a capacity.
LEMMA NewMaps ==
    ASSUME RefInv, New \/ NewRefused
    PROVE  Abstract!New \/ Abstract!NewRefused
<1>1. pc = "start" /\ pc' = "idle" /\ call.op = "new" /\ tmp' = tmp
  BY DEF New, NewRefused, In, Return
<1>2. /\ tmp = None /\ call.n \in 0..SizeMod - 1 /\ InvRings
      /\ absCall = call /\ Abstract!In({"new"})
  BY <1>1, Started DEF RefInv
<1>3. CASE New
  <2>1. call.n > 0 /\ Set(NewBody(call.n)) /\ Return(Result("ok", <<>>))
    BY <1>3 DEF New, Ok
  <2>2. NewBody(call.n) # None /\ NewBody(call.n).capacity = call.n
    BY <1>1, <1>2, SoundNew, StartFields DEF InvRings
  <2>3. Contents(NewBody(call.n)) = <<>>
    BY <1>2, ContentsNew
  <2>4. absSeqs' = [absSeqs EXCEPT ![call.b] = Abstract!Buffer(<<>>, call.n)]
    BY <1>1, <1>2, <2>1, <2>2, <2>3, SetSeen
  <2>5. Abstract!Return("ok", <<>>)
    BY <1>1, <1>2, <2>1, Returns
  <2> QED  BY <1>2, <2>1, <2>4, <2>5 DEF Abstract!New, Abstract!Set
<1>4. CASE NewRefused
  <2>1. call.n = 0 /\ Return(Result("invalid_argument", <<>>)) /\ buf' = buf
    BY <1>4 DEF NewRefused, InvalidArgument
  <2>2. Abstract!Return("invalid_argument", <<>>) /\ absSeqs' = absSeqs
    BY <1>1, <1>2, <2>1, Returns, Unseen
  <2> QED  BY <1>2, <2>1, <2>2 DEF Abstract!NewRefused
<1> QED  BY <1>3, <1>4

\* push() of one element, with room for it.
LEMMA PushMaps ==
    ASSUME RefInv, IndexesKept', Push
    PROVE  Abstract!Push
<1> DEFINE v == Passed(Head(call.eles))
           d == Construct(This, v)
<1>1. /\ pc = "start" /\ pc' = "idle" /\ call.op = "push" /\ tmp' = tmp
      /\ Return(Result("ok", <<>>)) /\ ~Full(This) /\ Set(d)
  BY DEF Push, In, Return, Ok, Refuses
<1>2. /\ tmp = None /\ InvRings /\ This # None /\ call.eles # <<>>
      /\ absCall = call /\ Abstract!In({"push"})
  BY <1>1, Started DEF RefInv, Creating, Filling
<1>3. /\ absSeqs[call.b].els = Contents(This) /\ absSeqs[call.b].cap = This.capacity
      /\ Len(absSeqs[call.b].els) = This.size /\ call.b \in Buffers
      /\ Sound(This) /\ RingOK(This)
  BY <1>1, <1>2, SeenThis
<1>4. v \in Values
  BY <1>1, <1>2, PassedTypes DEF InvRings, Inv
<1>6. d # None /\ d.capacity = This.capacity
  BY <1>1, <1>3, <1>4, SoundConstruct
<1>10. Unbroken(d)
  <2>1. buf'[call.b] = d
    BY <1>1, <1>2, <1>3 DEF Set, InvRings, Inv, Shape
  <2> QED  BY <1>3, <1>6, <2>1 DEF IndexesKept
<1>5. Contents(d) = Append(Contents(This), v)
  BY <1>1, <1>3, <1>4, <1>10, SoundContentsConstruct
<1> HIDE DEF d, v
<1>7. absSeqs' = [absSeqs EXCEPT ![call.b] =
                     Abstract!Buffer(Append(Contents(This), v), This.capacity)]
  BY <1>1, <1>2, <1>5, <1>6, SetSeen
<1>8. Abstract!Add(v)
  BY <1>1, <1>2, <1>3, <1>7, AddOne
<1>9. Abstract!Return("ok", <<>>)
  BY <1>1, <1>2, Returns
<1> QED  BY <1>2, <1>8, <1>9 DEF Abstract!Push, Abstract!Passed, Passed, v

\* pop() of an object with elements.
LEMMA PopMaps ==
    ASSUME RefInv, Pop
    PROVE  Abstract!Pop
<1> DEFINE d == Destroy(This)
<1>1. /\ pc = "start" /\ pc' = "idle" /\ call.op = "pop" /\ tmp' = tmp
      /\ Return(Result("ok", <<>>)) /\ ~Empty(This) /\ Set(d)
  BY DEF Pop, In, Return, Ok, Refuses
<1>2. /\ tmp = None /\ InvRings /\ This # None
      /\ absCall = call /\ Abstract!In({"pop"})
  BY <1>1, Started DEF RefInv, Creating
<1>3. /\ absSeqs[call.b].els = Contents(This) /\ absSeqs[call.b].cap = This.capacity
      /\ call.b \in Buffers /\ Sound(This) /\ RingOK(This)
  BY <1>1, <1>2, SeenThis
<1>4. Contents(This) # <<>> /\ Contents(d) = Tail(Contents(This))
  BY <1>1, <1>3, SoundContentsDestroy
<1>5. d # None /\ d.capacity = This.capacity
  BY <1>1, <1>3, SoundDestroy
<1> HIDE DEF d
<1>6. absSeqs' = [absSeqs EXCEPT ![call.b] =
                     Abstract!Buffer(Tail(Contents(This)), This.capacity)]
  BY <1>1, <1>2, <1>4, <1>5, SetSeen
<1>7. absSeqs' = [absSeqs EXCEPT ![call.b].els = Tail(@)]
  <2>1. absSeqs' = [absSeqs EXCEPT ![call.b].els = Tail(Contents(This))]
    BY <1>1, <1>2, <1>6, SeenRecord
  <2> QED  BY <1>3, <2>1
<1>8. Abstract!Return("ok", <<>>)
  BY <1>1, <1>2, Returns
<1> QED  BY <1>2, <1>3, <1>4, <1>7, <1>8 DEF Abstract!Pop, Abstract!Els

\* What front(), back(), empty(), full() and size() return, and when any
\* operation on elements is refused.
LEMMA ReadsMap ==
    ASSUME RefInv, Refused \/ Front \/ Back \/ Observe
    PROVE  Abstract!PushRefused \/ Abstract!EmptyRefused \/ Abstract!Front \/ Abstract!Back
           \/ Abstract!Observe
<1>1. /\ pc = "start" /\ pc' = "idle" /\ tmp' = tmp /\ buf' = buf
      /\ call.op \in {"push", "pop", "front", "back", "observe"}
  BY DEF Refused, Front, Back, Observe, In, Return
<1>2. /\ tmp = None /\ InvRings /\ This # None /\ absCall = call
      /\ \A ops : Abstract!In(ops) <=> call.op \in ops
      /\ call.op = "push" => call.n = 0 /\ Len(call.eles) \in Nat \ {0}
  BY <1>1, Started DEF RefInv, Creating, Filling
<1>3. /\ absSeqs[call.b].els = Contents(This) /\ absSeqs[call.b].cap = This.capacity
      /\ Len(Contents(This)) = This.size /\ Sound(This) /\ RingOK(This)
  BY <1>1, <1>2, SeenThis
<1>4. /\ Contents(This) = <<>> <=> Empty(This)
      /\ \A i \in 1..This.size : Contents(This)[i] = At(This, i - 1)
      /\ This.size \in Nat /\ Contents(This) \in Seq(Values)
  BY <1>3, ContentsSound
<1>5. absSeqs' = absSeqs
  BY <1>1, <1>2, Unseen
<1>6. CASE Refused
  <2>1. Return(Result("logic_error", <<>>)) /\ Refuses(call.op, This)
    BY <1>6 DEF Refused, LogicError
  <2>2. Abstract!Return("logic_error", <<>>)
    BY <1>1, <1>2, <2>1, Returns
  <2>3. CASE call.op = "push"
    <3>1. Full(This)
      BY <2>1, <2>3 DEF Refuses
    <3>2. Abstract!IsFull /\ Abstract!In({"push", "push_many"}) /\ call.n < Len(call.eles)
      BY <1>2, <1>3, <2>3, <3>1 DEF Abstract!IsFull, Abstract!Els, Full
    <3> QED  BY <1>2, <1>5, <2>2, <3>2 DEF Abstract!PushRefused
  <2>4. CASE call.op \in {"pop", "front", "back"}
    <3>1. Empty(This)
      BY <2>1, <2>4 DEF Refuses, Filling
    <3> QED  BY <1>2, <1>3, <1>4, <1>5, <2>2, <2>4, <3>1 DEF Abstract!EmptyRefused, Abstract!Els
  <2> QED  BY <1>6, <2>3, <2>4 DEF Refused, In
<1>7. CASE Front
  <2>1. call.op = "front" /\ ~Empty(This) /\ Return(Result("ok", <<At(This, 0)>>))
    BY <1>7 DEF Front, In, Refuses, Ok
  <2>2. Abstract!Return("ok", <<At(This, 0)>>)
    BY <1>1, <1>2, <2>1, Returns
  <2>3. Head(Contents(This)) = At(This, 0)
    <3>1. Contents(This)[1] = At(This, 0)
      BY <1>4, <2>1 DEF Empty
    <3> QED  BY <1>4, <2>1, <3>1
  <2> QED  BY <1>2, <1>3, <1>4, <1>5, <2>1, <2>2, <2>3 DEF Abstract!Front, Abstract!Els
<1>8. CASE Back
  <2>1. call.op = "back" /\ ~Empty(This) /\ Return(Result("ok", <<At(This, This.size - 1)>>))
    BY <1>8 DEF Back, In, Refuses, Ok
  <2>2. Abstract!Return("ok", <<At(This, This.size - 1)>>)
    BY <1>1, <1>2, <2>1, Returns
  <2>3. Contents(This)[Len(Contents(This))] = At(This, This.size - 1)
    BY <1>3, <1>4, <2>1 DEF Empty
  <2> QED  BY <1>2, <1>3, <1>4, <1>5, <2>1, <2>2, <2>3 DEF Abstract!Back, Abstract!Els
<1>9. CASE Observe
  <2>1. /\ call.op = "observe"
        /\ Return(Result("ok", <<Empty(This), Full(This), This.size>>))
    BY <1>9 DEF Observe, In, Ok
  <2>2. Abstract!Return("ok", <<Empty(This), Full(This), This.size>>)
    BY <1>1, <1>2, <2>1, Returns
  <2> QED  BY <1>2, <1>3, <1>5, <2>1, <2>2
           DEF Abstract!Observe, Abstract!Els, Abstract!IsFull, Empty, Full
<1> QED  BY <1>6, <1>7, <1>8, <1>9

\* swap() and move assignment exchange content and capacity; a move leaves its
\* source without either; self-assignment does nothing.
LEMMA ExchangesMap ==
    ASSUME RefInv, Swap \/ MoveConstruct \/ AssignSelf
    PROVE  Abstract!Swap \/ Abstract!Move \/ Abstract!AssignSelf
<1>1. /\ pc = "start" /\ pc' = "idle" /\ tmp' = tmp /\ Return(Result("ok", <<>>))
      /\ call.op \in SwapOps \cup {"move_ctor", "copy_assign"}
  BY DEF Swap, MoveConstruct, AssignSelf, In, Return, Ok
<1>2. /\ tmp = None /\ InvRings /\ absCall = call
      /\ \A ops : Abstract!In(ops) <=> call.op \in ops
      /\ call.rhs \in Buffers /\ buf[call.rhs] # None
      /\ call.op # "move_ctor" => buf[call.b] # None
      /\ call.op = "move_ctor" => buf[call.b] = None
  BY <1>1, Started DEF RefInv, Creating, TwoBuffers, CopyOps, SwapOps, This
<1>3. /\ Abstract!Return("ok", <<>>) /\ call.b \in Buffers /\ DOMAIN buf = Buffers
      /\ \A b : ~Clearing(b) /\ ~Clearing(b)'
  BY <1>1, <1>2, Returns, SeenThis DEF Clearing, InvRings, Inv, Shape
<1>4. CASE Swap
  <2>1. call.op \in SwapOps
        /\ buf' = [buf EXCEPT ![call.b] = buf[call.rhs], ![call.rhs] = buf[call.b]]
    BY <1>4 DEF Swap, In
  <2>2. absSeqs' = [absSeqs EXCEPT ![call.b] = absSeqs[call.rhs], ![call.rhs] = absSeqs[call.b]]
    BY <1>2, <1>3, <2>1 DEF absSeqs
  <2> QED  BY <1>2, <1>3, <2>1, <2>2 DEF Abstract!Swap, SwapOps
<1>5. CASE MoveConstruct
  <2>1. call.op = "move_ctor"
        /\ buf' = [buf EXCEPT ![call.b] = buf[call.rhs], ![call.rhs] = MovedFrom]
    BY <1>5 DEF MoveConstruct, In
  <2>2. Contents(MovedFrom) = <<>> /\ MovedFrom.capacity = 0 /\ MovedFrom # None
    BY ContentsNew, SoundNew, SizeModAssumption DEF MovedFrom
  <2>3. absSeqs' = [absSeqs EXCEPT ![call.b] = absSeqs[call.rhs],
                                  ![call.rhs] = Abstract!Buffer(<<>>, 0)]
    BY <1>2, <1>3, <2>1, <2>2 DEF absSeqs, Abstract!Buffer
  <2> QED  BY <1>2, <1>3, <2>1, <2>3 DEF Abstract!Move
<1>6. CASE AssignSelf
  <2>1. call.op = "copy_assign" /\ call.b = call.rhs /\ buf' = buf
    BY <1>6 DEF AssignSelf, In, CopyOps
  <2>2. absSeqs' = absSeqs
    BY <1>1, <1>2, <2>1, Unseen
  <2> QED  BY <1>2, <1>3, <2>1, <2>2 DEF Abstract!AssignSelf
<1> QED  BY <1>4, <1>5, <1>6

-----------------------------------------------------------------------------
\* Operations that take several steps.

\* The end of a copy: the new object, or the target, has the source's elements
\* and capacity.
LEMMA CopyMaps ==
    ASSUME RefInv, CopyConstructed \/ CopyAssigned
    PROVE  Abstract!Copy
<1> USE DEF RefInv, InvRings, Inv
<1> DEFINE r == buf[call.rhs]
           s == Contents(r)
<1>1. /\ pc = "copy" /\ ~Copying /\ call.op \in CopyOps /\ Set(tmp)
      /\ pc' = "clear" => tmp' # None
  <2>1. pc = "copy" /\ ~Copying /\ Set(tmp) /\ CopyFits
    BY DEF CopyConstructed, CopyAssigned, CallFits
  <2>2. CASE CopyConstructed
    BY <2>1, <2>2 DEF CopyConstructed, Return, CopyFits
  <2>3. CASE CopyAssigned
    BY <2>1, <2>3 DEF CopyAssigned, CopyFits, This
  <2> QED  BY <2>1, <2>2, <2>3
<1>2. /\ tmp # None /\ Sound(tmp) /\ RingOK(tmp) /\ r # None /\ Sound(r) /\ RingOK(r)
      /\ call.rhs \in Buffers /\ call.b # call.rhs /\ tmp.capacity = r.capacity
      /\ tmp.size <= r.size /\ absCall = call
      /\ \A ops : Abstract!In(ops) <=> call.op \in ops
  BY <1>1, SameCall DEF CallFits, CopyFits, Shape, RingIntact
<1>3. /\ tmp.size = r.size /\ r.size \in Nat
      /\ \A i \in 0..r.size - 1 : At(tmp, i) = Copied(At(r, i))
  BY <1>1, <1>2, SoundFields DEF Copying, Progress, CopyPrefix
<1>4. Contents(tmp) = [i \in DOMAIN s |-> Copied(s[i])]
  <2>1. DOMAIN s = 1..r.size /\ \A i \in 1..r.size : s[i] = At(r, i - 1)
    BY <1>2, ContentsSound DEF Contents
  <2>2. ASSUME NEW i \in 1..r.size
        PROVE  At(tmp, i - 1) = Copied(s[i])
    <3>1. i - 1 \in 0..r.size - 1
      BY <1>3
    <3> QED  BY <1>3, <2>1, <3>1
  <2> QED  BY <1>3, <2>1, <2>2 DEF Contents
<1>5. absSeqs[call.rhs].els = s /\ absSeqs[call.rhs].cap = r.capacity
  BY <1>1, <1>2, Seen DEF Clearing
<1>6. absSeqs' = [absSeqs EXCEPT ![call.b] = Abstract!Buffer(Contents(tmp), tmp.capacity)]
  BY <1>1, <1>2, SetSeen
<1>7. Abstract!Return("ok", <<>>)
  <2>1. CASE CopyConstructed
    BY <2>1, Returns DEF CopyConstructed, Ok
  <2>2. CASE CopyAssigned
    BY <1>1, <2>2 DEF CopyAssigned, Ok, Abstract!Return, Abstract!Result, Result, absCall,
       CallFits, CopyFits, This
  <2> QED  BY <2>1, <2>2
<1> QED  BY <1>1, <1>2, <1>4, <1>5, <1>6, <1>7 DEF Abstract!Copy, Abstract!Set, CopyOps

\* make_buffer() hands over its object when it has all elements.
LEMMA MadeMaps ==
    ASSUME RefInv, Made
    PROVE  Abstract!Make
<1> USE DEF RefInv, InvRings, Inv
<1> DEFINE n == Len(call.eles)
<1>1. /\ pc = "fill" /\ ~MoreToFill /\ call.op = "make" /\ Set(tmp) /\ tmp' = None
      /\ Return(Result("ok", <<>>)) /\ pc' = "idle"
  BY DEF Made, Ok, Return
<1>2. /\ tmp # None /\ call \in Call /\ call.n \in Nat /\ call.eles \in Seq(Argument)
      /\ n \in Nat /\ call.n <= n /\ MakePrefix
  BY <1>1, CallFields DEF CallFits, FillFits, Progress
<1>3. /\ tmp.size = n /\ tmp.capacity = n
      /\ \A i \in 0..n - 1 : At(tmp, i) = Passed(call.eles[i + 1])
  BY <1>1, <1>2 DEF MoreToFill, MakePrefix
<1>4. Contents(tmp) = [i \in DOMAIN call.eles |-> Passed(call.eles[i])]
  <2>1. DOMAIN call.eles = 1..n
    BY <1>2
  <2>2. ASSUME NEW i \in 1..n
        PROVE  At(tmp, i - 1) = Passed(call.eles[i])
    <3>1. i - 1 \in 0..n - 1 /\ (i - 1) + 1 = i
      BY <1>2
    <3> QED  BY <1>3, <3>1
  <2> QED  BY <1>3, <2>1, <2>2 DEF Contents
<1>5. /\ absCall = [call EXCEPT !.n = 0] /\ absCall \in Call /\ absCall.op = "make"
      /\ absCall.b = call.b /\ absCall.eles = call.eles
  BY <1>1, <1>2, SizeModAssumption DEF absCall, Call
<1>6. absSeqs' = [absSeqs EXCEPT ![call.b] = Abstract!Buffer(Contents(tmp), n)]
  BY <1>1, <1>2, <1>3, SetSeen
<1>7. Abstract!Return("ok", <<>>)
  BY <1>1, Returns
<1> QED  BY <1>4, <1>5, <1>6, <1>7, NoneAssumption
         DEF Abstract!Make, Abstract!In, Abstract!Set, Abstract!Passed, Passed

\* push_many() appends one element, is done, or finds no room; make_buffer()
\* finds room for all.
LEMMA FillMaps ==
    ASSUME RefInv, IndexesKept', Fill \/ FillRefused \/ PushedMany
    PROVE  \/ Abstract!PushOneOfMany \/ Abstract!PushRefused \/ Abstract!PushedMany
           \/ UNCHANGED Abstract!vars
<1> USE DEF RefInv, InvRings, Inv
<1>1. pc = "fill" /\ call.op \in Filling
  BY DEF Fill, FillRefused, PushedMany, MoreToFill, CallFits, FillFits
<1>2. /\ call \in Call /\ call.n \in Nat /\ call.eles \in Seq(Argument)
      /\ Len(call.eles) \in Nat /\ call.n <= Len(call.eles)
  BY <1>1, CallFields DEF Progress
<1>3. CASE call.op = "make"
  <2>1. /\ tmp # None /\ Subject = tmp /\ tmp.size = call.n /\ tmp.capacity = Len(call.eles)
    BY <1>1, <1>3 DEF Subject, CallFits, FillFits, Progress, MakePrefix
  <2>2. Fill
    BY <1>3, <2>1, <1>2 DEF FillRefused, PushedMany, MoreToFill, Refuses, Full
  <2>3. /\ pc' = "fill" /\ call' = [call EXCEPT !.n = @ + 1] /\ buf' = buf /\ ret' = ret
        /\ tmp' = Construct(tmp, Passed(call.eles[call.n + 1])) /\ call.n < Len(call.eles)
        /\ ~Full(tmp)
    BY <1>1, <1>3, <2>1, <2>2 DEF Fill, MoreToFill, SetSubject, Refuses, Filling
  <2>4. tmp' # None
    BY <1>1, <2>1, <2>3, SoundConstruct, PassedTypes DEF Shape
  <2>5. absCall = [call EXCEPT !.n = 0] /\ absCall' = absCall
    BY <1>1, <1>2, <2>1, <2>3, <2>4 DEF absCall, Call
  <2>6. absSeqs' = absSeqs
    BY <1>1, <2>3, Unseen
  <2> QED  BY <2>3, <2>5, <2>6 DEF Abstract!vars
<1>4. CASE call.op = "push_many"
  <2>1. tmp = None /\ This # None /\ Subject = This
    BY <1>1, <1>4 DEF Subject, This, CallFits, FillFits
  <2>2. absCall = call /\ \A ops : Abstract!In(ops) <=> call.op \in ops
    BY <1>1, <2>1, SameCall
  <2>3. /\ absSeqs[call.b].els = Contents(This) /\ absSeqs[call.b].cap = This.capacity
        /\ Len(absSeqs[call.b].els) = This.size /\ Sound(This) /\ RingOK(This)
    BY <1>1, <2>1, SeenThis
  <2>4. CASE Fill
    <3> DEFINE v == Passed(call.eles[call.n + 1])
               d == Construct(This, v)
    <3>1. /\ Set(d) /\ tmp' = tmp /\ pc' = pc /\ ret' = ret /\ ~Full(This)
          /\ call' = [call EXCEPT !.n = @ + 1] /\ call.n < Len(call.eles)
      BY <1>4, <2>1, <2>4 DEF Fill, SetSubject, Refuses, Filling, MoreToFill
    <3>2. v \in Values
      BY <1>1, <3>1, PassedTypes
    <3>7. d # None
      BY <2>3, <3>1, <3>2, SoundConstruct
    <3>8. Unbroken(d)
      <4>1. call.b \in Buffers /\ buf'[call.b] = d
        BY <1>1, <3>1, CallFields DEF Set, Shape
      <4> QED  BY <3>7, <4>1 DEF IndexesKept
    <3>3. Contents(d) = Append(Contents(This), v) /\ d # None /\ d.capacity = This.capacity
      BY <2>3, <3>1, <3>2, <3>8, SoundContentsConstruct, SoundConstruct
    <3> HIDE DEF d
    <3>4. absSeqs' = [absSeqs EXCEPT ![call.b] =
                         Abstract!Buffer(Append(Contents(This), v), This.capacity)]
      BY <1>1, <3>1, <3>3, SetSeen
    <3>5. Abstract!Add(v)
      BY <1>1, <2>1, <2>2, <3>1, <3>4, AddOne
    <3>6. absCall' = [absCall EXCEPT !.n = @ + 1]
      BY <2>1, <2>2, <3>1 DEF absCall
    <3> QED  BY <1>4, <2>2, <3>1, <3>5, <3>6
             DEF Abstract!PushOneOfMany, Abstract!Passed, Passed
  <2>5. CASE FillRefused
    <3>1. /\ call.n < Len(call.eles) /\ Full(This) /\ Return(Result("logic_error", <<>>))
          /\ tmp' = tmp /\ buf' = buf /\ pc' = "idle"
      BY <1>4, <2>1, <2>5 DEF FillRefused, MoreToFill, Refuses, Unwind, Return, LogicError
    <3>2. Abstract!IsFull
      BY <2>2, <2>3, <3>1 DEF Abstract!IsFull, Abstract!Els, Full
    <3>3. Abstract!Return("logic_error", <<>>) /\ absSeqs' = absSeqs
      BY <1>1, <2>1, <3>1, Returns, Unseen
    <3> QED  BY <1>4, <2>2, <3>1, <3>2, <3>3 DEF Abstract!PushRefused
  <2>6. CASE PushedMany
    <3>1. /\ call.n = Len(call.eles) /\ Return(Result("ok", <<>>))
          /\ tmp' = tmp /\ buf' = buf /\ pc' = "idle"
      BY <1>1, <1>2, <2>6 DEF PushedMany, MoreToFill, Return, Ok
    <3>2. Abstract!Return("ok", <<>>) /\ absSeqs' = absSeqs
      BY <1>1, <2>1, <3>1, Returns, Unseen
    <3> QED  BY <1>4, <2>2, <3>1, <3>2 DEF Abstract!PushedMany
  <2> QED  BY <2>4, <2>5, <2>6
<1> QED  BY <1>1, <1>3, <1>4 DEF Filling

\* clear() and the destructor erase the sequence when they begin; the elements
\* that they destroy one after the other are not seen any more.
LEMMA ClearMaps ==
    ASSUME RefInv, ClearStart \/ ClearElement \/ Cleared \/ Destroyed \/ Dropped
    PROVE  \/ Abstract!Erase \/ Abstract!Cleared \/ Abstract!Destroyed
           \/ UNCHANGED Abstract!vars
<1> USE DEF RefInv, InvRings, Inv
<1> DEFINE b == call.b
<1>1. /\ pc \in {"start", "clear"} /\ call \in Call /\ call # None /\ b \in Buffers
      /\ DOMAIN buf = Buffers
  BY CallFields DEF ClearStart, ClearElement, Cleared, Destroyed, Dropped, In, Shape
<1>2. CASE ClearStart
  <2>1. /\ pc = "start" /\ call.op \in {"clear", "destroy"} /\ pc' = "clear"
        /\ UNCHANGED <<buf, tmp, call, ret>>
    BY <1>2 DEF ClearStart, In
  <2>2. /\ tmp = None /\ buf[b] # None /\ absCall = call
        /\ \A ops : Abstract!In(ops) <=> call.op \in ops
    BY <2>1, Started DEF Creating, This
  <2>3. absCall' = absCall
    BY <2>1, <2>2 DEF absCall
  <2>4. \A c : ~Clearing(c) /\ (Clearing(c)' <=> c = b)
    BY <2>1, <2>2 DEF Clearing
  <2>5. absSeqs' = [absSeqs EXCEPT ![b] = Abstract!Buffer(<<>>, buf[b].capacity)]
    <3>1. ASSUME NEW c \in Buffers
          PROVE  absSeqs'[c] = IF c = b THEN Abstract!Buffer(<<>>, buf[b].capacity) ELSE absSeqs[c]
      BY <2>1, <2>2, <2>4 DEF absSeqs, Abstract!Buffer
    <3> QED  BY <1>1, <3>1 DEF absSeqs
  <2>6. absSeqs' = [absSeqs EXCEPT ![b].els = <<>>]
    BY <2>1, <2>2, <2>5, SeenRecord DEF This
  <2> QED  BY <2>1, <2>2, <2>3, <2>6 DEF Abstract!Erase
<1>3. CASE Dropped
  <2>1. /\ pc = "clear" /\ tmp # None /\ tmp' = None /\ pc' = "idle" /\ call' = None
        /\ UNCHANGED <<buf, ret>>
    BY <1>3 DEF Dropped
  <2>2. absSeqs' = absSeqs /\ absCall' = absCall
    BY <2>1, Unseen DEF absCall
  <2> QED  BY <2>1, <2>2 DEF Abstract!vars
<1>4. CASE ClearElement /\ tmp # None
  <2>1. /\ pc = "clear" /\ ~Empty(tmp) /\ tmp' = Destroy(tmp) /\ UNCHANGED <<buf, pc, call, ret>>
    BY <1>4 DEF ClearElement, Subject, SetSubject
  <2>2. tmp' # None
    BY <1>4, <2>1, SoundDestroy DEF Shape
  <2>3. absSeqs' = absSeqs /\ absCall' = absCall
    BY <1>4, <2>1, <2>2, Unseen DEF absCall
  <2> QED  BY <2>1, <2>3 DEF Abstract!vars
<1>5. CASE tmp = None /\ (ClearElement \/ Cleared \/ Destroyed)
  <2>1. pc = "clear"
    BY <1>5 DEF ClearElement, Cleared, Destroyed
  <2>2. /\ call.op \in {"clear", "destroy"} /\ buf[b] # None /\ Sound(buf[b]) /\ RingOK(buf[b])
        /\ absCall = call
        /\ \A c : Clearing(c) <=> c = b
    BY <1>1, <1>5, <2>1 DEF CallFits, ClearFits, Shape, RingIntact, Clearing, absCall
  <2>3. absSeqs[b] = Abstract!Buffer(<<>>, buf[b].capacity) /\ Abstract!Els = <<>>
    BY <1>1, <2>2 DEF absSeqs, Abstract!Buffer, Abstract!Els
  <2>4. CASE ClearElement
    <3>1. /\ ~Empty(buf[b]) /\ buf' = [buf EXCEPT ![b] = Destroy(buf[b])]
          /\ UNCHANGED <<tmp, pc, call, ret>>
      BY <1>5, <2>4 DEF ClearElement, Subject, SetSubject, Set, This
    <3>2. Destroy(buf[b]) # None /\ Destroy(buf[b]).capacity = buf[b].capacity
      BY <2>2, <3>1, SoundDestroy
    <3>3. absSeqs' = absSeqs
      <4>1. \A c : Clearing(c)' <=> c = b
        BY <2>2, <3>1 DEF Clearing
      <4> QED  BY <1>1, <2>2, <3>1, <3>2, <4>1 DEF absSeqs
    <3> QED  BY <3>1, <3>3 DEF Abstract!vars, absCall
  <2>5. CASE Cleared
    <3>1. call.op = "clear" /\ Empty(buf[b]) /\ buf' = buf /\ tmp' = None /\ pc' = "idle"
          /\ Return(Result("ok", <<>>))
      BY <1>5, <2>5 DEF Cleared, Subject, This, Return, Ok
    <3>2. Contents(buf[b]) = <<>>
      BY <2>2, <3>1, ContentsSound
    <3>3. absSeqs' = absSeqs
      <4>1. \A c : ~Clearing(c)'
        BY <3>1 DEF Clearing
      <4> QED  BY <1>1, <2>2, <3>1, <3>2, <4>1 DEF absSeqs
    <3>4. Abstract!Return("ok", <<>>)
      BY <3>1, Returns
    <3> QED  BY <1>1, <2>2, <2>3, <3>1, <3>3, <3>4 DEF Abstract!Cleared, Abstract!In
  <2>6. CASE Destroyed
    <3>1. /\ call.op = "destroy" /\ buf' = [buf EXCEPT ![b] = None] /\ tmp' = None /\ pc' = "idle"
          /\ Return(Result("ok", <<>>))
      BY <1>5, <2>6 DEF Destroyed, Set, Return, Ok
    <3>2. absSeqs' = [absSeqs EXCEPT ![b] = None]
      <4>1. \A c : ~Clearing(c)'
        BY <3>1 DEF Clearing
      <4> QED  BY <1>1, <2>2, <3>1, <4>1 DEF absSeqs
    <3>3. Abstract!Return("ok", <<>>)
      BY <3>1, Returns
    <3> QED  BY <1>1, <2>2, <2>3, <3>1, <3>2, <3>3 DEF Abstract!Destroyed, Abstract!Set, Abstract!In
  <2> QED  BY <1>5, <2>4, <2>5, <2>6
<1> QED  BY <1>2, <1>3, <1>4, <1>5 DEF Cleared, Destroyed

\* An exception from an element leaves every sequence as it was, but for what
\* push_many() has appended before.
LEMMA ThrowMaps ==
    ASSUME RefInv, PushThrows \/ CopyThrows \/ FillThrows
    PROVE  Abstract!Throw
<1> USE DEF RefInv, InvRings, Inv
<1>1. /\ pc \in {"start", "copy", "fill"} /\ buf' = buf /\ ret' = Result("element", <<>>)
      /\ call.op \in {"push"} \cup CopyOps \cup Filling
      /\ \/ pc' = "idle" /\ call' = None /\ tmp' = None
         \/ pc = "fill" /\ call.op = "make" /\ pc' = "clear" /\ tmp' = tmp /\ tmp # None
  <2>1. CASE PushThrows
    BY <2>1 DEF PushThrows, In, Return, ElementThrew, Shape
  <2>2. CASE CopyThrows
    BY <2>2 DEF CopyThrows, Copying, Return, ElementThrew, CallFits, CopyFits
  <2>3. CASE FillThrows
    BY <2>3 DEF FillThrows, MoreToFill, Unwind, Return, ElementThrew, CallFits, FillFits, Filling
  <2> QED  BY <2>1, <2>2, <2>3
<1>2. absSeqs' = absSeqs
  BY <1>1, Unseen
<1>3. Abstract!Return("element", <<>>)
  BY <1>1, <1>2 DEF absCall, Abstract!Return, Abstract!Result, Result
<1>4. Abstract!In({"push", "push_many", "make", "copy_ctor", "copy_assign"})
  <2>1. call \in Call /\ call # None /\ call.n \in Nat
    BY <1>1, CallFields
  <2>2. [call EXCEPT !.n = 0] \in Call /\ [call EXCEPT !.n = 0].op = call.op
    BY <2>1, SizeModAssumption DEF Call
  <2>3. absCall \in Call /\ absCall.op = call.op
    BY <1>1, <2>1, <2>2 DEF absCall
  <2> QED  BY <1>1, <2>3, NoneAssumption DEF Abstract!In, CopyOps, Filling
<1> QED  BY <1>2, <1>3, <1>4 DEF Abstract!Throw

\* Copies and make_buffer() work on objects that nobody sees yet.
LEMMA StartsMap ==
    ASSUME RefInv, CopyStart \/ CopyElement \/ MakeStart \/ PushManyStart
    PROVE  UNCHANGED Abstract!vars
<1> USE DEF RefInv, InvRings, Inv
<1>1. pc \in {"start", "copy"} /\ pc' \in {"copy", "fill"} /\ UNCHANGED <<buf, call, ret>>
  BY DEF CopyStart, CopyElement, Copying, MakeStart, PushManyStart, In
<1>2. absSeqs' = absSeqs
  BY <1>1, Unseen
<1>3. CASE CopyStart \/ CopyElement
  BY <1>1, <1>2, <1>3 DEF CopyStart, CopyElement, Copying, absCall, Abstract!vars, In
<1>4. CASE PushManyStart
  BY <1>1, <1>2, <1>4, Started DEF PushManyStart, absCall, Abstract!vars, In
<1>5. CASE MakeStart
  <2>1. /\ pc = "start" /\ pc' = "fill" /\ call.op = "make" /\ call.n = 0 /\ tmp = None
        /\ call \in Call
    BY <1>5, Started DEF MakeStart, In, Filling
  <2>2. [call EXCEPT !.n = 0] = call
    BY <2>1 DEF Call
  <2>3. absCall' = absCall
    BY <1>1, <2>1, <2>2 DEF absCall
  <2> QED  BY <1>1, <1>2, <2>3 DEF Abstract!vars
<1> QED  BY <1>3, <1>4, <1>5

-----------------------------------------------------------------------------
\* A call begins.
LEMMA InvokeMaps ==
    ASSUME RefInv, NEW c \in Calls, Invoke(c)
    PROVE  Abstract!Invoke
<1>1. /\ pc = "idle" /\ pc' = "start" /\ call = None /\ call' = c /\ tmp = None /\ tmp' = None
      /\ buf' = buf /\ ret' = Result("pending", <<>>)
  BY DEF Invoke, RefInv, InvRings, Inv, Shape, Pending
<1>2. absSeqs' = absSeqs
  BY <1>1, Unseen
<1> QED  BY <1>1, <1>2 DEF Abstract!Invoke, Abstract!Result, Result, absCall

\* Every step is one of the abstract sequences, or a stutter.
LEMMA StepMaps ==
    ASSUME RefInv, IndexesKept', [Next]_vars
    PROVE  Abstract!Next \/ UNCHANGED Abstract!vars
<1>1. CASE UNCHANGED vars
  <2>1. absSeqs' = absSeqs
    BY <1>1 DEF vars, absSeqs, Clearing
  <2> QED  BY <1>1, <2>1 DEF vars, Abstract!vars, absCall
<1>2. CASE \E c \in Calls : Invoke(c)
  BY <1>2, InvokeMaps DEF Abstract!Next
<1>3. CASE Body
  BY <1>3, NewMaps, PushMaps, PopMaps, ReadsMap, ExchangesMap, CopyMaps, MadeMaps, FillMaps,
     ClearMaps, ThrowMaps, StartsMap DEF Body, Abstract!Next
<1> QED  BY <1>1, <1>2, <1>3 DEF Next

\* As long as no index_ wraps in the middle of its object's elements, the objects
\* behave as bounded sequences, whatever their elements throw and whoever has
\* their memory: first in, first out; strongly exception-safe, but for
\* push_many(); a copy is equal to its source, a moved-from object empty and
\* without capacity.
THEOREM BuffersAreSequences == Spec /\ []IndexesKept => ImplementsBoundedSequences
<1>1. Init => RefInv /\ Abstract!Init
  <2>1. Init => absSeqs = [b \in Buffers |-> None] /\ absCall = None
    BY DEF Init, absSeqs, absCall
  <2> QED  BY <2>1, InitRings DEF Init, RefInv, Progress, Abstract!Init, Abstract!Result, Pending,
              Result
<1>2. RefInv /\ IndexesKept' /\ [Next]_vars => RefInv'
  BY StepInvRings, StepProgress DEF RefInv, InvRings
<1>3. RefInv /\ IndexesKept' /\ [Next]_vars => [Abstract!Next]_Abstract!vars
  BY StepMaps
<1> QED  BY <1>1, <1>2, <1>3, PTL DEF Spec, ImplementsBoundedSequences, Abstract!Spec
=============================================================================
