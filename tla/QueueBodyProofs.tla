-------------------------- MODULE QueueBodyProofs --------------------------
(***************************************************************************)
(* What the helpers of QueueBody do, for every capacity and every state of *)
(* the ring.  Only what _push() does depends on where index_ wraps: for a  *)
(* capacity that does not divide SizeMod it must not be in the middle of   *)
(* the elements.                                                           *)
(***************************************************************************)
EXTENDS QueueBody, ModuloLemmas, SequenceTheorems

WrapsEvenly(c) == c \in Nat \ {0} /\ \E n \in Nat \ {0} : SizeMod = c * n

\* index_ does not wrap between the elements, or its wrap cannot be seen.
Unbroken(b) == WrapsEvenly(b.capacity) \/ b.index + b.size <= SizeMod

\* Nor does it before the queue has been filled and emptied once more.
Unwrapped(b) == WrapsEvenly(b.capacity) \/ b.index + b.capacity <= SizeMod

-----------------------------------------------------------------------------
\* Types: the helpers keep the shape of the members.

\* A new body has the type of its capacity.
LEMMA NewBodyType == \A c \in Nat \ {0} : NewBody(c) \in BodyOf(c)
  BY SizeModAssumption DEF NewBody, BodyOf

\* _push() keeps the type.
LEMMA ConstructType ==
    ASSUME NEW c \in Nat \ {0}, NEW b \in BodyOf(c), NEW v \in Values \cup {Raw}
    PROVE  Construct(b, v) \in BodyOf(c)
<1> DEFINE f == [b.container EXCEPT ![Slot(b, b.size)] = v]
           counted == [b EXCEPT !.size = @ + 1]
<1>1. Construct(b, v) = [counted EXCEPT !.container = f]
  BY DEF Construct, BodyOf
<1>2. f \in [0..c - 1 -> Values \cup {Raw}]
  BY DEF BodyOf
<1> HIDE DEF f
<1>3. counted \in BodyOf(c)
  BY DEF BodyOf
<1> QED  BY <1>1, <1>2, <1>3 DEF BodyOf

\* _pop() of a queue that is not empty keeps the type.
LEMMA DestroyType ==
    ASSUME NEW c \in Nat \ {0}, NEW b \in BodyOf(c), ~Empty(b)
    PROVE  Destroy(b) \in BodyOf(c)
<1> DEFINE f == [b.container EXCEPT ![Slot(b, 0)] = Raw]
           counted == [b EXCEPT !.size = @ - 1]
           stepped == [counted EXCEPT !.index = NextIndex(b)]
<1>1. Destroy(b) = [stepped EXCEPT !.container = f]
  BY DEF Destroy, BodyOf
<1>2. f \in [0..c - 1 -> Values \cup {Raw}]
  BY DEF BodyOf
<1>3. NextIndex(b) \in 0..SizeMod - 1
  <2>1. b.index + 1 \in Int
    BY DEF BodyOf
  <2> QED  BY <2>1, RemainderRange, SizeModAssumption DEF NextIndex
<1> HIDE DEF f
<1>4. counted \in BodyOf(c)
  BY DEF BodyOf, Empty
<1>5. stepped \in BodyOf(c)
  BY <1>3, <1>4 DEF BodyOf
<1> QED  BY <1>1, <1>2, <1>5 DEF BodyOf

-----------------------------------------------------------------------------
\* Slots.

\* calcMod() stays inside the memory.
LEMMA SlotRange ==
    ASSUME NEW c \in Nat \ {0}, NEW b \in BodyOf(c), NEW i \in Int
    PROVE  Slot(b, i) \in 0..c - 1 /\ At(b, i) \in Values \cup {Raw}
<1>1. b.index + i \in Int /\ SizeMod \in Nat \ {0}
  BY SizeModAssumption DEF BodyOf
<1>2. (b.index + i) % SizeMod \in Int
  <2>1. (b.index + i) % SizeMod \in 0..SizeMod - 1
    BY <1>1, RemainderRange
  <2> QED  BY <2>1, <1>1
<1>3. Slot(b, i) \in 0..c - 1
  BY <1>2, RemainderRange DEF BodyOf, Slot
<1> QED  BY <1>3 DEF BodyOf, At

\* The slots of the first n positions, as if index_ never wrapped.
LEMMA SlotFlat ==
    ASSUME NEW c \in Nat \ {0}, NEW b \in BodyOf(c), NEW n \in Nat,
           WrapsEvenly(c) \/ b.index + n <= SizeMod, NEW i \in 0..n - 1
    PROVE  Slot(b, i) = (b.index + i) % c
<1>1. b.index \in Nat /\ i \in Nat /\ b.capacity = c /\ SizeMod \in Nat \ {0}
  BY SizeModAssumption DEF BodyOf
<1>2. CASE WrapsEvenly(c)
  <2> PICK m \in Nat \ {0} : SizeMod = c * m
    BY <1>2 DEF WrapsEvenly
  <2>1. b.index + i \in Int
    BY <1>1
  <2> QED  BY <1>1, <2>1, RemainderOfRemainder DEF Slot
<1>3. CASE b.index + n <= SizeMod
  <2>1. b.index + i \in 0..SizeMod - 1
    BY <1>1, <1>3
  <2>2. (b.index + i) % SizeMod = b.index + i
    BY <1>1, <2>1
  <2> QED  BY <1>1, <2>2 DEF Slot
<1> QED  BY <1>2, <1>3

\* Positions within the capacity have slots of their own.
LEMMA SlotsDistinct ==
    ASSUME NEW c \in Nat \ {0}, NEW b \in BodyOf(c), NEW n \in 0..c,
           WrapsEvenly(c) \/ b.index + n <= SizeMod,
           NEW i \in 0..n - 1, NEW j \in 0..n - 1, Slot(b, i) = Slot(b, j)
    PROVE  i = j
<1>1. n \in Nat /\ b.index \in Int /\ i \in 0..c - 1 /\ j \in 0..c - 1
  BY DEF BodyOf
<1>2. (b.index + i) % c = (b.index + j) % c
  BY <1>1, SlotFlat
<1> QED  BY <1>1, <1>2, RemainderInjective

\* _push() writes one slot and moves no element.
LEMMA ConstructFields ==
    ASSUME NEW c, NEW b \in BodyOf(c), NEW v
    PROVE  /\ Construct(b, v).index = b.index /\ Construct(b, v).size = b.size + 1
           /\ Construct(b, v).capacity = c
           /\ Construct(b, v).container = [b.container EXCEPT ![Slot(b, b.size)] = v]
           /\ \A i : Slot(Construct(b, v), i) = Slot(b, i)
<1>1. /\ Construct(b, v).index = b.index /\ Construct(b, v).size = b.size + 1
      /\ Construct(b, v).capacity = b.capacity /\ b.capacity = c
      /\ Construct(b, v).container = [b.container EXCEPT ![Slot(b, b.size)] = v]
  BY DEF Construct, BodyOf
<1> QED  BY <1>1 DEF Slot

\* After _pop() the element that was at i + 1 is at i.
LEMMA DestroyFields ==
    ASSUME NEW c, NEW b \in BodyOf(c), ~Empty(b)
    PROVE  /\ Destroy(b).size = b.size - 1 /\ Destroy(b).capacity = c
           /\ Destroy(b).container = [b.container EXCEPT ![Slot(b, 0)] = Raw]
           /\ \A i \in Int : Slot(Destroy(b), i) = Slot(b, i + 1)
<1>1. /\ Destroy(b).index = NextIndex(b) /\ Destroy(b).size = b.size - 1
      /\ Destroy(b).capacity = b.capacity /\ b.capacity = c
      /\ Destroy(b).container = [b.container EXCEPT ![Slot(b, 0)] = Raw]
  BY DEF Destroy, BodyOf
<1>2. ASSUME NEW i \in Int
      PROVE  Slot(Destroy(b), i) = Slot(b, i + 1)
  <2>1. b.index + 1 \in Int /\ SizeMod \in Nat \ {0}
    BY SizeModAssumption DEF BodyOf
  <2>2. (NextIndex(b) + i) % SizeMod = (b.index + 1 + i) % SizeMod
    BY <2>1, RemainderOfSum DEF NextIndex
  <2>3. b.index + 1 + i = b.index + (i + 1)
    BY DEF BodyOf
  <2> QED  BY <1>1, <2>2, <2>3 DEF Slot
<1> QED  BY <1>1, <1>2

-----------------------------------------------------------------------------
\* The ring: live slots are the window.

\* A new queue has no live slot.
LEMMA NewBodyRing ==
    ASSUME NEW c \in Nat \ {0}
    PROVE  RingOK(NewBody(c))
  BY DEF NewBody, RingOK

\* There is room for the elements up to the capacity before the wrap.
LEMMA UnwrappedConstruct ==
    ASSUME NEW c \in Nat \ {0}, NEW b \in BodyOf(c), b.size < c, Unwrapped(b), NEW v
    PROVE  Unbroken(Construct(b, v))
<1>1. b.capacity = c /\ b.index \in Nat /\ b.size \in Nat /\ SizeMod \in Nat
  BY SizeModAssumption DEF BodyOf
<1>2. /\ Construct(b, v).index = b.index /\ Construct(b, v).size = b.size + 1
      /\ Construct(b, v).capacity = c
  BY DEF Construct, BodyOf
<1> QED  BY <1>1, <1>2 DEF Unbroken, Unwrapped

\* _push() into a queue that is not full keeps the ring intact, unless its
\* element is the first past a wrap that can be seen.
LEMMA ConstructRing ==
    ASSUME NEW c \in Nat \ {0}, NEW b \in BodyOf(c), RingOK(b), ~Full(b),
           NEW v \in Values, Unbroken(Construct(b, v))
    PROVE  RingOK(Construct(b, v))
<1> DEFINE d == Construct(b, v)
<1>1. b.size \in 0..c - 1 /\ b.capacity = c
  BY DEF BodyOf, RingOK, Full
<1>2. /\ d.size = b.size + 1 /\ d.capacity = c
      /\ d.container = [b.container EXCEPT ![Slot(b, b.size)] = v]
      /\ \A i : Slot(d, i) = Slot(b, i)
  BY ConstructFields
<1>3. d \in BodyOf(c)
  BY <1>1, ConstructType
<1> HIDE DEF d
<1>4. d.size <= d.capacity
  BY <1>1, <1>2
<1>5. \A i, j \in 0..d.size - 1 : Slot(d, i) = Slot(d, j) => i = j
  <2>1. d.size \in 0..c /\ (WrapsEvenly(c) \/ d.index + d.size <= SizeMod)
    BY <1>1, <1>2 DEF Unbroken, d
  <2> QED  BY <1>3, <2>1, SlotsDistinct
<1>6. ASSUME NEW s \in 0..c - 1
      PROVE  d.container[s] # Raw <=> \E i \in 0..d.size - 1 : s = Slot(d, i)
  <2>1. b.container[s] # Raw <=> \E i \in 0..b.size - 1 : s = Slot(b, i)
    BY <1>1 DEF RingOK
  <2>2. d.container[s] = IF s = Slot(b, b.size) THEN v ELSE b.container[s]
    BY <1>1, <1>2 DEF BodyOf
  <2>3. (\E i \in 0..d.size - 1 : s = Slot(d, i)) <=>
            (s = Slot(b, b.size) \/ \E i \in 0..b.size - 1 : s = Slot(b, i))
    BY <1>1, <1>2
  <2> QED  BY <2>1, <2>2, <2>3, RawAssumption
<1> QED  BY <1>2, <1>4, <1>5, <1>6 DEF RingOK, d

\* _pop() from a queue that is not empty keeps the ring intact.
LEMMA DestroyRing ==
    ASSUME NEW c \in Nat \ {0}, NEW b \in BodyOf(c), RingOK(b), ~Empty(b)
    PROVE  RingOK(Destroy(b))
<1> DEFINE d == Destroy(b)
<1>1. b.size \in 1..c /\ b.capacity = c
  BY DEF BodyOf, RingOK, Empty
<1>2. /\ d.size = b.size - 1 /\ d.capacity = c
      /\ d.container = [b.container EXCEPT ![Slot(b, 0)] = Raw]
      /\ \A i \in Int : Slot(d, i) = Slot(b, i + 1)
  BY DestroyFields
<1>3. d \in BodyOf(c)
  BY <1>1, DestroyType
<1> HIDE DEF d
<1>4. d.size <= d.capacity
  BY <1>1, <1>2
<1>0. \A i, j \in 0..b.size - 1 : Slot(b, i) = Slot(b, j) => i = j
  BY DEF RingOK
<1>5. ASSUME NEW i \in 0..d.size - 1, NEW j \in 0..d.size - 1, Slot(d, i) = Slot(d, j)
      PROVE  i = j
  <2>1. i + 1 \in 0..b.size - 1 /\ j + 1 \in 0..b.size - 1 /\ Slot(b, i + 1) = Slot(b, j + 1)
    BY <1>1, <1>2, <1>5
  <2>2. i + 1 = j + 1
    BY <1>0, <2>1
  <2> QED  BY <2>2
<1>6. ASSUME NEW s \in 0..c - 1
      PROVE  d.container[s] # Raw <=> \E i \in 0..d.size - 1 : s = Slot(d, i)
  <2>1. b.container[s] # Raw <=> \E i \in 0..b.size - 1 : s = Slot(b, i)
    BY <1>1 DEF RingOK
  <2>2. d.container[s] = IF s = Slot(b, 0) THEN Raw ELSE b.container[s]
    BY <1>1, <1>2 DEF BodyOf
  <2>3. ASSUME NEW i \in 0..d.size - 1, s = Slot(d, i)
        PROVE  d.container[s] # Raw
    <3>1. s = Slot(b, i + 1) /\ i + 1 \in 1..b.size - 1
      BY <1>1, <1>2, <2>3
    <3>2. s # Slot(b, 0)
      BY <1>0, <1>1, <3>1
    <3> QED  BY <2>1, <2>2, <3>1, <3>2
  <2>4. ASSUME d.container[s] # Raw
        PROVE  \E i \in 0..d.size - 1 : s = Slot(d, i)
    <3>1. PICK i \in 0..b.size - 1 : s = Slot(b, i)
      BY <2>1, <2>2, <2>4
    <3>2. i # 0
      BY <2>2, <2>4, <3>1
    <3>3. i - 1 \in 0..d.size - 1 /\ s = Slot(d, i - 1)
      BY <1>1, <1>2, <3>1, <3>2
    <3> QED  BY <3>3
  <2> QED  BY <2>3, <2>4
<1> QED  BY <1>2, <1>4, <1>5, <1>6 DEF RingOK, d
-----------------------------------------------------------------------------
\* The content as a sequence.

\* What a client sees is a sequence of elements, as long as the queue counts,
\* and empty exactly when the queue says so.
LEMMA ContentsType ==
    ASSUME NEW c \in Nat, NEW b \in BodyOf(c), RingOK(b)
    PROVE  /\ Contents(b) \in Seq(Values) /\ Len(Contents(b)) = b.size
           /\ \A i \in 1..b.size : Contents(b)[i] = At(b, i - 1)
           /\ Contents(b) = <<>> <=> Empty(b)
<1>1. b.size \in Nat /\ b.size <= c /\ b.capacity = c /\ c \in Nat
  BY DEF BodyOf, RingOK
<1>2. ASSUME NEW i \in 1..b.size
      PROVE  At(b, i - 1) \in Values
  <2>1. c \in Nat \ {0} /\ i - 1 \in 0..b.size - 1 /\ i - 1 \in Int
    BY <1>1
  <2>2. Slot(b, i - 1) \in 0..c - 1 /\ At(b, i - 1) \in Values \cup {Raw}
    BY <2>1, SlotRange
  <2>3. At(b, i - 1) # Raw
    BY <1>1, <2>1, <2>2 DEF RingOK, At
  <2> QED  BY <2>2, <2>3
<1>3. Contents(b) \in [1..b.size -> Values]
  BY <1>2 DEF Contents
<1>4. Contents(b) \in Seq(Values)
  BY <1>1, <1>3
<1>5. Len(Contents(b)) = b.size
  BY <1>1, <1>3, <1>4
<1> QED  BY <1>1, <1>4, <1>5, EmptySeq DEF Contents, Empty

\* A new queue has no elements.
LEMMA ContentsNew == \A c \in Nat : Contents(NewBody(c)) = <<>>
<1> SUFFICES ASSUME NEW c \in Nat PROVE Contents(NewBody(c)) = <<>>
  OBVIOUS
<1>1. NewBody(c) \in BodyOf(c) /\ NewBody(c).size = 0
  BY SizeModAssumption DEF NewBody, BodyOf
<1>2. RingOK(NewBody(c))
  BY DEF NewBody, RingOK
<1> QED  BY <1>1, <1>2, ContentsType DEF Empty

\* _push() appends the element to what a client sees.
LEMMA ContentsConstruct ==
    ASSUME NEW c \in Nat \ {0}, NEW b \in BodyOf(c), RingOK(b), ~Full(b),
           NEW v \in Values, Unbroken(Construct(b, v))
    PROVE  Contents(Construct(b, v)) = Append(Contents(b), v)
<1> DEFINE d == Construct(b, v)
           s == Append(Contents(b), v)
<1>1. b.size \in 0..c - 1 /\ b.capacity = c
  BY DEF BodyOf, RingOK, Full
<1>2. /\ d.size = b.size + 1 /\ d.capacity = c
      /\ d.container = [b.container EXCEPT ![Slot(b, b.size)] = v]
      /\ \A i : Slot(d, i) = Slot(b, i)
  BY ConstructFields
<1>3. d \in BodyOf(c) /\ RingOK(d)
  BY <1>1, ConstructType, ConstructRing
<1>4. /\ Contents(b) \in Seq(Values) /\ Len(Contents(b)) = b.size
      /\ \A i \in 1..b.size : Contents(b)[i] = At(b, i - 1)
  BY <1>1, ContentsType
<1>5. /\ s \in Seq(Values) /\ Len(s) = b.size + 1
      /\ \A i \in 1..b.size : s[i] = At(b, i - 1)
      /\ s[b.size + 1] = v
  BY <1>4, AppendProperties
<1>6. /\ Contents(d) \in Seq(Values) /\ Len(Contents(d)) = b.size + 1
      /\ \A i \in 1..b.size + 1 : Contents(d)[i] = At(d, i - 1)
  BY <1>1, <1>2, <1>3, ContentsType
<1> HIDE DEF d, s
<1>7. ASSUME NEW i \in 1..b.size + 1
      PROVE  At(d, i - 1) = IF i = b.size + 1 THEN v ELSE At(b, i - 1)
  <2>1. i - 1 \in 0..c - 1 /\ b.size \in 0..c - 1
    BY <1>1
  <2>2. Slot(b, i - 1) \in 0..c - 1 /\ Slot(b, b.size) \in 0..c - 1
    BY <1>1, <2>1, SlotRange
  <2>3. DOMAIN b.container = 0..c - 1
    BY DEF BodyOf
  <2>4. i # b.size + 1 => Slot(b, i - 1) # Slot(b, b.size)
    <3>1. Slot(d, i - 1) = Slot(d, b.size) => i - 1 = b.size
      BY <1>1, <1>2, <1>3 DEF RingOK
    <3> QED  BY <1>2, <3>1
  <2> QED  BY <1>1, <1>2, <2>2, <2>3, <2>4 DEF At
<1>8. ASSUME NEW i \in 1..Len(s)
      PROVE  s[i] = Contents(d)[i]
  <2>1. i \in 1..b.size + 1 /\ (i # b.size + 1 => i \in 1..b.size)
    BY <1>1, <1>5
  <2> QED  BY <1>5, <1>6, <1>7, <2>1
<1>9. s = Contents(d)
  BY <1>5, <1>6, <1>8, SeqEqual
<1> QED  BY <1>9 DEF d, s

\* _pop() removes the element that front() shows, and leaves the others in order.
LEMMA ContentsDestroy ==
    ASSUME NEW c \in Nat \ {0}, NEW b \in BodyOf(c), RingOK(b), ~Empty(b)
    PROVE  /\ Contents(b) # <<>> /\ Head(Contents(b)) = At(b, 0)
           /\ Contents(Destroy(b)) = Tail(Contents(b))
<1> DEFINE d == Destroy(b)
           s == Tail(Contents(b))
<1>1. b.size \in 1..c /\ b.capacity = c
  BY DEF BodyOf, RingOK, Empty
<1>2. /\ d.size = b.size - 1 /\ d.capacity = c
      /\ d.container = [b.container EXCEPT ![Slot(b, 0)] = Raw]
      /\ \A i \in Int : Slot(d, i) = Slot(b, i + 1)
  BY DestroyFields
<1>3. d \in BodyOf(c) /\ RingOK(d)
  BY <1>1, DestroyType, DestroyRing
<1>4. /\ Contents(b) \in Seq(Values) /\ Len(Contents(b)) = b.size /\ Contents(b) # <<>>
      /\ \A i \in 1..b.size : Contents(b)[i] = At(b, i - 1)
  BY <1>1, ContentsType
<1>5. /\ s \in Seq(Values) /\ Len(s) = b.size - 1
      /\ \A i \in 1..b.size - 1 : s[i] = At(b, i)
  BY <1>1, <1>4, HeadTailProperties
<1>6. /\ Contents(d) \in Seq(Values) /\ Len(Contents(d)) = b.size - 1
      /\ \A i \in 1..b.size - 1 : Contents(d)[i] = At(d, i - 1)
  BY <1>1, <1>2, <1>3, ContentsType
<1> HIDE DEF d, s
<1>7. ASSUME NEW i \in 1..b.size - 1
      PROVE  At(d, i - 1) = At(b, i)
  <2>1. i \in 0..c - 1 /\ 0 \in 0..c - 1 /\ i # 0 /\ i - 1 \in Int
    BY <1>1
  <2>2. Slot(b, i) # Slot(b, 0)
    BY <1>1, <2>1 DEF RingOK
  <2>3. DOMAIN b.container = 0..c - 1
    BY DEF BodyOf
  <2>4. Slot(b, i) \in 0..c - 1 /\ Slot(d, i - 1) = Slot(b, i)
    BY <1>1, <1>2, <2>1, SlotRange
  <2> QED  BY <1>2, <2>2, <2>3, <2>4 DEF At
<1>8. \A i \in 1..Len(s) : s[i] = Contents(d)[i]
  BY <1>5, <1>6, <1>7
<1>9. s = Contents(d)
  BY <1>5, <1>6, <1>8, SeqEqual
<1>10. Head(Contents(b)) = At(b, 0)
  <2>1. Head(Contents(b)) = Contents(b)[1]
    BY <1>4
  <2> QED  BY <1>1, <1>4, <2>1
<1> QED  BY <1>4, <1>9, <1>10 DEF d, s
=============================================================================
