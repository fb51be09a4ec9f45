-------------------------- MODULE ArrayBufferProofs --------------------------
(***************************************************************************)
(* The invariants of ArrayBuffer, for any N, elements, calls and           *)
(* exceptions.                                                             *)
(*                                                                         *)
(* Whatever an operation does to the elements, and wherever an exception   *)
(* leaves it, each object has an index and a count between the bounds of   *)
(* its class (Inv, which is inductive); from these alone it follows that   *)
(* the slots computed with RingN are the right ones (WindowOfBody), and    *)
(* that every operation does to the sequence of elements that a caller     *)
(* sees (Contents) what ArraySequences says.                               *)
(***************************************************************************)
EXTENDS ArrayBufferRefinement, ModuloLemmas, SequenceTheorems

-----------------------------------------------------------------------------
\* RingN.

\* Remainders of numbers below N, and below 2 * N.
LEMMA SmallRemainder ==
    ASSUME NEW N \in Nat \ {0}, NEW x \in 0..N - 1
    PROVE  x % N = x /\ (N + x) % N = x
<1>1. N * 0 + x = x /\ N * 1 + x = N + x
  OBVIOUS
<1> QED  BY <1>1, RemainderUnique

\* RingN's operators stay in the ring.
LEMMA RingTypes ==
    ASSUME NEW N \in Nat, NEW x \in Nat, NEW v \in Nat
    PROVE  Ring(N, x) \in IndexOf(N) /\ RingPlus(N, v, x) \in IndexOf(N)
<1>1. CASE N = 0
  BY <1>1 DEF Ring, RingPlus, IndexOf
<1>2. CASE N # 0
  <2>1. x % N \in 0..N - 1 /\ (v + x) % N \in 0..N - 1
    BY <1>2, RemainderRange
  <2> QED  BY <1>2, <2>1 DEF Ring, RingPlus, IndexOf
<1> QED  BY <1>1, <1>2

\* Adding walks round the ring.
LEMMA RingPlusIs ==
    ASSUME NEW N \in Nat \ {0}, NEW v \in 0..N - 1, NEW i \in 0..N
    PROVE  RingPlus(N, v, Ring(N, i)) = IF v + i < N THEN v + i ELSE v + i - N
<1>1. Ring(N, i) = IF i = N THEN 0 ELSE i
  <2>1. i # N => i % N = i
    BY SmallRemainder
  <2>2. N % N = 0
    <3>1. (N + 0) % N = 0
      BY SmallRemainder
    <3> QED  BY <3>1
  <2> QED  BY <2>1, <2>2 DEF Ring
<1>2. CASE i = N
  BY <1>1, <1>2, SmallRemainder DEF RingPlus
<1>3. CASE i < N /\ v + i < N
  <2>1. (v + i) % N = v + i
    BY <1>3, SmallRemainder
  <2> QED  BY <1>1, <1>3, <2>1 DEF RingPlus
<1>4. CASE i < N /\ v + i >= N
  <2> DEFINE r == v + i - N
  <2>1. r \in 0..N - 1 /\ v + i = N + r
    BY <1>4
  <2>2. (N + r) % N = r
    BY <2>1, SmallRemainder
  <2> QED  BY <1>1, <1>4, <2>1, <2>2 DEF RingPlus
<1> QED  BY <1>2, <1>3, <1>4

\* Subtracting 1 takes one step back, from 0 to N - 1.
LEMMA RingMinusOneIs ==
    ASSUME NEW N \in Nat \ {0}, NEW v \in 0..N - 1
    PROVE  RingMinus(N, v, Ring(N, 1)) = IF v = 0 THEN N - 1 ELSE v - 1
<1>1. CASE N = 1
  <2>1. 1 % N = 0 /\ 0 % N = 0
    BY <1>1
  <2> QED  BY <1>1, <2>1 DEF RingMinus, Ring
<1>2. CASE N > 1
  <2>1. Ring(N, 1) = 1 /\ 1 % N = 1
    BY <1>2, SmallRemainder DEF Ring
  <2>2. (N - 1) % N = N - 1 /\ (v # 0 => (v - 1) % N = v - 1)
    BY <1>2, SmallRemainder
  <2>3. CASE v = 0
    <3>1. RingMinus(N, v, 1) = (N + 1 - 1 - 1) % N
      BY <1>2, <2>1, <2>3 DEF RingMinus
    <3>2. N + 1 - 1 - 1 = N - 1
      OBVIOUS
    <3> QED  BY <2>1, <2>2, <2>3, <3>1, <3>2
  <2>4. CASE v # 0
    BY <1>2, <2>1, <2>2, <2>4 DEF RingMinus
  <2> QED  BY <2>3, <2>4
<1> QED  BY <1>1, <1>2

-----------------------------------------------------------------------------
\* Objects.

\* N is a natural number.
LEMMA ClassNat == Classes \subseteq Nat
  BY CallsAssumption DEF Classes, Call

\* The fields of an object, which is not None.
LEMMA BodyFields ==
    ASSUME NEW o, IsBody(o)
    PROVE  /\ o # None
           /\ o.N \in Nat /\ o.index \in IndexOf(o.N) /\ o.count \in 0..o.N
           /\ o.container \in [0..o.N - 1 -> Values] /\ DOMAIN o.container = 0..o.N - 1
           /\ \A s \in 0..o.N - 1 : o.container[s] \in Values
  BY ClassNat, NoneAssumption DEF IsBody, BodyOf

\* An object is one whatever its elements are.
LEMMA BodyWith ==
    ASSUME NEW o, IsBody(o), NEW f \in [0..o.N - 1 -> Values]
    PROVE  IsBody([o EXCEPT !.container = f]) /\ [o EXCEPT !.container = f].N = o.N
  BY DEF IsBody, BodyOf

\* An object is one whatever it counts, up to N.
LEMMA BodyCount ==
    ASSUME NEW o, IsBody(o), NEW n \in 0..o.N
    PROVE  IsBody([o EXCEPT !.count = n]) /\ [o EXCEPT !.count = n].N = o.N
  BY DEF IsBody, BodyOf

\* An object is one wherever its first element is.
LEMMA BodyIndex ==
    ASSUME NEW o, IsBody(o), NEW x \in IndexOf(o.N)
    PROVE  IsBody([o EXCEPT !.index = x]) /\ [o EXCEPT !.index = x].N = o.N
  BY ClassNat DEF IsBody, BodyOf

\* The constructor makes an object.
LEMMA NewBodyIs == \A N \in Classes : IsBody(NewBody(N))
  BY ClassNat, TransferAssumption DEF NewBody, IsBody, BodyOf, IndexOf

\* The slots of an object's elements differ, and the last one is where back()
\* looks.
LEMMA WindowOfBody ==
    ASSUME NEW o, IsBody(o)
    PROVE  Window(o)
<1> DEFINE N == o.N
           x == o.index
           n == o.count
<1>1. CASE N = 0
  BY <1>1, BodyFields DEF Window
<1>2. CASE N # 0
  <2>1. N \in Nat \ {0} /\ x \in 0..N - 1 /\ n \in 0..N
    BY <1>2, BodyFields DEF IndexOf
  <2>2. \A i \in 0..N : Slot(o, i) = IF x + i < N THEN x + i ELSE x + i - N
    BY <2>1, RingPlusIs DEF Slot
  <2>3. ASSUME NEW i \in 0..n - 1, NEW j \in 0..n - 1, Slot(o, i) = Slot(o, j)
        PROVE  i = j
    <3>1. i \in 0..N /\ j \in 0..N /\ i < N /\ j < N
      BY <2>1
    <3>2. (IF x + i < N THEN x + i ELSE x + i - N) = (IF x + j < N THEN x + j ELSE x + j - N)
      BY <2>2, <2>3, <3>1
    <3>3. x \in Int /\ N \in Int /\ x + i - N < x /\ x + j - N < x
      BY <2>1, <3>1
    <3> HIDE DEF x, N, n
    <3> QED  BY <3>1, <3>2, <3>3
  <2>4. ASSUME n > 0
        PROVE  LastIndex(o) = Slot(o, n - 1)
    <3>1. /\ Slot(o, n) = IF x + n < N THEN x + n ELSE x + n - N
          /\ Slot(o, n - 1) = IF x + (n - 1) < N THEN x + (n - 1) ELSE x + (n - 1) - N
      BY <2>1, <2>2, <2>4
    <3>2. AddIndex(o) = Slot(o, n) /\ AddIndex(o) \in 0..N - 1
      BY <2>1, <2>4, <3>1 DEF AddIndex, Slot
    <3>3. LastIndex(o) = IF AddIndex(o) = 0 THEN N - 1 ELSE AddIndex(o) - 1
      BY <2>1, <3>2, RingMinusOneIs DEF LastIndex
    <3> QED  BY <2>1, <2>4, <3>1, <3>2, <3>3
  <2> QED  BY <2>3, <2>4 DEF Window
<1> QED  BY <1>1, <1>2
-----------------------------------------------------------------------------
\* The inductive invariant: types, and objects where an operation finds them.

Held(b) == IsBody(buf[b])

StartFits == pc = "start" =>
    /\ call.op \notin Creating => Held(call.b)
    /\ call.op \in TwoBuffers => Held(call.rhs)
    /\ call.op \in OfOneClass => buf[call.b].N = buf[call.rhs].N

FillFits == pc = "fill" =>
    call.op \in Filling /\ IF call.op = "make" THEN IsBody(tmp) ELSE Held(call.b)

Inv == /\ TypeOK /\ StartFits /\ FillFits
       /\ pc # "idle" => call \in Calls

\* What a call passes.
LEMMA CallFields ==
    ASSUME Inv, pc # "idle"
    PROVE  /\ call.b \in Buffers /\ call.n \in Nat /\ call.n \in Classes
           /\ call.op \in TwoBuffers => call.rhs \in Buffers
           /\ call.op \in Filling \cup {"push"} => call.eles # <<>>
           /\ call.eles \in Seq(Argument)
           /\ \A k \in 1..Len(call.eles) : Passed(call.eles[k]) \in Values
           /\ call.eles # <<>> => Head(call.eles) = call.eles[1] /\ Len(call.eles) >= 1
<1>1. /\ call \in Call
      /\ call.op \in TwoBuffers => call.rhs \in Buffers
      /\ call.op \in Filling \cup {"push"} => call.eles # <<>>
  BY CallsAssumption DEF Inv
<1>2. call.b \in Buffers /\ call.n \in Classes /\ call.n \in Nat /\ call.eles \in Seq(Argument)
  BY <1>1 DEF Call, Inv, Classes
<1>3. ASSUME NEW k \in 1..Len(call.eles)
      PROVE  Passed(call.eles[k]) \in Values
  <2>1. call.eles[k] \in Argument
    BY <1>2
  <2> QED  BY <2>1, TransferAssumption DEF Argument, Passed
<1>4. call.eles # <<>> => Head(call.eles) = call.eles[1] /\ Len(call.eles) >= 1
  BY <1>2
<1> QED  BY <1>1, <1>2, <1>3, <1>4

\* An operation that leaves an object, or none, in each variable keeps Inv.
Objects == /\ DOMAIN buf = Buffers /\ \A b \in Buffers : buf[b] = None \/ IsBody(buf[b])
           /\ tmp = None \/ IsBody(tmp)

\* A return keeps the invariant if the objects are well-formed.
LEMMA Returns ==
    ASSUME Inv, NEW r, Return(r), Objects', throws' \in Nat
    PROVE  Inv'
  BY DEF Return, Objects, Inv, TypeOK, StartFits, FillFits

\* Exceptions are counted.
LEMMA Throwing1 == ASSUME Inv, ElementThrows PROVE throws' \in Nat
  BY DEF Inv, TypeOK, ElementThrows

\* An object with one element assigned.
LEMMA AssignedBody ==
    ASSUME NEW o, IsBody(o), ~Full(o), NEW v \in Values
    PROVE  IsBody(Assigned(o, v)) /\ IsBody(CountedOnly(o))
<1>1. o.N \in Nat \ {0} /\ o.count \in 0..o.N - 1 /\ o.index \in 0..o.N - 1
      /\ o.container \in [0..o.N - 1 -> Values]
  BY BodyFields DEF Full, IndexOf
<1>2. AddIndex(o) \in 0..o.N - 1
  <2>1. o.N \in Nat /\ o.count \in Nat /\ o.index \in Nat
    BY <1>1
  <2>2. Ring(o.N, o.count) \in IndexOf(o.N)
    BY <2>1, RingTypes
  <2>3. Ring(o.N, o.count) \in Nat
    BY <1>1, <2>2 DEF IndexOf
  <2>4. AddIndex(o) \in IndexOf(o.N)
    BY <2>1, <2>3, RingTypes DEF AddIndex
  <2> QED  BY <1>1, <2>4 DEF IndexOf
<1> DEFINE f == [o.container EXCEPT ![AddIndex(o)] = v]
           p == [o EXCEPT !.container = f]
<1>3. f \in [0..o.N - 1 -> Values]
  BY <1>1, <1>2
<1> HIDE DEF f
<1>4. IsBody(p) /\ p.N = o.N
  BY <1>3, BodyWith
<1>5. Assigned(o, v) = [p EXCEPT !.count = o.count + 1]
  BY DEF Assigned, IsBody, BodyOf, f
<1>6. CountedOnly(o) = [o EXCEPT !.count = o.count + 1]
  BY DEF CountedOnly, IsBody, BodyOf
<1> HIDE DEF p
<1>7. o.count + 1 \in 0..p.N /\ o.count + 1 \in 0..o.N
  BY <1>1, <1>4
<1> QED  BY <1>4, <1>5, <1>6, <1>7, BodyCount
-----------------------------------------------------------------------------
\* Each operation keeps the invariant.

\* buf' with one object replaced.
LEMMA Put ==
    ASSUME Inv, NEW b \in Buffers, NEW o, IsBody(o) \/ o = None,
           buf' = [buf EXCEPT ![b] = o], tmp' = tmp \/ tmp' = None
    PROVE  Objects'
  BY DEF Inv, TypeOK, Objects

\* The invariant holds before the first call.
LEMMA InvInit == Init => Inv
  BY DEF Init, Inv, TypeOK, StartFits, FillFits

\* A call begins with the objects that its operation needs.
LEMMA InvokeStep == ASSUME Inv, NEW c \in Calls, Invoke(c) PROVE Inv'
<1>1. c \in Call /\ c # None /\ c.b \in Buffers /\ (c.op \in TwoBuffers => c.rhs \in Buffers)
  BY CallsAssumption DEF Call
<1>2. c.op \in OfOneClass => c.op \in TwoBuffers /\ c.op \notin Creating
  BY DEF OfOneClass, TwoBuffers, Creating
<1>3. /\ call' = c /\ pc' = "start" /\ buf' = buf /\ tmp' = tmp /\ done' = done /\ throws' = throws
      /\ c.op \notin Creating => buf[c.b] # None
      /\ c.op \in TwoBuffers => buf[c.rhs] # None
      /\ c.op \in OfOneClass => buf[c.b].N = buf[c.rhs].N
  BY DEF Invoke
<1>4. \A b \in Buffers : buf[b] # None => Held(b)
  BY DEF Inv, TypeOK, Held
<1>5. TypeOK'
  BY <1>1, <1>3 DEF Inv, TypeOK
<1>6. StartFits'
  BY <1>1, <1>2, <1>3, <1>4 DEF StartFits, Held
<1> QED  BY <1>3, <1>5, <1>6 DEF Inv, FillFits

\* The operations that read, and those on one object.
LEMMA ReadStep ==
    ASSUME Inv, Refused \/ Front \/ Back \/ Observe \/ CopyConstructThrows \/ SwapNothing
    PROVE  Inv'
<1>1. Objects' /\ throws' \in Nat
  BY Throwing1 DEF Refused, Front, Back, Observe, CopyConstructThrows, SwapNothing, Inv, TypeOK,
     Objects
<1> QED
  BY <1>1, Returns DEF Refused, Front, Back, Observe, CopyConstructThrows, SwapNothing

\* What pop() makes of an object.
Popped(o) == [o EXCEPT !.count = @ - 1, !.index = RingPlus(o.N, @, Ring(o.N, 1))]

\* It is an object of the same class.
LEMMA PoppedBody ==
    ASSUME NEW o, IsBody(o), ~Empty(o)
    PROVE  /\ IsBody(Popped(o)) /\ Popped(o).N = o.N
           /\ Popped(o).count = o.count - 1 /\ Popped(o).container = o.container
           /\ Popped(o).index = RingPlus(o.N, o.index, Ring(o.N, 1))
<1> DEFINE x == RingPlus(o.N, o.index, Ring(o.N, 1))
<1>1. o.count - 1 \in 0..o.N /\ o.index \in Nat /\ o.N \in Nat
  BY BodyFields DEF Empty, IndexOf
<1>2. x \in IndexOf(o.N)
  <2>1. Ring(o.N, 1) \in Nat
    BY <1>1, RingTypes DEF IndexOf
  <2> QED  BY <1>1, <2>1, RingTypes
<1> HIDE DEF x
<1>3. Popped(o) = [o EXCEPT !.count = o.count - 1, !.index = x]
  BY DEF Popped, IsBody, BodyOf, x
<1>4. /\ IsBody(Popped(o)) /\ Popped(o).N = o.N /\ Popped(o).count = o.count - 1
      /\ Popped(o).container = o.container /\ Popped(o).index = x
  BY <1>1, <1>2, <1>3 DEF IsBody, BodyOf
<1> QED  BY <1>4 DEF x

\* The operations that change one object.
LEMMA OneStep ==
    ASSUME Inv, New \/ Push \/ PushThrows \/ Pop \/ Destroy
    PROVE  Inv'
<1>0. pc = "start" /\ call.b \in Buffers /\ DOMAIN buf = Buffers /\ throws \in Nat
  BY CallFields DEF New, Push, PushThrows, Pop, Destroy, In, Inv, TypeOK
<1>1. CASE New
  BY <1>0, <1>1, CallFields, NewBodyIs, Put, Returns DEF New, Set
<1>2. CASE Push \/ PushThrows
  <2>1. IsBody(This) /\ ~Full(This) /\ Passed(Head(call.eles)) \in Values
    BY <1>0, <1>2, CallFields
    DEF Push, PushThrows, In, Refuses, Inv, TypeOK, StartFits, Creating, Held, This
  <2>2. IsBody(Assigned(This, Passed(Head(call.eles)))) /\ IsBody(CountedOnly(This))
    BY <2>1, AssignedBody
  <2>3. Objects' /\ throws' \in Nat
    BY <1>0, <1>2, <2>2, Put, Throwing1 DEF Push, PushThrows, Set
  <2> QED  BY <1>2, <2>3, Returns DEF Push, PushThrows
<1>3. CASE Pop
  <2>1. IsBody(This) /\ ~Empty(This)
    BY <1>0, <1>3 DEF Pop, In, Refuses, Inv, TypeOK, StartFits, Creating, Held, This
  <2>2. IsBody(Popped(This))
    BY <2>1, PoppedBody
  <2> QED  BY <1>0, <1>3, <2>2, Put, Returns DEF Pop, Set, Popped
<1>4. CASE Destroy
  BY <1>0, <1>4, Put, Returns DEF Destroy, Set
<1> QED  BY <1>1, <1>2, <1>3, <1>4

-----------------------------------------------------------------------------
\* Copies, moves and swaps replace elements by elements.

\* The elements that are assigned.
LEMMA ElementsAre ==
    ASSUME NEW o, IsBody(o)
    PROVE  /\ All(o) = 0..o.N - 1
           /\ CopiesOf(o) \in [0..o.N - 1 -> Values] /\ MovesOf(o) \in [0..o.N - 1 -> Values]
           /\ MovedTwice(o) \in [0..o.N - 1 -> Values]
           /\ HollowsOf(o) \in [0..o.N - 1 -> Values]
           /\ HollowMoves(o) \in [0..o.N - 1 -> Values]
<1>1. All(o) = 0..o.N - 1 /\ \A s \in All(o) : o.container[s] \in Values
  BY BodyFields DEF All
<1> QED
  BY <1>1, TransferAssumption DEF CopiesOf, MovesOf, MovedTwice, HollowsOf, HollowMoves

\* An object some of whose elements are assigned to is one of its class.
LEMMA WithIs ==
    ASSUME NEW o, IsBody(o), NEW S, NEW f \in [0..o.N - 1 -> Values]
    PROVE  IsBody(With(o, S, f)) /\ With(o, S, f).N = o.N
<1> DEFINE g == [s \in DOMAIN o.container |-> IF s \in S THEN f[s] ELSE o.container[s]]
<1>1. g \in [0..o.N - 1 -> Values]
  BY BodyFields
<1>2. With(o, S, f) = [o EXCEPT !.container = g]
  BY DEF With, IsBody, BodyOf
<1> HIDE DEF g
<1> QED  BY <1>1, <1>2, BodyWith

\* An object with other elements, as many as o.
Like(o, r) == IsBody(r) /\ r.N = o.N /\ r.count = o.count

\* That is what assigning to elements makes of an object.
LEMMA LikeWith ==
    ASSUME NEW o, IsBody(o), NEW S, NEW f \in [0..o.N - 1 -> Values]
    PROVE  Like(o, With(o, S, f))
  BY WithIs DEF Like, With, IsBody, BodyOf

\* buf' with two objects replaced.
LEMMA PutTwo ==
    ASSUME Inv, NEW b \in Buffers, NEW c \in Buffers, NEW o, IsBody(o), NEW r, IsBody(r),
           buf' = [buf EXCEPT ![b] = o, ![c] = r], tmp' = tmp
    PROVE  Objects'
  BY DEF Inv, TypeOK, Objects

\* The objects of an operation on two.
LEMMA Operands ==
    ASSUME Inv, In(TwoBuffers)
    PROVE  /\ call.b \in Buffers /\ call.rhs \in Buffers /\ IsBody(Rhs)
           /\ In(OfOneClass) => IsBody(This) /\ This.N = Rhs.N
<1>1. call.b \in Buffers /\ call.rhs \in Buffers
  BY CallFields DEF In
<1>2. call.op \in OfOneClass => call.op \notin Creating
  BY DEF OfOneClass, Creating
<1> QED  BY <1>1, <1>2 DEF In, Inv, TypeOK, StartFits, Held, This, Rhs

\* Copies, also interrupted ones.
LEMMA CopyStep ==
    ASSUME Inv, CopyConstruct \/ CopyAssign \/ CopyAssignThrows
    PROVE  Inv'
<1>1. In(TwoBuffers) /\ throws' \in Nat
  BY Throwing1
  DEF CopyConstruct, CopyAssign, CopyAssignThrows, In, TwoBuffers, OfOneClass, Inv, TypeOK
<1>2. IsBody(Rhs) /\ call.b \in Buffers
  BY <1>1, Operands
<1>3. CASE CopyConstruct \/ CopyAssign
  <2>1. IsBody(With(Rhs, All(Rhs), CopiesOf(Rhs)))
    BY <1>2, ElementsAre, WithIs
  <2> QED  BY <1>1, <1>2, <1>3, <2>1, Put, Returns DEF CopyConstruct, CopyAssign, Set
<1>4. CASE CopyAssignThrows
  <2>1. IsBody(This) /\ This.N = Rhs.N
    BY <1>1, <1>4, Operands DEF CopyAssignThrows, In, OfOneClass
  <2>2. \A k : IsBody(With(This, Before(k), CopiesOf(Rhs)))
    BY <1>2, <2>1, ElementsAre, WithIs
  <2> QED  BY <1>1, <1>2, <1>4, <2>2, Put, Returns DEF CopyAssignThrows, Set
<1> QED  BY <1>3, <1>4

\* Move construction, also interrupted.
LEMMA MoveConstructStep ==
    ASSUME Inv, MoveConstruct \/ MoveConstructThrows
    PROVE  Inv'
<1>1. In(TwoBuffers) /\ throws' \in Nat
  BY Throwing1 DEF MoveConstruct, MoveConstructThrows, In, TwoBuffers, Inv, TypeOK
<1>2. IsBody(Rhs) /\ call.b \in Buffers /\ call.rhs \in Buffers
  BY <1>1, Operands
<1>3. \A S : IsBody(With(Rhs, S, MovesOf(Rhs))) /\ IsBody(With(Rhs, S, HollowsOf(Rhs)))
  BY <1>2, ElementsAre, WithIs
<1>4. CASE MoveConstruct
  BY <1>1, <1>2, <1>3, <1>4, PutTwo, Returns DEF MoveConstruct
<1>5. CASE MoveConstructThrows
  BY <1>1, <1>2, <1>3, <1>5, Put, Returns DEF MoveConstructThrows
<1> QED  BY <1>4, <1>5

\* Moving elements to an object of the class, or to itself.
LEMMA MoveToKeeps ==
    ASSUME Inv, In(OfOneClass), NEW o, IsBody(o), o.N = Rhs.N, NEW S, MoveTo(o, S), tmp' = tmp
    PROVE  Objects'
<1>1. call.b \in Buffers /\ call.rhs \in Buffers /\ IsBody(Rhs)
  BY Operands DEF In, TwoBuffers
<1>2. /\ IsBody(With(o, S, HollowMoves(Rhs))) /\ IsBody(With(o, S, MovesOf(Rhs)))
      /\ IsBody(With(Rhs, S, HollowsOf(Rhs)))
  BY <1>1, ElementsAre, WithIs
<1>3. CASE call.b = call.rhs
  BY <1>1, <1>2, <1>3, Put DEF MoveTo, Set
<1>4. CASE call.b # call.rhs
  BY <1>1, <1>2, <1>4, PutTwo DEF MoveTo
<1> QED  BY <1>3, <1>4

\* Move assignment, also interrupted.
LEMMA MoveAssignStep ==
    ASSUME Inv, MoveAssign \/ MoveAssignThrows
    PROVE  Inv'
<1>1. In(OfOneClass) /\ In(TwoBuffers) /\ throws' \in Nat
  BY Throwing1 DEF MoveAssign, MoveAssignThrows, In, TwoBuffers, OfOneClass, Inv, TypeOK
<1>2. IsBody(Rhs) /\ IsBody(This) /\ This.N = Rhs.N
  BY <1>1, Operands
<1>3. CASE MoveAssign
  <2> DEFINE p == [This EXCEPT !.index = Rhs.index]
             o == [This EXCEPT !.index = Rhs.index, !.count = Rhs.count]
  <2>1. IsBody(p) /\ p.N = This.N
    BY <1>2, BodyFields, BodyIndex
  <2>2. o = [p EXCEPT !.count = Rhs.count]
    BY <1>2 DEF IsBody, BodyOf
  <2>3. MoveTo(o, All(Rhs))
    BY <1>3 DEF MoveAssign
  <2> HIDE DEF p, o
  <2>4. IsBody(o) /\ o.N = Rhs.N
    BY <1>2, <2>1, <2>2, BodyFields, BodyCount
  <2>5. Objects'
    BY <1>1, <1>3, <2>3, <2>4, MoveToKeeps DEF MoveAssign
  <2> QED  BY <1>1, <1>3, <2>5, Returns DEF MoveAssign
<1>4. CASE MoveAssignThrows
  <2>1. PICK k \in All(Rhs) : MoveTo(This, Before(k))
    BY <1>4 DEF MoveAssignThrows
  <2>2. Objects'
    BY <1>1, <1>2, <1>4, <2>1, MoveToKeeps DEF MoveAssignThrows
  <2> QED  BY <1>1, <1>4, <2>2, Returns DEF MoveAssignThrows
<1> QED  BY <1>3, <1>4

\* The operands are what they were but for their elements, in B, and nothing
\* else has changed.
Spoilt(B) == /\ DOMAIN B = Buffers /\ Like(This, B[call.b]) /\ Like(Rhs, B[call.rhs])
             /\ \A b \in Buffers : b \notin {call.b, call.rhs} => B[b] = buf[b]

\* Spoilt objects are well-formed.
LEMMA SpoiltObjects ==
    ASSUME Inv, In(OfOneClass), tmp' = tmp, Spoilt(buf')
    PROVE  Objects'
  BY DEF Spoilt, Like, Objects, Inv, TypeOK

\* What a swap has made of the objects, as far as it came.
LEMMA SwappedIs ==
    ASSUME Inv, In(OfOneClass), NEW o, IsBody(o), NEW r, IsBody(r), o.N = Rhs.N, r.N = Rhs.N,
           call.b = call.rhs => o = r, NEW S
    PROVE  LET B == Swapped(o, r, S) IN
           /\ DOMAIN B = Buffers /\ Like(o, B[call.b]) /\ Like(r, B[call.rhs])
           /\ \A b \in Buffers : b \notin {call.b, call.rhs} => B[b] = buf[b]
<1>1. call.b \in Buffers /\ call.rhs \in Buffers /\ IsBody(Rhs) /\ IsBody(This)
      /\ This.N = Rhs.N /\ DOMAIN buf = Buffers
  BY Operands DEF In, TwoBuffers, Inv, TypeOK
<1> DEFINE oT == With(o, S, MovedTwice(This))
           oM == With(o, S, MovesOf(Rhs))
           rT == With(r, S, MovedTwice(This))
<1>2. Like(o, oT) /\ Like(o, oM) /\ Like(r, rT)
  BY <1>1, ElementsAre, LikeWith
<1>3. Swapped(o, r, S) = IF call.b = call.rhs THEN [buf EXCEPT ![call.b] = oT]
                         ELSE [buf EXCEPT ![call.b] = oM, ![call.rhs] = rT]
  BY DEF Swapped
<1>4. call.b = call.rhs => rT = oT
  OBVIOUS
<1> HIDE DEF oT, oM, rT
<1> QED  BY <1>1, <1>2, <1>3, <1>4

\* A complete swap.
LEMMA SwapStep == ASSUME Inv, Swap PROVE Inv'
<1>1. In(OfOneClass) /\ In(TwoBuffers) /\ throws' \in Nat /\ tmp' = tmp
  BY DEF Swap, In, TwoBuffers, OfOneClass, Inv, TypeOK
<1>2. IsBody(Rhs) /\ IsBody(This) /\ This.N = Rhs.N
  BY <1>1, Operands
<1>3. buf' = Swapped(Rhs, This, All(This))
  BY DEF Swap
<1>4. /\ DOMAIN buf' = Buffers /\ Like(Rhs, buf'[call.b]) /\ Like(This, buf'[call.rhs])
      /\ \A b \in Buffers : b \notin {call.b, call.rhs} => buf'[b] = buf[b]
  BY <1>1, <1>2, <1>3, SwappedIs DEF This, Rhs
<1>5. Objects'
  BY <1>1, <1>4 DEF Like, Objects, Inv, TypeOK
<1> QED  BY <1>1, <1>5, Returns DEF Swap

\* One element of one of the objects becomes another.
Replaced(B, b, k, v) == [B EXCEPT ![b].container[k] = v]

\* One more spoilt element spoils nothing else.
LEMMA OneElement ==
    ASSUME Inv, In(OfOneClass), NEW B, Spoilt(B), NEW b \in {call.b, call.rhs},
           NEW k \in 0..Rhs.N - 1, NEW v \in Values
    PROVE  Spoilt(Replaced(B, b, k, v))
<1>1. /\ call.b \in Buffers /\ call.rhs \in Buffers /\ IsBody(This) /\ IsBody(Rhs)
      /\ This.N = Rhs.N /\ DOMAIN B = Buffers
      /\ call.b = call.rhs => This = Rhs
  BY Operands DEF In, TwoBuffers, Spoilt, This, Rhs
<1> DEFINE f == [B[b].container EXCEPT ![k] = v]
           o == [B[b] EXCEPT !.container = f]
           C == [B EXCEPT ![b] = o]
<1>2. IsBody(B[b]) /\ B[b].N = Rhs.N
  BY <1>1 DEF Spoilt, Like
<1>3. f \in [0..B[b].N - 1 -> Values]
  BY <1>2, BodyFields
<1>4. Replaced(B, b, k, v) = C
  BY DEF Replaced
<1> HIDE DEF f
<1>5. Like(B[b], o)
  BY <1>2, <1>3, BodyWith DEF Like, IsBody, BodyOf
<1> HIDE DEF o
<1>6. /\ DOMAIN C = Buffers
      /\ \A c \in Buffers : C[c] = IF c = b THEN o ELSE B[c]
  BY <1>1
<1> HIDE DEF C
<1>7. Like(This, C[call.b]) /\ Like(Rhs, C[call.rhs])
  BY <1>1, <1>5, <1>6 DEF Spoilt, Like
<1>8. \A c \in Buffers : c \notin {call.b, call.rhs} => C[c] = buf[c]
  BY <1>6 DEF Spoilt
<1> QED  BY <1>4, <1>6, <1>7, <1>8 DEF Spoilt

\* Wherever a swap is interrupted, only elements are spoilt.
LEMMA SwapThrowsSpoils == ASSUME Inv, SwapThrows PROVE In(OfOneClass) /\ Spoilt(buf')
<1>1. In(OfOneClass) /\ In(TwoBuffers)
  BY DEF SwapThrows, In, TwoBuffers, OfOneClass
<1>2. /\ IsBody(Rhs) /\ IsBody(This) /\ This.N = Rhs.N
      /\ call.b = call.rhs => This = Rhs
  BY <1>1, Operands DEF This, Rhs
<1> DEFINE some(k) == Swapped(This, Rhs, Before(k))
           h(k) == Hollow(some(k)[call.b].container[k])
           one(k) == Replaced(some(k), call.b, k, h(k))
           m(k) == Moved(one(k)[call.rhs].container[k])
           two(k) == Replaced(some(k), call.b, k, m(k))
           l(k) == Hollow(two(k)[call.rhs].container[k])
           three(k) == Replaced(two(k), call.rhs, k, l(k))
<1>3. PICK k \in All(This) : buf' \in {some(k), one(k), three(k)}
  BY DEF SwapThrows, Replaced
<1>4. k \in 0..Rhs.N - 1
  BY <1>2, <1>3, ElementsAre
\* The elements that are in a spoilt object.
<1>5. ASSUME NEW B, Spoilt(B), NEW b \in {call.b, call.rhs}
      PROVE  Hollow(B[b].container[k]) \in Values /\ Moved(B[b].container[k]) \in Values
  <2>1. IsBody(B[b]) /\ k \in 0..B[b].N - 1
    BY <1>2, <1>4, <1>5 DEF Spoilt, Like
  <2> QED  BY <2>1, BodyFields, TransferAssumption
<1>6. Spoilt(some(k))
  BY <1>1, <1>2, SwappedIs DEF Spoilt
<1> HIDE DEF some
<1>7. h(k) \in Values
  BY <1>5, <1>6
<1> HIDE DEF h
<1>8. Spoilt(one(k))
  BY <1>1, <1>4, <1>6, <1>7, OneElement
<1> HIDE DEF one
<1>9. m(k) \in Values
  BY <1>5, <1>8
<1> HIDE DEF m
<1>10. Spoilt(two(k))
  BY <1>1, <1>4, <1>6, <1>9, OneElement
<1> HIDE DEF two
<1>11. l(k) \in Values
  BY <1>5, <1>10
<1> HIDE DEF l
<1>12. Spoilt(three(k))
  BY <1>1, <1>4, <1>10, <1>11, OneElement
<1> QED  BY <1>1, <1>3, <1>6, <1>8, <1>12

\* An interrupted swap.
LEMMA SwapThrowsStep == ASSUME Inv, SwapThrows PROVE Inv'
<1>1. Objects' /\ throws' \in Nat
  BY SwapThrowsSpoils, SpoiltObjects, Throwing1 DEF SwapThrows
<1> QED  BY <1>1, Returns DEF SwapThrows

-----------------------------------------------------------------------------
\* Filling.

\* The object that is pushed to.
LEMMA SubjectIs ==
    ASSUME Inv, pc = "fill"
    PROVE  /\ call.op \in Filling /\ call.b \in Buffers /\ IsBody(Subject)
           /\ call.op # "make" => Subject = This
<1>1. FillFits /\ call.b \in Buffers
  BY CallFields DEF Inv
<1> QED  BY <1>1 DEF Inv, TypeOK, FillFits, Held, Subject, This

\* push_many() and make_buffer() begin.
LEMMA StartStep == ASSUME Inv, Start PROVE Inv'
<1>1. call \in Call /\ call.op \in Filling /\ call.b \in Buffers /\ call.n \in Classes
  BY CallFields DEF Start, In, Inv, TypeOK
<1>2. call.op # "make" => call.op \notin Creating
  BY <1>1 DEF Filling, Creating
<1>3. call.op # "make" => Held(call.b)
  BY <1>2 DEF Start, In, Inv, StartFits
<1>4. IsBody(NewBody(call.n))
  BY <1>1, NewBodyIs
<1>5. call.op = "make" => IsBody(tmp')
  BY <1>4 DEF Start
<1>6. TypeOK'
  BY <1>1, <1>4 DEF Start, Inv, TypeOK
<1>7. pc' = "fill" /\ call' = call /\ buf' = buf
  BY DEF Start
<1>8. StartFits' /\ FillFits'
  BY <1>1, <1>3, <1>5, <1>7 DEF StartFits, FillFits, Held
<1> QED  BY <1>6, <1>7, <1>8 DEF Start, In, Inv

\* They push one argument.
LEMMA FillStep == ASSUME Inv, Fill PROVE Inv'
<1>1. /\ pc = "fill" /\ pc' = "fill" /\ call' = call /\ throws' = throws /\ done' = done + 1
      /\ done \in Nat /\ done < Len(call.eles) /\ ~Full(Subject)
  BY SubjectIs DEF Fill, MoreToFill, Refuses, Inv, TypeOK
<1>2. /\ call.op \in Filling /\ call.b \in Buffers /\ IsBody(Subject)
      /\ call.op # "make" => Subject = This
  BY <1>1, SubjectIs
<1> DEFINE v == Passed(call.eles[done + 1])
           o == Assigned(Subject, v)
<1>3. SetSubject(o)
  BY DEF Fill
<1>4. v \in Values
  <2>1. Len(call.eles) \in Nat
    BY <1>1, CallFields
  <2>2. done + 1 \in 1..Len(call.eles)
    BY <1>1, <2>1
  <2> QED  BY <1>1, <2>2, CallFields
<1> HIDE DEF v
<1>5. IsBody(o)
  BY <1>1, <1>2, <1>4, AssignedBody
<1> HIDE DEF o
<1>6. TypeOK'
  BY <1>1, <1>2, <1>3, <1>5 DEF SetSubject, Set, Inv, TypeOK
<1>7. FillFits'
  BY <1>1, <1>2, <1>3, <1>5 DEF SetSubject, Set, Inv, TypeOK, FillFits, Held
<1> QED  BY <1>1, <1>6, <1>7 DEF Inv, StartFits

\* They end: complete, refused, or by an exception.
LEMMA FillEndStep ==
    ASSUME Inv, FillRefused \/ FillThrows \/ Filled
    PROVE  Inv'
<1>1. pc = "fill" /\ tmp' = None /\ throws' \in Nat
  BY Throwing1 DEF FillRefused, FillThrows, Filled, MoreToFill, Inv, TypeOK
<1>2. /\ call.op \in Filling /\ call.b \in Buffers /\ IsBody(Subject)
      /\ call.op # "make" => Subject = This
      /\ call.op = "make" => Subject = tmp
  BY <1>1, SubjectIs DEF Subject
<1>3. CASE FillRefused
  <2>1. Objects'
    BY <1>1, <1>3 DEF FillRefused, Objects, Inv, TypeOK
  <2> QED  BY <1>1, <1>3, <2>1, Returns DEF FillRefused
<1>4. CASE FillThrows
  <2>1. ~Full(Subject)
    BY <1>2, <1>4 DEF FillThrows, Refuses
  <2>2. call.op # "make" => IsBody(CountedOnly(This))
    BY <1>2, <2>1, AssignedBody, TransferAssumption
  <2>3. Objects'
    BY <1>1, <1>2, <1>4, <2>2, Put DEF FillThrows, Set, Objects, Inv, TypeOK
  <2> QED  BY <1>1, <1>4, <2>3, Returns DEF FillThrows
<1>5. CASE Filled
  <2>1. Objects'
    BY <1>1, <1>2, <1>5, Put DEF Filled, Set, Objects, Inv, TypeOK
  <2> QED  BY <1>1, <1>5, <2>1, Returns DEF Filled
<1> QED  BY <1>3, <1>4, <1>5

\* Every step keeps the invariant.
LEMMA InvStep == Inv /\ [Next]_vars => Inv'
<1> SUFFICES ASSUME Inv, [Next]_vars PROVE Inv'
  OBVIOUS
<1>1. CASE UNCHANGED vars
  BY <1>1 DEF vars, Inv, TypeOK, StartFits, FillFits, Held
<1>2. CASE \E c \in Calls : Invoke(c)
  BY <1>2, InvokeStep
<1>3. CASE Body
  BY <1>3, ReadStep, OneStep, CopyStep, MoveConstructStep, MoveAssignStep, SwapStep,
     SwapThrowsStep, StartStep, FillStep, FillEndStep DEF Body
<1> QED  BY <1>1, <1>2, <1>3 DEF Next

\* Spec => []Inv
LEMMA InvHolds == Spec => []Inv
<1> QED  BY InvInit, InvStep, PTL DEF Spec

-----------------------------------------------------------------------------
\* Whatever N is, and wherever an exception from an element leaves an object,
\* its index is within its array and it does not count more elements than the
\* array has.
THEOREM TypeCorrect == Spec => []TypeOK
<1>1. Inv => TypeOK
  BY DEF Inv
<1> QED  BY <1>1, InvHolds, PTL

\* The elements of an object are always in slots of their own, and the slot
\* that back() finds by subtracting RingN numbers is the last element's: of the
\* subtractions, which are wrong for results below -1, the buffer makes only
\* the right ones.
THEOREM WindowsIntact == Spec => []WindowIntact
<1>1. Inv => WindowIntact
  BY WindowOfBody DEF Inv, TypeOK, WindowIntact
<1> QED  BY <1>1, InvHolds, PTL

-----------------------------------------------------------------------------
\* What a caller sees of an object.

\* The slots of an object that has some: one after the other, round the ring.
LEMMA SlotIs ==
    ASSUME NEW o, IsBody(o), o.N # 0, NEW i \in 0..o.N
    PROVE  /\ Slot(o, i) = IF o.index + i < o.N THEN o.index + i ELSE o.index + i - o.N
           /\ Slot(o, i) \in 0..o.N - 1
<1>1. o.N \in Nat \ {0} /\ o.index \in 0..o.N - 1
  BY BodyFields DEF IndexOf
<1>2. Slot(o, i) = IF o.index + i < o.N THEN o.index + i ELSE o.index + i - o.N
  BY <1>1, RingPlusIs DEF Slot
<1> QED  BY <1>1, <1>2

\* An object's elements, in order.
LEMMA ContentsAre ==
    ASSUME NEW o, IsBody(o)
    PROVE  /\ Contents(o) \in Seq(Values) /\ Len(Contents(o)) = o.count
           /\ DOMAIN Contents(o) = 1..o.count
           /\ \A i \in 1..o.count : /\ Slot(o, i - 1) \in All(o)
                                   /\ Contents(o)[i] = o.container[Slot(o, i - 1)]
           /\ Contents(o) = <<>> <=> Empty(o)
           /\ o.count \in Nat
<1>1. o.N \in Nat /\ o.count \in 0..o.N /\ All(o) = 0..o.N - 1
      /\ \A s \in 0..o.N - 1 : o.container[s] \in Values
  BY BodyFields, ElementsAre
<1>2. ASSUME NEW i \in 1..o.count
      PROVE  Slot(o, i - 1) \in 0..o.N - 1
  <2>1. o.N # 0 /\ i - 1 \in 0..o.N
    BY <1>1
  <2> QED  BY <2>1, SlotIs
<1>3. Contents(o) \in [1..o.count -> Values]
  BY <1>1, <1>2 DEF Contents
<1>4. Contents(o) \in Seq(Values) /\ Len(Contents(o)) = o.count
  BY <1>1, <1>3, SeqDef
<1> QED  BY <1>1, <1>2, <1>3, <1>4, EmptySeq DEF Contents, Empty

\* A sequence with the elements of s and v after them.
LEMMA AppendIs ==
    ASSUME NEW s \in Seq(Values), NEW t \in Seq(Values), NEW v \in Values, Len(t) = Len(s) + 1,
           \A i \in 1..Len(s) + 1 : t[i] = IF i = Len(s) + 1 THEN v ELSE s[i]
    PROVE  t = Append(s, v)
<1> DEFINE a == Append(s, v)
<1>1. /\ a \in Seq(Values) /\ Len(a) = Len(s) + 1 /\ Len(s) \in Nat
      /\ \A i \in 1..Len(s) : a[i] = s[i]
      /\ a[Len(s) + 1] = v
  BY AppendProperties
<1> HIDE DEF a
<1>2. \A i \in 1..Len(a) : a[i] = t[i]
  BY <1>1
<1>3. a = t
  BY <1>1, <1>2, SeqEqual
<1> QED  BY <1>3 DEF a

\* A new object has no elements.
LEMMA ContentsNew == \A N \in Classes : Contents(NewBody(N)) = <<>>
  BY NewBodyIs, ContentsAre DEF NewBody, Empty

\* push() adds an element at the end, and some element when the assignment
\* throws.
LEMMA ContentsAssigned ==
    ASSUME NEW o, IsBody(o), ~Full(o), NEW v \in Values
    PROVE  /\ Contents(Assigned(o, v)) = Append(Contents(o), v)
           /\ \E w \in Values : Contents(CountedOnly(o)) = Append(Contents(o), w)
<1> DEFINE n == o.count
           p == Assigned(o, v)
           q == CountedOnly(o)
<1>1. /\ o.N \in Nat \ {0} /\ n \in 0..o.N - 1 /\ o.index \in 0..o.N - 1
      /\ DOMAIN o.container = 0..o.N - 1
      /\ \A s \in 0..o.N - 1 : o.container[s] \in Values
  BY BodyFields DEF Full, IndexOf
<1>2. AddIndex(o) = Slot(o, n) /\ Slot(o, n) \in 0..o.N - 1
  BY <1>1, SlotIs DEF AddIndex, Slot
<1>3. /\ IsBody(p) /\ IsBody(q) /\ p.count = n + 1 /\ q.count = n + 1
      /\ p.container = [o.container EXCEPT ![Slot(o, n)] = v] /\ q.container = o.container
      /\ \A i : Slot(p, i) = Slot(o, i) /\ Slot(q, i) = Slot(o, i)
  BY <1>2, AssignedBody DEF Assigned, CountedOnly, IsBody, BodyOf, Slot
<1> HIDE DEF p, q
<1>4. ASSUME NEW i \in 1..n
      PROVE  p.container[Slot(p, i - 1)] = o.container[Slot(o, i - 1)]
  <2>1. i - 1 \in 0..o.N - 1 /\ i - 1 # n /\ i - 1 \in 0..o.N /\ n \in 0..o.N
    BY <1>1
  <2>2. /\ Slot(o, i - 1) \in 0..o.N - 1
        /\ Slot(o, i - 1) = IF o.index + (i - 1) < o.N THEN o.index + (i - 1)
                            ELSE o.index + (i - 1) - o.N
        /\ Slot(o, n) = IF o.index + n < o.N THEN o.index + n ELSE o.index + n - o.N
    BY <1>1, <2>1, SlotIs
  <2>3. Slot(o, i - 1) # Slot(o, n)
    BY <1>1, <2>1, <2>2
  <2> QED  BY <1>1, <1>3, <2>2, <2>3
<1>5. p.container[Slot(p, n)] = v
  BY <1>1, <1>2, <1>3
<1>6. /\ Len(Contents(o)) = n /\ Contents(o) \in Seq(Values)
      /\ Len(Contents(p)) = n + 1 /\ Contents(p) \in Seq(Values)
      /\ Len(Contents(q)) = n + 1 /\ Contents(q) \in Seq(Values)
  BY <1>3, ContentsAre
<1>7. Contents(p) = Append(Contents(o), v)
  <2>1. ASSUME NEW i \in 1..n + 1
        PROVE  Contents(p)[i] = IF i = n + 1 THEN v ELSE Contents(o)[i]
    BY <1>1, <1>3, <1>4, <1>5 DEF Contents
  <2> QED  BY <1>6, <2>1, AppendIs
<1> DEFINE w == o.container[Slot(o, n)]
<1>8. w \in Values
  BY <1>1, <1>2
<1>9. \A i \in 1..n + 1 : Contents(q)[i] = IF i = n + 1 THEN w ELSE Contents(o)[i]
  BY <1>1, <1>3 DEF Contents
<1> HIDE DEF w
<1>10. Contents(q) = Append(Contents(o), w)
  <2> DEFINE s == Contents(o)
             t == Contents(q)
  <2>1. s \in Seq(Values) /\ t \in Seq(Values) /\ Len(t) = Len(s) + 1
    BY <1>6
  <2>2. \A i \in 1..Len(s) + 1 : t[i] = IF i = Len(s) + 1 THEN w ELSE s[i]
    BY <1>6, <1>9
  <2> HIDE DEF s, t
  <2>3. t = Append(s, w)
    BY <1>8, <2>1, <2>2, AppendIs
  <2> QED  BY <2>3 DEF s, t
<1> QED  BY <1>7, <1>8, <1>10 DEF p, q

\* pop() removes the first element.
LEMMA ContentsPopped ==
    ASSUME NEW o, IsBody(o), ~Empty(o)
    PROVE  /\ IsBody(Popped(o)) /\ Popped(o).N = o.N
           /\ Contents(Popped(o)) = Tail(Contents(o))
<1> DEFINE p == Popped(o)
           s == Contents(o)
<1>1. /\ o.N \in Nat \ {0} /\ o.count \in 1..o.N /\ o.index \in 0..o.N - 1
  BY BodyFields DEF Empty, IndexOf
<1>2. RingPlus(o.N, o.index, Ring(o.N, 1)) = IF o.index + 1 < o.N THEN o.index + 1
                                             ELSE o.index + 1 - o.N
  BY <1>1, RingPlusIs
<1>3. /\ IsBody(p) /\ p.N = o.N /\ p.count = o.count - 1 /\ p.container = o.container
      /\ p.index = IF o.index + 1 < o.N THEN o.index + 1 ELSE o.index + 1 - o.N
  BY <1>2, PoppedBody
<1> HIDE DEF p
<1>4. ASSUME NEW i \in 1..o.count - 1
      PROVE  Contents(p)[i] = s[i + 1]
  <2>1. i - 1 \in 0..o.N /\ i \in 0..o.N /\ i < o.N /\ i + 1 \in 1..o.count /\ (i + 1) - 1 = i
    BY <1>1
  <2>2. /\ Slot(p, i - 1) = IF p.index + (i - 1) < o.N THEN p.index + (i - 1)
                            ELSE p.index + (i - 1) - o.N
        /\ Slot(o, i) = IF o.index + i < o.N THEN o.index + i ELSE o.index + i - o.N
    BY <1>1, <1>3, <2>1, SlotIs
  <2>3. Slot(p, i - 1) = Slot(o, i)
    BY <1>1, <1>3, <2>1, <2>2
  <2> QED  BY <1>3, <2>1, <2>3 DEF Contents
<1>5. /\ s \in Seq(Values) /\ Len(s) = o.count /\ s # <<>>
      /\ Contents(p) \in Seq(Values) /\ Len(Contents(p)) = o.count - 1
  BY <1>3, ContentsAre
<1> HIDE DEF s
<1>6. /\ Tail(s) \in Seq(Values) /\ Len(Tail(s)) = o.count - 1
      /\ \A i \in 1..o.count - 1 : Tail(s)[i] = s[i + 1]
  BY <1>1, <1>5
<1>7. \A i \in 1..Len(Tail(s)) : Tail(s)[i] = Contents(p)[i]
  BY <1>4, <1>6
<1>8. Tail(s) = Contents(p)
  BY <1>5, <1>6, <1>7, SeqEqual
<1> QED  BY <1>3, <1>8 DEF p, s

\* All of them are, in an object with r's index and count.
LEMMA ContentsWith ==
    ASSUME NEW o, IsBody(o), NEW r, IsBody(r), o.N = r.N, o.index = r.index, o.count = r.count,
           NEW f \in [0..r.N - 1 -> Values]
    PROVE  Contents(With(o, All(r), f)) = [i \in 1..r.count |-> f[Slot(r, i - 1)]]
<1> DEFINE p == With(o, All(r), f)
<1>1. All(r) = 0..r.N - 1 /\ DOMAIN o.container = 0..r.N - 1
  BY BodyFields, ElementsAre
<1>2. /\ p.N = r.N /\ p.count = r.count /\ p.index = r.index
      /\ p.container = [s \in 0..r.N - 1 |-> f[s]]
  BY <1>1 DEF With, IsBody, BodyOf
<1> HIDE DEF p
<1>3. ASSUME NEW i \in 1..r.count
      PROVE  p.container[Slot(p, i - 1)] = f[Slot(r, i - 1)]
  <2>1. Slot(r, i - 1) \in 0..r.N - 1
    BY <1>1, ContentsAre
  <2> QED  BY <1>2, <2>1 DEF Slot
<1>4. Contents(p) = [i \in 1..r.count |-> f[Slot(r, i - 1)]]
  BY <1>2, <1>3 DEF Contents
<1> QED  BY <1>4 DEF p

\* Copies, moves and what they leave, element by element.
LEMMA EachOf ==
    ASSUME NEW o, IsBody(o), NEW r, IsBody(r), o.N = r.N, o.index = r.index, o.count = r.count
    PROVE  LET s == Contents(r)
               all(f) == Contents(With(o, All(r), f)) IN
           /\ all(CopiesOf(r)) = [i \in DOMAIN s |-> Copied(s[i])]
           /\ all(MovesOf(r)) = [i \in DOMAIN s |-> Moved(s[i])]
           /\ all(MovedTwice(r)) = [i \in DOMAIN s |-> Moved(Moved(s[i]))]
           /\ all(HollowsOf(r)) = [i \in DOMAIN s |-> Hollow(s[i])]
           /\ all(HollowMoves(r)) = [i \in DOMAIN s |-> Hollow(Moved(s[i]))]
<1> DEFINE s == Contents(r)
           all(f) == Contents(With(o, All(r), f))
<1>1. \A f \in [0..r.N - 1 -> Values] : all(f) = [i \in 1..r.count |-> f[Slot(r, i - 1)]]
  BY ContentsWith
<1>2. /\ DOMAIN s = 1..r.count
      /\ \A i \in 1..r.count : Slot(r, i - 1) \in All(r) /\ s[i] = r.container[Slot(r, i - 1)]
  BY ContentsAre
<1> HIDE DEF all, s
<1>3. all(CopiesOf(r)) = [i \in DOMAIN s |-> Copied(s[i])]
  <2>1. all(CopiesOf(r)) = [i \in 1..r.count |-> CopiesOf(r)[Slot(r, i - 1)]]
    BY <1>1, ElementsAre
  <2>2. \A i \in 1..r.count : CopiesOf(r)[Slot(r, i - 1)] = Copied(s[i])
    BY <1>2 DEF CopiesOf
  <2> QED  BY <1>2, <2>1, <2>2
<1>4. all(MovesOf(r)) = [i \in DOMAIN s |-> Moved(s[i])]
  <2>1. all(MovesOf(r)) = [i \in 1..r.count |-> MovesOf(r)[Slot(r, i - 1)]]
    BY <1>1, ElementsAre
  <2>2. \A i \in 1..r.count : MovesOf(r)[Slot(r, i - 1)] = Moved(s[i])
    BY <1>2 DEF MovesOf
  <2> QED  BY <1>2, <2>1, <2>2
<1>5. all(MovedTwice(r)) = [i \in DOMAIN s |-> Moved(Moved(s[i]))]
  <2>1. all(MovedTwice(r)) = [i \in 1..r.count |-> MovedTwice(r)[Slot(r, i - 1)]]
    BY <1>1, ElementsAre
  <2>2. \A i \in 1..r.count : MovedTwice(r)[Slot(r, i - 1)] = Moved(Moved(s[i]))
    BY <1>2 DEF MovedTwice
  <2> QED  BY <1>2, <2>1, <2>2
<1>6. all(HollowsOf(r)) = [i \in DOMAIN s |-> Hollow(s[i])]
  <2>1. all(HollowsOf(r)) = [i \in 1..r.count |-> HollowsOf(r)[Slot(r, i - 1)]]
    BY <1>1, ElementsAre
  <2>2. \A i \in 1..r.count : HollowsOf(r)[Slot(r, i - 1)] = Hollow(s[i])
    BY <1>2 DEF HollowsOf
  <2> QED  BY <1>2, <2>1, <2>2
<1>7. all(HollowMoves(r)) = [i \in DOMAIN s |-> Hollow(Moved(s[i]))]
  <2>1. all(HollowMoves(r)) = [i \in 1..r.count |-> HollowMoves(r)[Slot(r, i - 1)]]
    BY <1>1, ElementsAre
  <2>2. \A i \in 1..r.count : HollowMoves(r)[Slot(r, i - 1)] = Hollow(Moved(s[i]))
    BY <1>2 DEF HollowMoves
  <2> QED  BY <1>2, <2>1, <2>2
<1> QED  BY <1>3, <1>4, <1>5, <1>6, <1>7 DEF all, s

-----------------------------------------------------------------------------
\* Objects and calls as the abstract sequences' caller sees them.

View(o) == IF o = None THEN None ELSE Abstract!Buffer(Contents(o), o.N)

\* The sequence and the capacity of an object.
LEMMA ViewIs ==
    ASSUME NEW o, IsBody(o)
    PROVE  /\ View(o) = Abstract!Buffer(Contents(o), o.N)
           /\ View(o).els = Contents(o) /\ View(o).cap = o.N
           /\ \A els : [View(o) EXCEPT !.els = els] = Abstract!Buffer(els, o.N)
  BY BodyFields DEF View, Abstract!Buffer

\* Assigning to all elements is doing it to each of the sequence.
LEMMA EachSeen ==
    ASSUME NEW o, IsBody(o), NEW r, IsBody(r), o.N = r.N, o.index = r.index, o.count = r.count
    PROVE  LET with(f) == View(With(o, All(r), f)) IN
           /\ with(CopiesOf(r)) = Abstract!Each(Copied, View(r))
           /\ with(MovesOf(r)) = Abstract!Each(Moved, View(r))
           /\ with(MovedTwice(r)) = Abstract!Each(Abstract!Twice, View(r))
           /\ with(HollowsOf(r)) = Abstract!Each(Hollow, View(r))
           /\ with(HollowMoves(r)) = Abstract!Each(LAMBDA v : Hollow(Moved(v)), View(r))
<1> DEFINE s == Contents(r)
           v == View(r)
           with(f) == With(o, All(r), f)
<1>1. /\ v.els = s /\ \A els : [v EXCEPT !.els = els] = Abstract!Buffer(els, r.N)
  BY ViewIs
<1>2. \A f \in [0..r.N - 1 -> Values] :
          View(with(f)) = Abstract!Buffer(Contents(with(f)), r.N)
  BY WithIs, ViewIs
<1>3. /\ Contents(with(CopiesOf(r))) = [i \in DOMAIN s |-> Copied(s[i])]
      /\ Contents(with(MovesOf(r))) = [i \in DOMAIN s |-> Moved(s[i])]
      /\ Contents(with(MovedTwice(r))) = [i \in DOMAIN s |-> Moved(Moved(s[i]))]
      /\ Contents(with(HollowsOf(r))) = [i \in DOMAIN s |-> Hollow(s[i])]
      /\ Contents(with(HollowMoves(r))) = [i \in DOMAIN s |-> Hollow(Moved(s[i]))]
  BY EachOf
<1> HIDE DEF s, v, with
<1>4. View(with(CopiesOf(r))) = Abstract!Each(Copied, v)
  <2>1. View(with(CopiesOf(r))) = Abstract!Buffer([i \in DOMAIN s |-> Copied(s[i])], r.N)
    BY <1>2, <1>3, ElementsAre
  <2> QED  BY <1>1, <2>1 DEF Abstract!Each
<1>5. View(with(MovesOf(r))) = Abstract!Each(Moved, v)
  <2>1. View(with(MovesOf(r))) = Abstract!Buffer([i \in DOMAIN s |-> Moved(s[i])], r.N)
    BY <1>2, <1>3, ElementsAre
  <2> QED  BY <1>1, <2>1 DEF Abstract!Each
<1>6. View(with(MovedTwice(r))) = Abstract!Each(Abstract!Twice, v)
  <2>1. View(with(MovedTwice(r))) = Abstract!Buffer([i \in DOMAIN s |-> Moved(Moved(s[i]))], r.N)
    BY <1>2, <1>3, ElementsAre
  <2> QED  BY <1>1, <2>1 DEF Abstract!Each, Abstract!Twice
<1>7. View(with(HollowsOf(r))) = Abstract!Each(Hollow, v)
  <2>1. View(with(HollowsOf(r))) = Abstract!Buffer([i \in DOMAIN s |-> Hollow(s[i])], r.N)
    BY <1>2, <1>3, ElementsAre
  <2> QED  BY <1>1, <2>1 DEF Abstract!Each
<1>8. View(with(HollowMoves(r))) = Abstract!Each(LAMBDA x : Hollow(Moved(x)), v)
  <2>1. View(with(HollowMoves(r))) = Abstract!Buffer([i \in DOMAIN s |-> Hollow(Moved(s[i]))], r.N)
    BY <1>2, <1>3, ElementsAre
  <2> QED  BY <1>1, <2>1 DEF Abstract!Each
<1> QED  BY <1>4, <1>5, <1>6, <1>7, <1>8 DEF s, v, with

-----------------------------------------------------------------------------
\* What the refinement mapping needs to know of a reachable state.

\* make_buffer()'s local object has the elements made from the arguments that
\* have been pushed.
MakePrefix == /\ tmp.N = call.n
              /\ Contents(tmp) = [i \in 1..done |-> Passed(call.eles[i])]

Progress == /\ pc # "fill" => done = 0
            /\ pc = "fill" => done <= Len(call.eles)
            /\ pc = "fill" /\ call.op = "make" => MakePrefix
            /\ pc = "start" /\ call.op \in Creating => This = None

RefInv == Inv /\ Progress

\* A step keeps what is known of the arguments that have been pushed.
LEMMA StepProgress ==
    ASSUME RefInv, [Next]_vars
    PROVE  Progress'
<1> USE DEF RefInv, Progress
<1>1. ASSUME NEW c \in Calls, Invoke(c)
      PROVE  Progress'
  BY <1>1 DEF Invoke, This
<1>2. CASE Start
  <2>1. /\ pc = "start" /\ pc' = "fill" /\ done' = 0 /\ call' = call
        /\ call.op \in Filling /\ Len(call.eles) \in Nat /\ call.n \in Classes
    BY <1>2, CallFields DEF Start, In
  <2>2. call.op = "make" => tmp' = NewBody(call.n)
    BY <1>2 DEF Start
  <2>3. call.op = "make" => MakePrefix'
    BY <2>1, <2>2 DEF MakePrefix, NewBody, Contents
  <2> QED  BY <2>1, <2>3
<1>3. CASE Fill
  <2> DEFINE v == Passed(call.eles[done + 1])
  <2>1. /\ pc = "fill" /\ pc' = "fill" /\ done' = done + 1 /\ call' = call
        /\ done \in Nat /\ done < Len(call.eles) /\ Len(call.eles) \in Nat
        /\ ~Full(Subject) /\ IsBody(Subject)
    BY <1>3, SubjectIs, CallFields DEF Fill, MoreToFill, Refuses, Inv, TypeOK
  <2>2. v \in Values /\ \A k \in 1..done + 1 : Passed(call.eles[k]) \in Values
    BY <2>1, CallFields
  <2>3. ASSUME call.op = "make"
        PROVE  MakePrefix'
    <3> DEFINE s == Contents(tmp)
               t == [i \in 1..done + 1 |-> Passed(call.eles[i])]
    <3>1. tmp' = Assigned(tmp, v) /\ IsBody(tmp) /\ ~Full(tmp) /\ tmp.N = call.n
      BY <1>3, <2>1, <2>3 DEF Fill, SetSubject, Subject, MakePrefix
    <3>2. /\ s \in Seq(Values) /\ DOMAIN s = 1..done /\ Len(s) = done
          /\ \A i \in 1..done : s[i] = Passed(call.eles[i])
      BY <2>1, <2>3, <3>1, ContentsAre DEF MakePrefix
    <3>3. t \in Seq(Values) /\ Len(t) = done + 1
      BY <2>1, <2>2
    <3>4. \A i \in 1..Len(s) + 1 : t[i] = IF i = Len(s) + 1 THEN v ELSE s[i]
      BY <2>1, <3>2
    <3> HIDE DEF s, t, v
    <3>5. t = Append(s, v)
      BY <2>2, <3>2, <3>3, <3>4, AppendIs
    <3>6. Contents(tmp') = t /\ tmp'.N = tmp.N
      BY <2>2, <3>1, <3>5, ContentsAssigned DEF s, Assigned, IsBody, BodyOf
    <3> QED  BY <2>1, <3>1, <3>6 DEF MakePrefix, t
  <2> QED  BY <2>1, <2>3
<1>4. CASE UNCHANGED vars
  BY <1>4 DEF vars, MakePrefix, This
<1>5. ASSUME pc' = "idle", done' = 0
      PROVE  Progress'
  BY <1>5
<1>6. CASE Body
  BY <1>2, <1>3, <1>5, <1>6 DEF Body, New, Refused, Push, PushThrows, Pop, Front, Back, Observe,
     Destroy, CopyConstruct, CopyConstructThrows, MoveConstruct, MoveConstructThrows, CopyAssign,
     CopyAssignThrows, MoveAssign, MoveAssignThrows, SwapNothing, Swap, SwapThrows, FillRefused,
     FillThrows, Filled, Return
<1> QED  BY <1>1, <1>4, <1>6 DEF Next

\* The call as it is seen.
LEMMA SameCall ==
    ASSUME Inv, pc # "idle"
    PROVE  /\ absCall # None /\ absCall.op = call.op /\ absCall.b = call.b
           /\ absCall.rhs = call.rhs /\ absCall.eles = call.eles
           /\ absCall.n = IF call.op = "push_many" THEN done ELSE call.n
           /\ call.op # "push_many" => absCall = call
           /\ \A ops : Abstract!In(ops) <=> call.op \in ops
<1>1. call \in Call /\ call # None /\ done \in Nat
  BY CallsAssumption DEF Inv, TypeOK
<1> DEFINE c == [call EXCEPT !.n = done]
<1>2. /\ c \in Call /\ c.op = call.op /\ c.b = call.b /\ c.rhs = call.rhs
      /\ c.eles = call.eles /\ c.n = done
  BY <1>1 DEF Call
<1>3. c # None
  BY <1>2, CallsAssumption
<1>4. absCall = IF call.op = "push_many" THEN c ELSE call
  BY <1>1 DEF absCall
<1> HIDE DEF c
<1>5. \A ops : Abstract!In(ops) <=> call.op \in ops
  BY <1>1, <1>2, <1>3, <1>4 DEF Abstract!In
<1> QED  BY <1>1, <1>2, <1>3, <1>4, <1>5

\* The end of a call.
LEMMA AbsReturns ==
    ASSUME NEW st, NEW val, Return(Result(st, val))
    PROVE  Abstract!Return(st, val) /\ pc' = "idle"
  BY DEF Return, Abstract!Return, Abstract!Result, Result, absCall

\* A step that changes no object but those of the call.
LEMMA BothSeen ==
    ASSUME Inv, pc # "idle", DOMAIN buf' = Buffers,
           \A b \in Buffers : b \notin {call.b, call.rhs} => buf'[b] = buf[b]
    PROVE  Abstract!Both(View(buf'[call.b]), View(buf'[call.rhs]))
<1>1. absCall.b = call.b /\ absCall.rhs = call.rhs /\ call.b \in Buffers
  BY SameCall, CallFields
<1>2. /\ absSeqs = [b \in Buffers |-> View(buf[b])]
      /\ absSeqs' = [b \in Buffers |-> View(buf'[b])]
  BY DEF absSeqs, View, Abstract!Buffer
<1>3. absSeqs' = [absSeqs EXCEPT ![call.b] = View(buf'[call.b]),
                                ![call.rhs] = View(buf'[call.rhs])]
  BY <1>1, <1>2
<1> QED  BY <1>1, <1>3 DEF Abstract!Both

\* A step that changes the object of the call only.
LEMMA SetSeen ==
    ASSUME Inv, pc # "idle", NEW o, Set(o)
    PROVE  Abstract!Set(View(o))
<1>1. absCall.b = call.b /\ call.b \in Buffers /\ DOMAIN buf = Buffers
  BY SameCall, CallFields DEF Inv, TypeOK
<1>2. /\ absSeqs = [b \in Buffers |-> View(buf[b])]
      /\ absSeqs' = [b \in Buffers |-> View(buf'[b])]
  BY DEF absSeqs, View, Abstract!Buffer
<1>3. absSeqs' = [absSeqs EXCEPT ![call.b] = View(o)]
  BY <1>1, <1>2 DEF Set
<1> QED  BY <1>1, <1>3 DEF Abstract!Set

\* The objects of the call.
LEMMA OperandsSeen ==
    ASSUME Inv, pc # "idle"
    PROVE  /\ Abstract!This = View(This)
           /\ call.rhs \in Buffers => Abstract!Rhs = View(Rhs)
           /\ IsBody(This) => /\ Abstract!Els = Contents(This)
                              /\ absSeqs[absCall.b].cap = This.N
                              /\ Abstract!IsFull <=> Full(This)
<1>1. absCall.b = call.b /\ absCall.rhs = call.rhs /\ call.b \in Buffers
  BY SameCall, CallFields
<1>2. absSeqs = [b \in Buffers |-> View(buf[b])]
  BY DEF absSeqs, View, Abstract!Buffer
<1>3. /\ Abstract!This = View(This)
      /\ call.rhs \in Buffers => Abstract!Rhs = View(Rhs)
  BY <1>1, <1>2 DEF Abstract!This, Abstract!Rhs, This, Rhs
<1>4. ASSUME IsBody(This)
      PROVE  /\ Abstract!Els = Contents(This) /\ absSeqs[absCall.b].cap = This.N
             /\ Abstract!IsFull <=> Full(This)
  <2>1. absSeqs[absCall.b].els = Contents(This) /\ absSeqs[absCall.b].cap = This.N
    BY <1>1, <1>2, <1>4, ViewIs DEF This
  <2>2. Len(Contents(This)) = This.count
    BY <1>4, ContentsAre
  <2> QED  BY <2>1, <2>2 DEF Abstract!Els, Abstract!IsFull, Full
<1> QED  BY <1>3, <1>4

-----------------------------------------------------------------------------
\* Operations on one object.

\* The object of a call in progress, and what may be added to it.
LEMMA AddSeen ==
    ASSUME Inv, pc # "idle", IsBody(This), ~Full(This), NEW v \in Values, NEW o, Set(o), IsBody(o),
           o.N = This.N, Contents(o) = Append(Contents(This), v)
    PROVE  Abstract!Add(v)
<1>1. /\ Abstract!Set(View(o)) /\ Abstract!This = View(This) /\ ~Abstract!IsFull
      /\ View(o) = Abstract!Buffer(Append(Contents(This), v), This.N)
      /\ View(This).els = Contents(This)
      /\ \A els : [View(This) EXCEPT !.els = els] = Abstract!Buffer(els, This.N)
  BY SetSeen, OperandsSeen, ViewIs
<1>2. View(o) = [View(This) EXCEPT !.els = Append(@, v)]
  BY <1>1
<1>3. absSeqs[absCall.b] = View(This)
  BY <1>1 DEF Abstract!This
<1>4. absSeqs' = [absSeqs EXCEPT ![absCall.b] = [View(This) EXCEPT !.els = Append(@, v)]]
  BY <1>1, <1>2 DEF Abstract!Set
<1> QED  BY <1>1, <1>3, <1>4 DEF Abstract!Add

\* The constructor.
LEMMA NewMaps == ASSUME RefInv, New PROVE Abstract!NewEmpty
<1>1. Inv /\ pc # "idle" /\ call.op = "new" /\ Set(NewBody(call.n)) /\ Return(Result("ok", <<>>))
  BY DEF RefInv, New, In, Ok
<1>2. call.n \in Classes /\ absCall.n = call.n /\ Abstract!In({"new"})
  BY <1>1, CallFields, SameCall
<1>3. View(NewBody(call.n)) = Abstract!Buffer(<<>>, call.n)
  BY <1>2, NewBodyIs, ContentsNew, ViewIs DEF NewBody
<1>4. Abstract!Set(View(NewBody(call.n))) /\ Abstract!Return("ok", <<>>)
  BY <1>1, SetSeen, AbsReturns
<1> QED  BY <1>2, <1>3, <1>4 DEF Abstract!NewEmpty

\* A push that throws has added an element all the same.
LEMMA PushMaps ==
    ASSUME RefInv, Push \/ PushThrows
    PROVE  Abstract!Push \/ Abstract!ThrowInPush
<1> DEFINE v == Passed(Head(call.eles))
<1>1. Inv /\ pc = "start" /\ call.op = "push" /\ ~Full(This)
  BY DEF RefInv, Push, PushThrows, In, Refuses
<1>2. IsBody(This) /\ v \in Values /\ absCall.eles = call.eles
  BY <1>1, CallFields, SameCall DEF Inv, StartFits, Creating, Held, This
<1>3. Abstract!In({"push"}) /\ Abstract!In({"push", "push_many"})
  BY <1>1, SameCall
<1>4. CASE Push
  <2>1. Set(Assigned(This, v)) /\ Return(Result("ok", <<>>))
    BY <1>4 DEF Push, Ok
  <2> HIDE DEF v
  <2>2. /\ IsBody(Assigned(This, v)) /\ Assigned(This, v).N = This.N
        /\ Contents(Assigned(This, v)) = Append(Contents(This), v)
    BY <1>1, <1>2, AssignedBody, ContentsAssigned DEF Assigned, IsBody, BodyOf
  <2>3. Abstract!Add(v) /\ Abstract!Return("ok", <<>>)
    BY <1>1, <1>2, <2>1, <2>2, AddSeen, AbsReturns
  <2> QED  BY <1>2, <1>3, <2>3 DEF Abstract!Push, Abstract!Passed, Passed, v
<1>5. CASE PushThrows
  <2>1. Set(CountedOnly(This)) /\ Return(Result("element", <<>>))
    BY <1>5 DEF PushThrows, ElementThrew
  <2>2. IsBody(CountedOnly(This)) /\ CountedOnly(This).N = This.N
    BY <1>1, <1>2, AssignedBody DEF CountedOnly, IsBody, BodyOf
  <2>3. PICK w \in Values : Contents(CountedOnly(This)) = Append(Contents(This), w)
    BY <1>1, <1>2, ContentsAssigned
  <2>4. Abstract!Add(w) /\ Abstract!Return("element", <<>>)
    BY <1>1, <1>2, <2>1, <2>2, <2>3, AddSeen, AbsReturns
  <2> QED  BY <1>3, <2>4 DEF Abstract!ThrowInPush
<1> QED  BY <1>4, <1>5

\* pop() of an object with elements.
LEMMA PopMaps == ASSUME RefInv, Pop PROVE Abstract!Pop
<1>1. /\ Inv /\ pc = "start" /\ call.op = "pop" /\ ~Empty(This) /\ Set(Popped(This))
      /\ Return(Result("ok", <<>>))
  BY DEF RefInv, Pop, In, Refuses, Popped, Ok
<1>2. IsBody(This)
  BY <1>1 DEF Inv, StartFits, Creating, Held, This
<1>3. /\ Contents(Popped(This)) = Tail(Contents(This)) /\ Contents(This) # <<>>
      /\ View(Popped(This)) = Abstract!Buffer(Tail(Contents(This)), This.N)
  <2>1. /\ Contents(Popped(This)) = Tail(Contents(This)) /\ IsBody(Popped(This))
        /\ Popped(This).N = This.N
    BY <1>1, <1>2, ContentsPopped
  <2>2. Contents(This) # <<>>
    BY <1>1, <1>2, ContentsAre
  <2> QED  BY <2>1, <2>2, ViewIs
<1>4. /\ Abstract!Set(View(Popped(This))) /\ Abstract!Return("ok", <<>>) /\ Abstract!In({"pop"})
      /\ Abstract!This = View(This) /\ Abstract!Els = Contents(This)
  BY <1>1, <1>2, SetSeen, AbsReturns, SameCall, OperandsSeen
<1>5. View(Popped(This)) = [View(This) EXCEPT !.els = Tail(@)]
  BY <1>2, <1>3, ViewIs
<1>6. absSeqs' = [absSeqs EXCEPT ![absCall.b].els = Tail(@)]
  BY <1>4, <1>5 DEF Abstract!Set, Abstract!This
<1> QED  BY <1>3, <1>4, <1>6 DEF Abstract!Pop

\* What front(), back(), empty(), full() and size() return, and when an
\* operation is refused.
LEMMA ReadsMap ==
    ASSUME RefInv, Refused \/ Front \/ Back \/ Observe
    PROVE  Abstract!PushRefused \/ Abstract!EmptyRefused \/ Abstract!Front \/ Abstract!Back
           \/ Abstract!Observe
<1>1. /\ Inv /\ pc = "start" /\ buf' = buf
      /\ call.op \in {"push", "pop", "front", "back", "observe"}
  BY DEF RefInv, Refused, Front, Back, Observe, In
<1>2. absSeqs' = absSeqs /\ IsBody(This)
  BY <1>1 DEF absSeqs, Inv, StartFits, Creating, Held, This
<1>3. /\ Abstract!Els = Contents(This) /\ absSeqs[absCall.b].cap = This.N
      /\ Abstract!IsFull <=> Full(This)
      /\ \A ops : Abstract!In(ops) <=> call.op \in ops
  BY <1>1, <1>2, OperandsSeen, SameCall
<1>4. /\ Contents(This) = <<>> <=> Empty(This)
      /\ Contents(This) \in Seq(Values) /\ Len(Contents(This)) = This.count
      /\ \A i \in 1..This.count : Contents(This)[i] = This.container[Slot(This, i - 1)]
      /\ This.count \in 0..This.N /\ This.N \in Nat
  BY <1>2, ContentsAre, BodyFields
<1>5. CASE Refused
  <2>1. Abstract!Return("logic_error", <<>>) /\ Refuses(call.op, This)
    BY <1>5, AbsReturns DEF Refused, LogicError
  <2>2. CASE call.op = "push"
    <3>1. absCall.n = 0 /\ absCall.eles = call.eles /\ Len(call.eles) >= 1 /\ Len(call.eles) \in Nat
      BY <1>1, <2>2, SameCall, CallFields, CallsAssumption DEF Inv
    <3>2. Full(This)
      BY <2>1, <2>2 DEF Refuses
    <3> QED  BY <1>2, <1>3, <2>1, <2>2, <3>1, <3>2 DEF Abstract!PushRefused
  <2>3. CASE call.op \in {"pop", "front", "back"}
    <3>1. Empty(This)
      BY <2>1, <2>3 DEF Refuses, Filling
    <3> QED  BY <1>2, <1>3, <1>4, <2>1, <2>3, <3>1 DEF Abstract!EmptyRefused
  <2> QED  BY <1>5, <2>2, <2>3 DEF Refused, In
<1>6. CASE Front
  <2>1. call.op = "front" /\ ~Empty(This)
        /\ Abstract!Return("ok", <<This.container[This.index]>>)
    BY <1>6, AbsReturns DEF Front, In, Refuses, Ok
  <2>2. This.count > 0 /\ This.index \in 0..This.N - 1 /\ This.N # 0
    BY <1>2, <1>4, <2>1, BodyFields DEF Empty, IndexOf
  <2>3. Slot(This, 0) = This.index
    BY <1>2, <1>4, <2>2, SlotIs
  <2>4. Head(Contents(This)) = This.container[This.index]
    <3>1. Contents(This)[1] = This.container[Slot(This, 0)]
      BY <1>4, <2>2
    <3> QED  BY <1>4, <2>2, <2>3, <3>1
  <2> QED  BY <1>2, <1>3, <1>4, <2>1, <2>4 DEF Abstract!Front
<1>7. CASE Back
  <2>1. call.op = "back" /\ ~Empty(This)
        /\ Abstract!Return("ok", <<This.container[LastIndex(This)]>>)
    BY <1>7, AbsReturns DEF Back, In, Refuses, Ok
  <2>2. LastIndex(This) = Slot(This, This.count - 1)
    BY <1>2, <1>4, <2>1, WindowOfBody DEF Window, Empty
  <2>3. Contents(This)[Len(Contents(This))] = This.container[LastIndex(This)]
    BY <1>4, <2>1, <2>2 DEF Empty
  <2> QED  BY <1>2, <1>3, <1>4, <2>1, <2>3 DEF Abstract!Back
<1>8. CASE Observe
  <2>1. call.op = "observe"
        /\ Abstract!Return("ok", <<Empty(This), Full(This), This.count>>)
    BY <1>8, AbsReturns DEF Observe, In, Ok
  <2> QED  BY <1>2, <1>3, <1>4, <2>1 DEF Abstract!Observe, Abstract!IsFull, Empty, Full
<1> QED  BY <1>5, <1>6, <1>7, <1>8

\* The destructor.
LEMMA DestroyMaps == ASSUME RefInv, Destroy PROVE Abstract!Destroy
<1>1. Inv /\ pc # "idle" /\ call.op = "destroy" /\ Set(None) /\ Return(Result("ok", <<>>))
  BY DEF RefInv, Destroy, In, Ok
<1>2. Abstract!Set(View(None)) /\ Abstract!Return("ok", <<>>) /\ Abstract!In({"destroy"})
  BY <1>1, SetSeen, AbsReturns, SameCall
<1> QED  BY <1>2 DEF Abstract!Destroy, View

-----------------------------------------------------------------------------
\* Operations on two objects.

\* An object whose elements an exception has left in doubt.
LEMMA InDoubt ==
    ASSUME NEW o, IsBody(o), NEW r, Like(o, r)
    PROVE  View(r) \in Abstract!Doubtful(View(o))
<1>1. /\ IsBody(r) /\ r.N = o.N /\ r.count = o.count
      /\ View(r) = Abstract!Buffer(Contents(r), o.N) /\ View(o).els = Contents(o)
      /\ \A els : [View(o) EXCEPT !.els = els] = Abstract!Buffer(els, o.N)
  BY ViewIs DEF Like
<1>2. Contents(r) \in [DOMAIN Contents(o) -> Values]
  BY <1>1, ContentsAre
<1>3. View(r) = [View(o) EXCEPT !.els = Contents(r)]
  BY <1>1
<1> QED  BY <1>1, <1>2, <1>3 DEF Abstract!Doubtful

\* The operands of a call on two objects as they are seen.
LEMMA TwoSeen ==
    ASSUME RefInv, In(TwoBuffers)
    PROVE  /\ Inv /\ pc = "start" /\ call.b \in Buffers /\ call.rhs \in Buffers /\ IsBody(Rhs)
           /\ Abstract!This = View(This) /\ Abstract!Rhs = View(Rhs)
           /\ absCall.b = call.b /\ absCall.rhs = call.rhs
           /\ \A ops : Abstract!In(ops) <=> call.op \in ops
           /\ call.op \in OfOneClass => IsBody(This) /\ This.N = Rhs.N
           /\ call.op \notin OfOneClass => This = None /\ call.b # call.rhs
<1>1. Inv /\ pc = "start" /\ call.op \in TwoBuffers
  BY DEF RefInv, In
<1>2. /\ call.b \in Buffers /\ call.rhs \in Buffers /\ IsBody(Rhs)
      /\ call.op \in OfOneClass => IsBody(This) /\ This.N = Rhs.N
  BY <1>1, Operands DEF In
<1>3. call.op \notin OfOneClass => This = None
  BY <1>1 DEF RefInv, Progress, TwoBuffers, Creating
<1>4. call.op \notin OfOneClass => call.b # call.rhs
  BY <1>2, <1>3, BodyFields DEF This, Rhs
<1> QED  BY <1>1, <1>2, <1>3, <1>4, OperandsSeen, SameCall

\* Copies: of each element, or interrupted.
LEMMA CopyMaps ==
    ASSUME RefInv, CopyConstruct \/ CopyConstructThrows \/ CopyAssign \/ CopyAssignThrows
    PROVE  Abstract!CopyEach \/ Abstract!ThrowInCopy \/ Abstract!ThrowBefore
<1>1. In(TwoBuffers) /\ call.op \in {"copy_ctor", "copy_assign"}
  BY DEF CopyConstruct, CopyConstructThrows, CopyAssign, CopyAssignThrows, In, TwoBuffers,
         OfOneClass
<1>2. /\ Inv /\ pc # "idle" /\ IsBody(Rhs) /\ Abstract!This = View(This) /\ Abstract!Rhs = View(Rhs)
      /\ \A ops : Abstract!In(ops) <=> call.op \in ops
      /\ call.op = "copy_assign" => IsBody(This) /\ This.N = Rhs.N
  BY <1>1, TwoSeen DEF OfOneClass
<1>3. CASE CopyConstruct \/ CopyAssign
  <2>1. /\ Abstract!Set(View(With(Rhs, All(Rhs), CopiesOf(Rhs)))) /\ Abstract!Return("ok", <<>>)
    BY <1>2, <1>3, SetSeen, AbsReturns DEF CopyConstruct, CopyAssign, Ok
  <2>2. View(With(Rhs, All(Rhs), CopiesOf(Rhs))) = Abstract!Each(Copied, View(Rhs))
    BY <1>2, EachSeen
  <2> QED  BY <1>1, <1>2, <2>1, <2>2 DEF Abstract!CopyEach
<1>4. CASE CopyConstructThrows
  <2>1. call.op = "copy_ctor" /\ Abstract!Return("element", <<>>) /\ absSeqs' = absSeqs
    BY <1>4, AbsReturns DEF CopyConstructThrows, In, ElementThrew, absSeqs
  <2> QED  BY <1>2, <2>1 DEF Abstract!ThrowBefore
<1>5. CASE CopyAssignThrows
  <2>1. PICK k \in All(Rhs) : Set(With(This, Before(k), CopiesOf(Rhs)))
    BY <1>5 DEF CopyAssignThrows
  <2>2. call.op = "copy_assign" /\ Abstract!Return("element", <<>>)
    BY <1>5, AbsReturns DEF CopyAssignThrows, In, ElementThrew
  <2> DEFINE o == With(This, Before(k), CopiesOf(Rhs))
  <2>3. Like(This, o)
    BY <1>2, <2>2, ElementsAre, LikeWith
  <2> HIDE DEF o
  <2>4. View(o) \in Abstract!Doubtful(Abstract!This) /\ Abstract!Set(View(o))
    BY <1>2, <2>1, <2>2, <2>3, InDoubt, SetSeen DEF o
  <2> QED  BY <1>2, <2>2, <2>4 DEF Abstract!ThrowInCopy
<1> QED  BY <1>3, <1>4, <1>5

\* Move construction; when it is interrupted there is no new object.
LEMMA MoveConstructMaps ==
    ASSUME RefInv, MoveConstruct \/ MoveConstructThrows
    PROVE  Abstract!MoveEach \/ Abstract!ThrowInMove
<1>1. In(TwoBuffers) /\ call.op = "move_ctor"
  BY DEF MoveConstruct, MoveConstructThrows, In, TwoBuffers
<1>2. /\ Inv /\ pc # "idle" /\ IsBody(Rhs) /\ This = None /\ Abstract!Rhs = View(Rhs)
      /\ absCall.b = call.b /\ absCall.rhs = call.rhs
      /\ \A ops : Abstract!In(ops) <=> call.op \in ops
      /\ call.b \in Buffers /\ call.rhs \in Buffers /\ call.b # call.rhs
      /\ DOMAIN buf = Buffers
  BY <1>1, TwoSeen DEF OfOneClass, Inv, TypeOK
<1>3. CASE MoveConstruct
  <2> DEFINE o == With(Rhs, All(Rhs), MovesOf(Rhs))
             r == With(Rhs, All(Rhs), HollowsOf(Rhs))
  <2>1. buf' = [buf EXCEPT ![call.b] = o, ![call.rhs] = r] /\ Abstract!Return("ok", <<>>)
    BY <1>3, AbsReturns DEF MoveConstruct, Ok
  <2>2. View(o) = Abstract!Each(Moved, View(Rhs)) /\ View(r) = Abstract!Each(Hollow, View(Rhs))
    BY <1>2, EachSeen
  <2> HIDE DEF o, r
  <2>3. Abstract!Both(View(o), View(r))
    <3>1. /\ DOMAIN buf' = Buffers /\ buf'[call.b] = o /\ buf'[call.rhs] = r
          /\ \A b \in Buffers : b \notin {call.b, call.rhs} => buf'[b] = buf[b]
      BY <1>2, <2>1
    <3> QED  BY <1>2, <3>1, BothSeen
  <2> QED  BY <1>1, <1>2, <2>1, <2>2, <2>3 DEF Abstract!MoveEach
<1>4. CASE MoveConstructThrows
  <2>1. PICK k \in All(Rhs) : buf' = [buf EXCEPT ![call.rhs] = With(Rhs, Before(k), HollowsOf(Rhs))]
    BY <1>4 DEF MoveConstructThrows
  <2>2. Abstract!Return("element", <<>>)
    BY <1>4, AbsReturns DEF MoveConstructThrows, ElementThrew
  <2> DEFINE r == With(Rhs, Before(k), HollowsOf(Rhs))
  <2>3. Like(Rhs, r)
    BY <1>2, ElementsAre, LikeWith
  <2>4. buf' = [buf EXCEPT ![call.rhs] = r]
    BY <2>1
  <2> HIDE DEF r
  <2>5. /\ DOMAIN buf' = Buffers /\ buf'[call.b] = None /\ buf'[call.rhs] = r
        /\ \A b \in Buffers : b \notin {call.b, call.rhs} => buf'[b] = buf[b]
    BY <1>2, <2>4 DEF This
  <2>6. Abstract!Both(View(None), View(r))
    BY <1>2, <2>5, BothSeen
  <2>7. View(r) \in Abstract!Doubtful(Abstract!Rhs) /\ View(None) = None
    BY <1>2, <2>3, InDoubt DEF View
  <2> QED  BY <1>1, <1>2, <2>2, <2>6, <2>7 DEF Abstract!ThrowInMove
<1> QED  BY <1>3, <1>4

\* An exception in the middle of a move or a swap: both objects are as long as
\* they were.
LEMMA BothInDoubt ==
    ASSUME RefInv, In({"move_assign", "swap"}), Abstract!Return("element", <<>>),
           Spoilt(buf')
    PROVE  Abstract!ThrowInBoth
<1>1. In(TwoBuffers) /\ call.op \in OfOneClass /\ call.op \in {"move_assign", "swap"}
  BY DEF In, TwoBuffers, OfOneClass
<1>2. /\ Inv /\ pc # "idle" /\ IsBody(This) /\ IsBody(Rhs)
      /\ Abstract!This = View(This) /\ Abstract!Rhs = View(Rhs)
      /\ Abstract!In({"move_assign", "swap"})
  BY <1>1, TwoSeen
<1>3. /\ View(buf'[call.b]) \in Abstract!Doubtful(Abstract!This)
      /\ View(buf'[call.rhs]) \in Abstract!Doubtful(Abstract!Rhs)
  BY <1>2, InDoubt DEF Spoilt
<1>4. Abstract!Both(View(buf'[call.b]), View(buf'[call.rhs]))
  BY <1>2, BothSeen DEF Spoilt
<1> QED  BY <1>2, <1>3, <1>4 DEF Abstract!ThrowInBoth

\* Move assignment, to the object itself or to another.
LEMMA MoveAssignMaps ==
    ASSUME RefInv, MoveAssign \/ MoveAssignThrows
    PROVE  Abstract!MoveEach \/ Abstract!MoveToSelf \/ Abstract!ThrowInBoth
<1>1. In(TwoBuffers) /\ In(OfOneClass) /\ In({"move_assign", "swap"}) /\ call.op = "move_assign"
  BY DEF MoveAssign, MoveAssignThrows, In, TwoBuffers, OfOneClass
<1>2. /\ Inv /\ pc # "idle" /\ IsBody(Rhs) /\ IsBody(This) /\ This.N = Rhs.N
      /\ Abstract!This = View(This) /\ Abstract!Rhs = View(Rhs)
      /\ absCall.b = call.b /\ absCall.rhs = call.rhs
      /\ \A ops : Abstract!In(ops) <=> call.op \in ops
      /\ call.b \in Buffers /\ call.rhs \in Buffers /\ DOMAIN buf = Buffers
      /\ call.b = call.rhs => This = Rhs
  BY <1>1, TwoSeen DEF In, Inv, TypeOK, This, Rhs
<1>3. CASE MoveAssign
  <2> DEFINE o == [This EXCEPT !.index = Rhs.index, !.count = Rhs.count]
             p == With(o, All(Rhs), MovesOf(Rhs))
             r == With(Rhs, All(Rhs), HollowsOf(Rhs))
             q == With(o, All(Rhs), HollowMoves(Rhs))
  <2>1. MoveTo(o, All(Rhs)) /\ Abstract!Return("ok", <<>>)
    BY <1>3, AbsReturns DEF MoveAssign, Ok
  <2>2. IsBody(o) /\ o.N = Rhs.N /\ o.index = Rhs.index /\ o.count = Rhs.count
    BY <1>2 DEF IsBody, BodyOf
  <2> HIDE DEF o
  <2>3. /\ View(p) = Abstract!Each(Moved, View(Rhs))
        /\ View(r) = Abstract!Each(Hollow, View(Rhs))
        /\ View(q) = Abstract!Each(LAMBDA v : Hollow(Moved(v)), View(Rhs))
    BY <1>2, <2>2, EachSeen
  <2>4. /\ call.b = call.rhs => Set(q)
        /\ call.b # call.rhs => buf' = [buf EXCEPT ![call.b] = p, ![call.rhs] = r]
    BY <2>1 DEF MoveTo
  <2> HIDE DEF p, q, r
  <2>5. CASE call.b = call.rhs
    <3>1. Abstract!Set(View(q))
      BY <1>2, <2>4, <2>5, SetSeen
    <3> QED  BY <1>1, <1>2, <2>1, <2>3, <2>5, <3>1 DEF Abstract!MoveToSelf
  <2>6. CASE call.b # call.rhs
    <3>1. /\ DOMAIN buf' = Buffers /\ buf'[call.b] = p /\ buf'[call.rhs] = r
          /\ \A b \in Buffers : b \notin {call.b, call.rhs} => buf'[b] = buf[b]
      BY <1>2, <2>4, <2>6
    <3>2. Abstract!Both(View(p), View(r))
      BY <1>2, <3>1, BothSeen
    <3> QED  BY <1>1, <1>2, <2>1, <2>3, <2>6, <3>2 DEF Abstract!MoveEach
  <2> QED  BY <2>5, <2>6
<1>4. CASE MoveAssignThrows
  <2>1. PICK k \in All(Rhs) : MoveTo(This, Before(k))
    BY <1>4 DEF MoveAssignThrows
  <2>2. Abstract!Return("element", <<>>)
    BY <1>4, AbsReturns DEF MoveAssignThrows, ElementThrew
  <2> DEFINE p == With(This, Before(k), MovesOf(Rhs))
             r == With(Rhs, Before(k), HollowsOf(Rhs))
             q == With(This, Before(k), HollowMoves(Rhs))
  <2>3. Like(This, p) /\ Like(Rhs, r) /\ Like(This, q)
    BY <1>2, ElementsAre, LikeWith
  <2>4. buf' = IF call.b = call.rhs THEN [buf EXCEPT ![call.b] = q]
               ELSE [buf EXCEPT ![call.b] = p, ![call.rhs] = r]
    BY <2>1 DEF MoveTo, Set
  <2> HIDE DEF p, q, r
  <2>5. Spoilt(buf')
    BY <1>2, <2>3, <2>4 DEF Spoilt
  <2> QED  BY <1>1, <2>2, <2>5, BothInDoubt
<1> QED  BY <1>3, <1>4

\* swap(), which does nothing for two objects without elements.
LEMMA SwapMaps ==
    ASSUME RefInv, SwapNothing \/ Swap \/ SwapThrows
    PROVE  Abstract!SwapEach \/ Abstract!ThrowInBoth
<1>1. In(TwoBuffers) /\ In(OfOneClass) /\ In({"move_assign", "swap"}) /\ call.op = "swap"
  BY DEF SwapNothing, Swap, SwapThrows, In, TwoBuffers, OfOneClass
<1>2. /\ Inv /\ pc # "idle" /\ IsBody(Rhs) /\ IsBody(This) /\ This.N = Rhs.N
      /\ Abstract!This = View(This) /\ Abstract!Rhs = View(Rhs)
      /\ absCall.b = call.b /\ absCall.rhs = call.rhs
      /\ \A ops : Abstract!In(ops) <=> call.op \in ops
      /\ call.b \in Buffers /\ call.rhs \in Buffers /\ DOMAIN buf = Buffers
      /\ call.b = call.rhs => This = Rhs
  BY <1>1, TwoSeen DEF In, Inv, TypeOK, This, Rhs
<1>3. CASE Swap
  <2> DEFINE o == With(Rhs, All(Rhs), MovesOf(Rhs))
             r == With(This, All(This), MovedTwice(This))
  <2>1. Abstract!Return("ok", <<>>)
    BY <1>3, AbsReturns DEF Swap, Ok
  <2>2. /\ View(o) = Abstract!Each(Moved, View(Rhs))
        /\ View(r) = Abstract!Each(Abstract!Twice, View(This))
    BY <1>2, EachSeen
  <2>3. All(This) = All(Rhs)
    BY <1>2, ElementsAre
  <2>4. buf' = IF call.b = call.rhs THEN [buf EXCEPT ![call.b] = r]
               ELSE [buf EXCEPT ![call.b] = o, ![call.rhs] = r]
    BY <1>2, <1>3, <2>3 DEF Swap, Swapped
  <2> HIDE DEF o, r
  <2>5. CASE call.b = call.rhs
    <3>1. Abstract!Set(View(r))
      BY <1>2, <2>4, <2>5, SetSeen DEF Set
    <3> QED  BY <1>1, <1>2, <2>1, <2>2, <2>5, <3>1 DEF Abstract!SwapEach
  <2>6. CASE call.b # call.rhs
    <3>1. /\ DOMAIN buf' = Buffers /\ buf'[call.b] = o /\ buf'[call.rhs] = r
          /\ \A b \in Buffers : b \notin {call.b, call.rhs} => buf'[b] = buf[b]
      BY <1>2, <2>4, <2>6
    <3>2. Abstract!Both(View(o), View(r))
      BY <1>2, <3>1, BothSeen
    <3> QED  BY <1>1, <1>2, <2>1, <2>2, <2>6, <3>2 DEF Abstract!SwapEach
  <2> QED  BY <2>5, <2>6
<1>4. CASE SwapNothing
  <2>1. Abstract!Return("ok", <<>>) /\ Empty(This) /\ Empty(Rhs) /\ buf' = buf
    BY <1>4, AbsReturns DEF SwapNothing, Ok
  <2>2. View(This) = Abstract!Buffer(<<>>, This.N) /\ View(Rhs) = View(This)
    BY <1>2, <2>1, ContentsAre, ViewIs
  <2>3. /\ Abstract!Each(Moved, View(Rhs)) = View(This)
        /\ Abstract!Each(Abstract!Twice, View(This)) = View(This)
    BY <2>2 DEF Abstract!Each, Abstract!Buffer
  <2>4. Abstract!Both(View(This), View(This))
    BY <1>2, <2>1, <2>2, BothSeen DEF This, Rhs
  <2>5. call.b = call.rhs => Abstract!Set(View(This))
    BY <1>2, <2>4 DEF Abstract!Both, Abstract!Set
  <2> QED  BY <1>1, <1>2, <2>1, <2>3, <2>4, <2>5 DEF Abstract!SwapEach
<1>5. CASE SwapThrows
  <2>1. Abstract!Return("element", <<>>) /\ Spoilt(buf')
    BY <1>2, <1>5, AbsReturns, SwapThrowsSpoils DEF SwapThrows, ElementThrew
  <2> QED  BY <1>1, <2>1, BothInDoubt
<1> QED  BY <1>3, <1>4, <1>5

-----------------------------------------------------------------------------
\* push_many() and make_buffer().

\* push_many() appends one element, is done, finds no room, or has an element
\* throw.
LEMMA PushManyMaps ==
    ASSUME RefInv, call.op = "push_many", Fill \/ FillRefused \/ FillThrows \/ Filled
    PROVE  \/ Abstract!PushOneOfMany \/ Abstract!PushRefused \/ Abstract!PushedMany
           \/ Abstract!ThrowInPush
<1>1. Inv /\ Progress /\ pc = "fill" /\ done \in Nat /\ done <= Len(call.eles)
  BY DEF RefInv, Progress, Fill, FillRefused, FillThrows, Filled, MoreToFill, Inv, TypeOK
<1>2. /\ IsBody(This) /\ Subject = This /\ Len(call.eles) \in Nat
      /\ \A k \in 1..Len(call.eles) : Passed(call.eles[k]) \in Values
  BY <1>1, SubjectIs, CallFields
<1>3. /\ absCall.n = done /\ absCall.eles = call.eles /\ absCall = [call EXCEPT !.n = done]
      /\ \A ops : Abstract!In(ops) <=> call.op \in ops
      /\ Abstract!IsFull <=> Full(This)
  BY <1>1, <1>2, SameCall, OperandsSeen DEF absCall, Inv, TypeOK
<1>4. CASE Fill
  <2> DEFINE v == Passed(call.eles[done + 1])
             o == Assigned(This, v)
  <2>1. /\ done < Len(call.eles) /\ ~Full(This) /\ Set(o) /\ done' = done + 1 /\ call' = call
        /\ ret' = ret
    BY <1>2, <1>4 DEF Fill, MoreToFill, Refuses, Filling, SetSubject
  <2>2. v \in Values
    BY <1>1, <1>2, <2>1
  <2> HIDE DEF v
  <2>3. IsBody(o) /\ o.N = This.N /\ Contents(o) = Append(Contents(This), v)
    BY <1>2, <2>1, <2>2, AssignedBody, ContentsAssigned DEF Assigned, IsBody, BodyOf
  <2> HIDE DEF o
  <2>4. Abstract!Add(v)
    BY <1>1, <1>2, <2>1, <2>2, <2>3, AddSeen
  <2>5. absCall' = [absCall EXCEPT !.n = @ + 1]
    <3>1. call \in Call /\ call # None /\ done + 1 \in Nat
      BY <1>1, CallsAssumption DEF Inv, TypeOK
    <3>2. absCall' = [call EXCEPT !.n = done + 1]
      BY <2>1, <3>1 DEF absCall
    <3> QED  BY <1>1, <1>3, <3>1, <3>2 DEF Call
  <2> QED  BY <1>3, <2>1, <2>4, <2>5 DEF Abstract!PushOneOfMany, Abstract!Passed, Passed, v
<1>5. CASE FillRefused
  <2>1. /\ done < Len(call.eles) /\ Full(This) /\ absSeqs' = absSeqs
        /\ Abstract!Return("logic_error", <<>>)
    BY <1>2, <1>5, AbsReturns DEF FillRefused, MoreToFill, Refuses, LogicError, absSeqs
  <2> QED  BY <1>3, <2>1 DEF Abstract!PushRefused
<1>6. CASE FillThrows
  <2>1. ~Full(This) /\ Set(CountedOnly(This)) /\ Abstract!Return("element", <<>>)
    BY <1>2, <1>6, AbsReturns DEF FillThrows, Refuses, Filling, ElementThrew
  <2>2. IsBody(CountedOnly(This)) /\ CountedOnly(This).N = This.N
    BY <1>2, <2>1, AssignedBody, TransferAssumption DEF CountedOnly, IsBody, BodyOf
  <2>3. PICK w \in Values : Contents(CountedOnly(This)) = Append(Contents(This), w)
    BY <1>2, <2>1, ContentsAssigned, TransferAssumption
  <2>4. Abstract!Add(w)
    BY <1>1, <1>2, <2>1, <2>2, <2>3, AddSeen
  <2> QED  BY <1>3, <2>1, <2>4 DEF Abstract!ThrowInPush
<1>7. CASE Filled
  <2>1. done = Len(call.eles) /\ Abstract!Return("ok", <<>>) /\ absSeqs' = absSeqs
    BY <1>1, <1>2, <1>7, AbsReturns DEF Filled, MoreToFill, Ok, absSeqs
  <2> QED  BY <1>3, <2>1 DEF Abstract!PushedMany
<1> QED  BY <1>4, <1>5, <1>6, <1>7

\* make_buffer() fills an object that nobody sees yet, and gives it to its
\* caller when it is complete.
LEMMA MakeMaps ==
    ASSUME RefInv, call.op = "make", Fill \/ FillRefused \/ FillThrows \/ Filled
    PROVE  \/ UNCHANGED Abstract!vars \/ Abstract!MakeRefused \/ Abstract!ThrowBefore
           \/ Abstract!MakeAll
<1>1. /\ Inv /\ pc = "fill" /\ done \in Nat /\ done <= Len(call.eles) /\ Len(call.eles) \in Nat
      /\ MakePrefix /\ IsBody(tmp) /\ Subject = tmp
  <2>1. Inv /\ Progress /\ pc = "fill"
    BY DEF RefInv, Fill, FillRefused, FillThrows, Filled, MoreToFill
  <2> QED  BY <2>1, CallFields, SubjectIs DEF Progress, Inv, TypeOK, Subject
<1>2. /\ absCall = call /\ \A ops : Abstract!In(ops) <=> call.op \in ops
  BY <1>1, SameCall
<1>3. tmp.N = call.n /\ tmp.count = done /\ tmp.count <= tmp.N
      /\ Contents(tmp) = [i \in 1..done |-> Passed(call.eles[i])]
  <2>1. /\ tmp.N = call.n /\ Contents(tmp) = [i \in 1..done |-> Passed(call.eles[i])]
    BY <1>1 DEF MakePrefix
  <2>2. Contents(tmp) \in Seq(Values) /\ Len(Contents(tmp)) = tmp.count
    BY <1>1, ContentsAre
  <2>3. Len([i \in 1..done |-> Passed(call.eles[i])]) = done
    BY <1>1
  <2> QED  BY <1>1, <2>1, <2>2, <2>3, BodyFields
<1>4. CASE Fill
  <2>1. buf' = buf /\ call' = call /\ ret' = ret
    BY <1>4 DEF Fill, SetSubject
  <2> QED  BY <2>1 DEF Abstract!vars, absSeqs, absCall
<1>5. CASE FillRefused
  <2>1. /\ done < Len(call.eles) /\ Full(tmp) /\ absSeqs' = absSeqs
        /\ Abstract!Return("logic_error", <<>>)
    BY <1>1, <1>5, AbsReturns DEF FillRefused, MoreToFill, Refuses, LogicError, absSeqs
  <2>2. Len(call.eles) > call.n
    BY <1>3, <2>1 DEF Full
  <2> QED  BY <1>2, <2>1, <2>2 DEF Abstract!MakeRefused
<1>6. CASE FillThrows
  <2>1. Abstract!Return("element", <<>>) /\ absSeqs' = absSeqs
    BY <1>6, AbsReturns DEF FillThrows, ElementThrew, absSeqs
  <2> QED  BY <1>2, <2>1 DEF Abstract!ThrowBefore
<1>7. CASE Filled
  <2>1. done = Len(call.eles) /\ Set(tmp) /\ Abstract!Return("ok", <<>>)
    BY <1>1, <1>7, AbsReturns DEF Filled, MoreToFill, Ok
  <2>2. call.eles \in Seq(Argument) /\ DOMAIN call.eles = 1..done
    BY <1>1, <2>1, CallFields
  <2>3. View(tmp) = Abstract!Buffer([i \in DOMAIN call.eles |-> Passed(call.eles[i])], call.n)
    BY <1>1, <1>3, <2>2, ViewIs
  <2>4. Abstract!Set(View(tmp)) /\ Len(call.eles) <= call.n
    BY <1>1, <1>3, <2>1, SetSeen
  <2> QED  BY <1>2, <2>1, <2>3, <2>4 DEF Abstract!MakeAll, Abstract!Passed, Passed
<1> QED  BY <1>4, <1>5, <1>6, <1>7

\* Nothing is seen of the start of push_many() and make_buffer().
LEMMA StartMaps == ASSUME RefInv, Start PROVE UNCHANGED Abstract!vars
  BY DEF Start, absSeqs, absCall, Abstract!vars

-----------------------------------------------------------------------------
\* A call begins.
LEMMA InvokeMaps ==
    ASSUME RefInv, NEW c \in Calls, Invoke(c)
    PROVE  Abstract!Invoke
<1>1. /\ pc = "idle" /\ call = None /\ call' = c /\ done' = 0 /\ buf' = buf
      /\ ret' = Result("pending", <<>>)
  BY DEF Invoke, RefInv, Progress, Inv, TypeOK, Pending
<1>2. absCall' = c
  <2>1. c \in Call /\ (c.op = "push_many" => c.n = 0)
    BY CallsAssumption
  <2>2. c.n = 0 => [c EXCEPT !.n = 0] = c
    BY <2>1 DEF Call
  <2> QED  BY <1>1, <2>1, <2>2 DEF absCall
<1>3. absCall = None /\ absSeqs' = absSeqs
  BY <1>1 DEF absCall, absSeqs
<1> QED  BY <1>1, <1>2, <1>3 DEF Abstract!Invoke, Abstract!Result, Result

\* Every step is one of the abstract sequences', or a stutter.
LEMMA StepMaps ==
    ASSUME RefInv, [Next]_vars
    PROVE  Abstract!ArrayNext \/ UNCHANGED Abstract!vars
<1>1. CASE UNCHANGED vars
  BY <1>1 DEF vars, Abstract!vars, absSeqs, absCall
<1>2. CASE \E c \in Calls : Invoke(c)
  BY <1>2, InvokeMaps DEF Abstract!ArrayNext
<1>3. CASE Fill \/ FillRefused \/ FillThrows \/ Filled
  <2>1. pc = "fill" /\ call.op \in Filling
    BY <1>3, SubjectIs DEF RefInv, Fill, FillRefused, FillThrows, Filled, MoreToFill
  <2> QED  BY <1>3, <2>1, PushManyMaps, MakeMaps DEF Filling, Abstract!ArrayNext
<1>4. CASE Body
  BY <1>3, <1>4, NewMaps, PushMaps, PopMaps, ReadsMap, DestroyMaps, CopyMaps, MoveConstructMaps,
     MoveAssignMaps, SwapMaps, StartMaps DEF Body, Abstract!ArrayNext
<1> QED  BY <1>1, <1>2, <1>4 DEF Next

\* Whatever N and the elements are, the objects behave as sequences of at most
\* N elements, first in, first out; what is moved from keeps its elements,
\* hollow; an exception from an element, wherever it strikes, changes no
\* length, but that a push counts the element whose assignment threw; and
\* make_buffer() is all or nothing.
THEOREM ArraysAreSequences == Spec => ImplementsArraySequences
<1>1. Init => RefInv /\ Abstract!Init
  <2>1. Init => absSeqs = [b \in Buffers |-> None] /\ absCall = None
    BY DEF Init, absSeqs, absCall
  <2> QED  BY <2>1, InvInit DEF Init, RefInv, Progress, Abstract!Init, Abstract!Result, Pending,
              Result
<1>2. RefInv /\ [Next]_vars => RefInv'
  BY InvStep, StepProgress DEF RefInv
<1>3. RefInv /\ [Next]_vars => [Abstract!ArrayNext]_Abstract!vars
  BY StepMaps
<1> QED  BY <1>1, <1>2, <1>3, PTL DEF Spec, ImplementsArraySequences, Abstract!ArraySpec
=============================================================================
