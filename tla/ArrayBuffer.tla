----------------------------- MODULE ArrayBuffer -----------------------------
(***************************************************************************)
(* ExW3/src/BoundedBuffer.h: one caller of BoundedBuffer<T, N> objects.    *)
(* The elements are in a std::array, which always holds N of them: pushes  *)
(* and copies assign to elements, pops leave them where they are, and an   *)
(* element that was moved from stays in its place, hollow.                 *)
(*                                                                         *)
(* N is a parameter of the class; here it is part of an object, and        *)
(* operations on two objects want them to be of one class.                 *)
(***************************************************************************)
EXTENDS RingN, Sequences, FiniteSets

CONSTANTS Values,       \* the elements
          Default,      \* T{}
          Copied(_), Moved(_),  \* an element made from v, or assigned from it
          Hollow(_),    \* what v is after it was moved from
          Buffers, None,
          Calls,        \* the calls the client may make
          Throwing,     \* the operations in which an element may throw
          MaxThrows     \* bound on exceptions from elements in a behaviour

Creating == {"new", "copy_ctor", "move_ctor", "make"}
Filling == {"make", "push_many"}
OfOneClass == {"copy_assign", "move_assign", "swap"}
TwoBuffers == OfOneClass \cup {"copy_ctor", "move_ctor"}
Ops == Creating \cup Filling \cup TwoBuffers
       \cup {"push", "pop", "front", "back", "observe", "destroy"}

\* eles: the elements passed, each as an rvalue or not.  n: the class of the
\* object that is constructed.
Argument == [v : Values, rvalue : BOOLEAN]
Call == [op : Ops, b : Buffers, rhs : Buffers \cup {None}, eles : Seq(Argument), n : Nat]

ASSUME TransferAssumption ==
    /\ Default \in Values
    /\ \A v \in Values : Copied(v) \in Values /\ Moved(v) \in Values /\ Hollow(v) \in Values
ASSUME CallsAssumption ==
    /\ None \notin Call
    /\ \A c \in Calls : /\ c \in Call
                        /\ c.op \in TwoBuffers => c.rhs \in Buffers
                        /\ c.op \in Filling \cup {"push"} => c.eles # <<>>
                        /\ c.op \in {"push", "push_many"} => c.n = 0

\* The classes of the objects, and the objects of a class.
Classes == {c.n : c \in Calls}
IndexOf(N) == IF N = 0 THEN {0} ELSE 0..N - 1
BodyOf(N) == [N : {N}, container : [0..N - 1 -> Values], index : IndexOf(N), count : 0..N]

ASSUME NoneAssumption == \A N \in Classes : None \notin BodyOf(N)
ASSUME ElementAssumption == MaxThrows \in Nat /\ Throwing \subseteq Ops

VARIABLES buf,      \* buf[b]: the object in b, or None
          tmp,      \* the object make_buffer() builds, or None
          pc, call, \* where the caller is, and in which call
          done,     \* how many of the arguments have been pushed
          ret,      \* what the last call returned
          throws    \* exceptions from elements so far

vars == <<buf, tmp, pc, call, done, ret, throws>>

Result(st, val) == [st |-> st, val |-> val]
Pending == Result("pending", <<>>)
Ok(val) == Result("ok", val)
LogicError == Result("logic_error", <<>>)
ElementThrew == Result("element", <<>>)

NewBody(N) == [N |-> N, container |-> [s \in 0..N - 1 |-> Default], index |-> 0, count |-> 0]

Empty(o) == o.count = 0
Full(o) == o.count = o.N

\* index + count, and one less
AddIndex(o) == RingPlus(o.N, o.index, Ring(o.N, o.count))
LastIndex(o) == RingMinus(o.N, AddIndex(o), Ring(o.N, 1))

Init == /\ buf = [b \in Buffers |-> None]
        /\ tmp = None
        /\ pc = "idle" /\ call = None /\ done = 0 /\ ret = Pending
        /\ throws = 0

Return(r) == pc' = "idle" /\ call' = None /\ done' = 0 /\ ret' = r
In(ops) == pc = "start" /\ call.op \in ops
This == buf[call.b]
Rhs == buf[call.rhs]
Set(o) == buf' = [buf EXCEPT ![call.b] = o]

\* The object pushed to.
Subject == IF call.op = "make" THEN tmp ELSE This
SetSubject(o) == IF call.op = "make" THEN tmp' = o /\ UNCHANGED buf
                 ELSE Set(o) /\ UNCHANGED tmp

-----------------------------------------------------------------------------
Invoke(c) ==
    /\ pc = "idle"
    /\ c.op \in Creating <=> buf[c.b] = None
    /\ c.op \in TwoBuffers => buf[c.rhs] # None
    /\ c.op \in OfOneClass => buf[c.b].N = buf[c.rhs].N
    /\ call' = c /\ pc' = "start" /\ ret' = Pending
    /\ UNCHANGED <<buf, tmp, done, throws>>

New ==
    /\ In({"new"}) /\ Set(NewBody(call.n)) /\ Return(Ok(<<>>))
    /\ UNCHANGED <<tmp, throws>>

\* Mutant: push_many() does not check.
RefusesFirstOnly(op, o) == \/ op = "push" /\ Full(o)
                           \/ op \in {"pop", "front", "back"} /\ Empty(o)

\* throwIfFull(), throwIfEmpty()
Refuses(op, o) == \/ op \in {"push"} \cup Filling /\ Full(o)
                  \/ op \in {"pop", "front", "back"} /\ Empty(o)

Refused ==
    /\ In({"push", "pop", "front", "back"}) /\ Refuses(call.op, This)
    /\ Return(LogicError)
    /\ UNCHANGED <<buf, tmp, throws>>

\* The value that is assigned from an argument.
Passed(e) == IF e.rvalue THEN Moved(e.v) ELSE Copied(e.v)

\* push(): addToIndex() counts the element, then the element is assigned to.
Assigned(o, v) == [o EXCEPT !.container[AddIndex(o)] = v, !.count = @ + 1]

Push ==
    /\ In({"push"}) /\ ~Refuses("push", This)
    /\ Set(Assigned(This, Passed(Head(call.eles)))) /\ Return(Ok(<<>>))
    /\ UNCHANGED <<tmp, throws>>

ElementThrows == throws < MaxThrows /\ throws' = throws + 1 /\ call.op \in Throwing

\* The assignment throws, and the element is counted nevertheless.
CountedOnly(o) == [o EXCEPT !.count = @ + 1]
PushThrows ==
    /\ In({"push"}) /\ ~Refuses("push", This) /\ ElementThrows
    /\ Set(CountedOnly(This)) /\ Return(ElementThrew)
    /\ UNCHANGED tmp

Pop ==
    /\ In({"pop"}) /\ ~Refuses("pop", This)
    /\ Set([This EXCEPT !.count = @ - 1, !.index = RingPlus(This.N, @, Ring(This.N, 1))])
    /\ Return(Ok(<<>>))
    /\ UNCHANGED <<tmp, throws>>

Front ==
    /\ In({"front"}) /\ ~Refuses("front", This)
    /\ Return(Ok(<<This.container[This.index]>>))
    /\ UNCHANGED <<buf, tmp, throws>>

Back ==
    /\ In({"back"}) /\ ~Refuses("back", This)
    /\ Return(Ok(<<This.container[LastIndex(This)]>>))
    /\ UNCHANGED <<buf, tmp, throws>>

Observe ==
    /\ In({"observe"})
    /\ Return(Ok(<<Empty(This), Full(This), This.count>>))
    /\ UNCHANGED <<buf, tmp, throws>>

Destroy ==
    /\ In({"destroy"}) /\ Set(None) /\ Return(Ok(<<>>))
    /\ UNCHANGED <<tmp, throws>>

-----------------------------------------------------------------------------
\* Copies, moves and swaps go through all N elements of the arrays in order,
\* then through index and count.  When the element that is due throws, the ones
\* before it have been dealt with.

Before(k) == 0..k - 1
All(o) == DOMAIN o.container

\* o with the elements of f in the slots of S.
With(o, S, f) == [o EXCEPT !.container = [s \in DOMAIN @ |-> IF s \in S THEN f[s] ELSE @[s]]]

\* What o's elements become where they are copied, moved and moved on, and what
\* moves leave of them.
CopiesOf(o) == [s \in All(o) |-> Copied(o.container[s])]
MovesOf(o) == [s \in All(o) |-> Moved(o.container[s])]
MovedTwice(o) == [s \in All(o) |-> Moved(Moved(o.container[s]))]
HollowsOf(o) == [s \in All(o) |-> Hollow(o.container[s])]
HollowMoves(o) == [s \in All(o) |-> Hollow(Moved(o.container[s]))]

CopyConstruct ==
    /\ In({"copy_ctor"})
    /\ Set(With(Rhs, All(Rhs), CopiesOf(Rhs))) /\ Return(Ok(<<>>))
    /\ UNCHANGED <<tmp, throws>>

\* What was copied is destroyed again.
CopyConstructThrows ==
    /\ In({"copy_ctor"}) /\ Rhs.N > 0 /\ ElementThrows
    /\ Return(ElementThrew)
    /\ UNCHANGED <<buf, tmp>>

\* Mutant: the moved-from object gives up its elements' count.
MoveConstructEmptying ==
    /\ In({"move_ctor"})
    /\ buf' = [buf EXCEPT ![call.b] = With(Rhs, All(Rhs), MovesOf(Rhs)),
                          ![call.rhs] = [With(Rhs, All(Rhs), HollowsOf(Rhs)) EXCEPT !.count = 0]]
    /\ Return(Ok(<<>>))
    /\ UNCHANGED <<tmp, throws>>

\* The moved-from object keeps its index and its count.
MoveConstruct ==
    /\ In({"move_ctor"})
    /\ buf' = [buf EXCEPT ![call.b] = With(Rhs, All(Rhs), MovesOf(Rhs)),
                          ![call.rhs] = With(Rhs, All(Rhs), HollowsOf(Rhs))]
    /\ Return(Ok(<<>>))
    /\ UNCHANGED <<tmp, throws>>

MoveConstructThrows ==
    /\ In({"move_ctor"}) /\ ElementThrows
    /\ \E k \in All(Rhs) : buf' = [buf EXCEPT ![call.rhs] = With(Rhs, Before(k), HollowsOf(Rhs))]
    /\ Return(ElementThrew)
    /\ UNCHANGED tmp

CopyAssign ==
    /\ In({"copy_assign"})
    /\ Set(With(Rhs, All(Rhs), CopiesOf(Rhs))) /\ Return(Ok(<<>>))
    /\ UNCHANGED <<tmp, throws>>

\* The target has some of the elements, and its own index and count.
CopyAssignThrows ==
    /\ In({"copy_assign"}) /\ ElementThrows
    /\ \E k \in All(Rhs) : Set(With(This, Before(k), CopiesOf(Rhs)))
    /\ Return(ElementThrew)
    /\ UNCHANGED tmp

\* An object that is moved to itself has elements that were moved from.
MoveTo(o, S) ==
    IF call.b = call.rhs
    THEN Set(With(o, S, HollowMoves(Rhs)))
    ELSE buf' = [buf EXCEPT ![call.b] = With(o, S, MovesOf(Rhs)),
                            ![call.rhs] = With(Rhs, S, HollowsOf(Rhs))]

MoveAssign ==
    /\ In({"move_assign"})
    /\ MoveTo([This EXCEPT !.index = Rhs.index, !.count = Rhs.count], All(Rhs))
    /\ Return(Ok(<<>>))
    /\ UNCHANGED <<tmp, throws>>

MoveAssignThrows ==
    /\ In({"move_assign"}) /\ ElementThrows
    /\ \E k \in All(Rhs) : MoveTo(This, Before(k))
    /\ Return(ElementThrew)
    /\ UNCHANGED tmp

\* std::swap() of two elements: *this moves to a third place, the other to
\* *this, and the third place to the other.
Swapped(o, r, S) ==
    IF call.b = call.rhs
    THEN [buf EXCEPT ![call.b] = With(o, S, MovedTwice(This))]
    ELSE [buf EXCEPT ![call.b] = With(o, S, MovesOf(Rhs)),
                     ![call.rhs] = With(r, S, MovedTwice(This))]

SwapNothing ==
    /\ In({"swap"}) /\ Empty(This) /\ Empty(Rhs)
    /\ Return(Ok(<<>>))
    /\ UNCHANGED <<buf, tmp, throws>>

Swap ==
    /\ In({"swap"}) /\ ~(Empty(This) /\ Empty(Rhs))
    /\ buf' = Swapped(Rhs, This, All(This))
    /\ Return(Ok(<<>>))
    /\ UNCHANGED <<tmp, throws>>

\* The first, the second or the third move of an element throws.
SwapThrows ==
    /\ In({"swap"}) /\ ~(Empty(This) /\ Empty(Rhs)) /\ ElementThrows
    /\ \E k \in All(This) :
           LET some == Swapped(This, Rhs, Before(k))
               one == [some EXCEPT ![call.b].container[k] = Hollow(@)]
               two == [some EXCEPT ![call.b].container[k] = Moved(one[call.rhs].container[k])] IN
           buf' \in {some, one, [two EXCEPT ![call.rhs].container[k] = Hollow(@)]}
    /\ Return(ElementThrew)
    /\ UNCHANGED tmp

-----------------------------------------------------------------------------
\* push_many(), and make_buffer(), which pushes to an object of its own.

Start ==
    /\ In(Filling) /\ pc' = "fill"
    /\ tmp' = IF call.op = "make" THEN NewBody(call.n) ELSE None
    /\ UNCHANGED <<buf, call, done, ret, throws>>

MoreToFill == pc = "fill" /\ done < Len(call.eles)

Fill ==
    /\ MoreToFill /\ ~Refuses(call.op, Subject)
    /\ SetSubject(Assigned(Subject, Passed(call.eles[done + 1])))
    /\ done' = done + 1
    /\ UNCHANGED <<pc, call, ret, throws>>

FillRefused ==
    /\ MoreToFill /\ Refuses(call.op, Subject)
    /\ tmp' = None /\ Return(LogicError)
    /\ UNCHANGED <<buf, throws>>

FillThrows ==
    /\ MoreToFill /\ ~Refuses(call.op, Subject) /\ ElementThrows
    /\ IF call.op = "make" THEN UNCHANGED buf ELSE Set(CountedOnly(This))
    /\ tmp' = None /\ Return(ElementThrew)

Filled ==
    /\ pc = "fill" /\ ~MoreToFill
    /\ IF call.op = "make" THEN Set(tmp) ELSE UNCHANGED buf
    /\ tmp' = None /\ Return(Ok(<<>>))
    /\ UNCHANGED throws

-----------------------------------------------------------------------------
Body ==
    \/ New \/ Refused \/ Push \/ PushThrows \/ Pop \/ Front \/ Back \/ Observe \/ Destroy
    \/ CopyConstruct \/ CopyConstructThrows \/ MoveConstruct \/ MoveConstructThrows
    \/ CopyAssign \/ CopyAssignThrows \/ MoveAssign \/ MoveAssignThrows
    \/ SwapNothing \/ Swap \/ SwapThrows
    \/ Start \/ Fill \/ FillRefused \/ FillThrows \/ Filled

Next == (\E c \in Calls : Invoke(c)) \/ Body

Spec == Init /\ [][Next]_vars

-----------------------------------------------------------------------------
\* Properties.

IsBody(o) == o.N \in Classes /\ o \in BodyOf(o.N)

\* Every variable has its type: no exception, wherever it came from, leaves an
\* object that counts more elements than its array has, or an index outside.
TypeOK ==
    /\ DOMAIN buf = Buffers /\ \A b \in Buffers : buf[b] = None \/ IsBody(buf[b])
    /\ tmp = None \/ IsBody(tmp)
    /\ pc \in {"idle", "start", "fill"}
    /\ IF pc = "idle" THEN call = None ELSE call \in Call
    /\ done \in Nat /\ throws \in Nat

\* The elements of an object are in slots of their own, the last of them, which
\* is found by subtracting, is the one before the next push's.
Slot(o, i) == RingPlus(o.N, o.index, Ring(o.N, i))
Window(o) == /\ \A i, j \in 0..o.count - 1 : Slot(o, i) = Slot(o, j) => i = j
             /\ o.count > 0 => LastIndex(o) = Slot(o, o.count - 1)
WindowIntact == /\ \A b \in Buffers : buf[b] # None => Window(buf[b])
                /\ tmp # None => Window(tmp)
=============================================================================
