--------------------------- MODULE BoundedBuffer ---------------------------
(***************************************************************************)
(* ExW7/src/BoundedBuffer.h: one caller that creates, uses and destroys    *)
(* BoundedBuffer objects.  Members and private helpers are those of        *)
(* QueueBody; what is different is around them: exceptions in place of     *)
(* waiting, moved-from objects without memory, lifetimes.                  *)
(*                                                                         *)
(* A call that constructs or destroys several elements takes a step for    *)
(* each, because each runs the element type's code, which may throw.       *)
(***************************************************************************)
EXTENDS QueueBody, FiniteSets

CONSTANTS Buffers,      \* the variables that may hold a buffer
          None,         \* no object, no call
          Calls,        \* the calls the client may make
          Throwing,     \* the operations in which an element may throw
          MaxThrows     \* bound on exceptions from elements in a behaviour

Creating == {"new", "copy_ctor", "move_ctor", "make"}
Filling == {"make", "push_many"}
CopyOps == {"copy_ctor", "copy_assign"}
SwapOps == {"swap", "move_assign"}
TwoBuffers == CopyOps \cup SwapOps \cup {"move_ctor"}
Ops == Creating \cup Filling \cup TwoBuffers
       \cup {"push", "pop", "front", "back", "observe", "clear", "destroy"}

\* eles: the elements passed, each as an rvalue or not.  n: the argument of the
\* constructor, or how many of several elements have been pushed.
Argument == [v : Values, rvalue : BOOLEAN]
Call == [op : Ops, b : Buffers, rhs : Buffers \cup {None},
         eles : Seq(Argument), n : 0..SizeMod - 1]

ASSUME NoneAssumption == /\ None \notin Call \cup Buffers
                         /\ \A c \in 0..SizeMod - 1 : None \notin BodyOf(c)
ASSUME CallsAssumption ==
    \A c \in Calls : /\ c \in Call
                     /\ c.op \in TwoBuffers => c.rhs \in Buffers
                     /\ c.op \in Filling \cup {"push"} => c.eles # <<>> /\ c.n = 0
                     /\ Len(c.eles) < SizeMod
ASSUME ElementAssumption == MaxThrows \in Nat /\ Throwing \subseteq Ops

VARIABLES buf,      \* buf[b]: the members of the object in b, or None
          tmp,      \* the members of an object local to the call, or None
          pc, call, \* where the caller is, and in which call
          ret,      \* what the last call returned
          leaked,   \* elements whose memory was released undestroyed
          throws    \* exceptions from elements so far

vars == <<buf, tmp, pc, call, ret, leaked, throws>>

Result(st, val) == [st |-> st, val |-> val]
Pending == Result("pending", <<>>)
Ok(val) == Result("ok", val)
LogicError == Result("logic_error", <<>>)
InvalidArgument == Result("invalid_argument", <<>>)
ElementThrew == Result("element", <<>>)

\* A default-initialised object: no capacity, container_ is null.
MovedFrom == NewBody(0)

Init == /\ buf = [b \in Buffers |-> None]
        /\ tmp = None
        /\ pc = "idle" /\ call = None /\ ret = Pending
        /\ leaked = 0 /\ throws = 0

Return(r) == pc' = "idle" /\ call' = None /\ ret' = r

\* The caller starts the body of an operation of ops.
In(ops) == pc = "start" /\ call.op \in ops

This == buf[call.b]
Set(body) == buf' = [buf EXCEPT ![call.b] = body]

\* An object's memory is released; an element still in it is never destroyed.
Release(body) ==
    leaked' = leaked + Cardinality({s \in DOMAIN body.container : body.container[s] # Raw})

-----------------------------------------------------------------------------
\* Constructors initialise variables without an object, the other operations
\* need one.
Invoke(c) ==
    /\ pc = "idle"
    /\ c.op \in Creating <=> buf[c.b] = None
    /\ c.op \in TwoBuffers => buf[c.rhs] # None
    /\ call' = c /\ pc' = "start" /\ ret' = Pending
    /\ UNCHANGED <<buf, tmp, leaked, throws>>

New ==
    /\ In({"new"}) /\ call.n > 0
    /\ Set(NewBody(call.n)) /\ Return(Ok(<<>>))
    /\ UNCHANGED <<tmp, leaked, throws>>

NewRefused ==
    /\ In({"new"}) /\ call.n = 0
    /\ Return(InvalidArgument)
    /\ UNCHANGED <<buf, tmp, leaked, throws>>

\* Mutant: push_many() does not check for each element.
RefusesFirstOnly(op, body) == \/ op = "push" /\ Full(body)
                              \/ op \in {"pop", "front", "back"} /\ Empty(body)

\* Mutant: pop() does not check.
RefusesFullOnly(op, body) == op \in {"push"} \cup Filling /\ Full(body)

\* throwIfFull(), throwIfEmpty()
Refuses(op, body) == \/ op \in {"push"} \cup Filling /\ Full(body)
                     \/ op \in {"pop", "front", "back"} /\ Empty(body)

Refused ==
    /\ In({"push", "pop", "front", "back"}) /\ Refuses(call.op, This)
    /\ Return(LogicError)
    /\ UNCHANGED <<buf, tmp, leaked, throws>>

\* The element that is made from an argument.
Passed(e) == IF e.rvalue THEN Moved(e.v) ELSE Copied(e.v)

\* Mutant: the element is counted before its slot is computed.
PushAfterCount ==
    /\ In({"push"}) /\ ~Refuses("push", This)
    /\ Set(ConstructAfterCount(This, Passed(Head(call.eles)))) /\ Return(Ok(<<>>))
    /\ UNCHANGED <<tmp, leaked, throws>>

Push ==
    /\ In({"push"}) /\ ~Refuses("push", This)
    /\ Set(Construct(This, Passed(Head(call.eles)))) /\ Return(Ok(<<>>))
    /\ UNCHANGED <<tmp, leaked, throws>>

\* The constructor of an element throws.
ElementThrows == /\ throws < MaxThrows /\ throws' = throws + 1
                 /\ call.op \in Throwing

PushThrows ==
    /\ In({"push"}) /\ ~Refuses("push", This) /\ ElementThrows
    /\ Return(ElementThrew)
    /\ UNCHANGED <<buf, tmp, leaked>>

Pop ==
    /\ In({"pop"}) /\ ~Refuses("pop", This)
    /\ Set(Destroy(This)) /\ Return(Ok(<<>>))
    /\ UNCHANGED <<tmp, leaked, throws>>

Front ==
    /\ In({"front"}) /\ ~Refuses("front", This)
    /\ Return(Ok(<<At(This, 0)>>))
    /\ UNCHANGED <<buf, tmp, leaked, throws>>

\* Mutant: the offset is that of the next push.
BackPastLast ==
    /\ In({"back"}) /\ ~Refuses("back", This)
    /\ Return(Ok(<<At(This, This.size)>>))
    /\ UNCHANGED <<buf, tmp, leaked, throws>>

Back ==
    /\ In({"back"}) /\ ~Refuses("back", This)
    /\ Return(Ok(<<At(This, This.size - 1)>>))
    /\ UNCHANGED <<buf, tmp, leaked, throws>>

Observe ==
    /\ In({"observe"})
    /\ Return(Ok(<<Empty(This), Full(This), This.size>>))
    /\ UNCHANGED <<buf, tmp, leaked, throws>>

\* Exchanges the members of two objects, or of one with itself.
Swap ==
    /\ In(SwapOps)
    /\ buf' = [buf EXCEPT ![call.b] = buf[call.rhs], ![call.rhs] = buf[call.b]]
    /\ Return(Ok(<<>>))
    /\ UNCHANGED <<tmp, leaked, throws>>

\* Mutant: the new object shares the memory of the other.
MoveShares ==
    /\ In({"move_ctor"})
    /\ buf' = [buf EXCEPT ![call.b] = buf[call.rhs],
                          ![call.rhs] = [@ EXCEPT !.size = 0, !.capacity = 0]]
    /\ Return(Ok(<<>>))
    /\ UNCHANGED <<tmp, leaked, throws>>

MoveConstruct ==
    /\ In({"move_ctor"})
    /\ buf' = [buf EXCEPT ![call.b] = buf[call.rhs], ![call.rhs] = MovedFrom]
    /\ Return(Ok(<<>>))
    /\ UNCHANGED <<tmp, leaked, throws>>

-----------------------------------------------------------------------------
\* Copy construction and copy assignment.

AssignSelf ==
    /\ In({"copy_assign"}) /\ call.b = call.rhs
    /\ Return(Ok(<<>>))
    /\ UNCHANGED <<buf, tmp, leaked, throws>>

CopyStart ==
    /\ In(CopyOps) /\ call.b # call.rhs
    /\ tmp' = NewBody(buf[call.rhs].capacity)
    /\ pc' = "copy"
    /\ UNCHANGED <<buf, call, ret, leaked, throws>>

Copying == pc = "copy" /\ tmp.size < buf[call.rhs].size

CopyElement ==
    /\ Copying
    /\ tmp' = Construct(tmp, Copied(At(buf[call.rhs], tmp.size)))
    /\ UNCHANGED <<buf, pc, call, ret, leaked, throws>>

\* No destructor runs for an object whose constructor throws; its members
\* release the memory.
CopyThrows ==
    /\ Copying /\ ElementThrows
    /\ Release(tmp) /\ tmp' = None
    /\ Return(ElementThrew)
    /\ UNCHANGED buf

CopyConstructed ==
    /\ pc = "copy" /\ ~Copying /\ call.op = "copy_ctor"
    /\ Set(tmp) /\ tmp' = None
    /\ Return(Ok(<<>>))
    /\ UNCHANGED <<leaked, throws>>

\* Mutant: the members are overwritten and the old elements forgotten.
CopyOverwrites ==
    /\ pc = "copy" /\ ~Copying /\ call.op = "copy_assign"
    /\ Set(tmp) /\ tmp' = None
    /\ Release(This) /\ Return(Ok(<<>>))
    /\ UNCHANGED throws

\* The copy and the target are swapped; what the target had is destroyed next.
CopyAssigned ==
    /\ pc = "copy" /\ ~Copying /\ call.op = "copy_assign"
    /\ Set(tmp) /\ tmp' = This
    /\ pc' = "clear" /\ ret' = Ok(<<>>)
    /\ UNCHANGED <<call, leaked, throws>>

-----------------------------------------------------------------------------
\* make_buffer() fills a local object, push_many() an existing one.

\* The object that is filled or cleared.
Subject == IF tmp = None THEN This ELSE tmp
SetSubject(body) == IF tmp = None THEN Set(body) /\ UNCHANGED tmp
                                  ELSE tmp' = body /\ UNCHANGED buf

MakeStart ==
    /\ In({"make"})
    /\ tmp' = NewBody(Len(call.eles)) /\ pc' = "fill"
    /\ UNCHANGED <<buf, call, ret, leaked, throws>>

PushManyStart ==
    /\ In({"push_many"})
    /\ pc' = "fill"
    /\ UNCHANGED <<buf, tmp, call, ret, leaked, throws>>

MoreToFill == pc = "fill" /\ call.n < Len(call.eles)

Fill ==
    /\ MoreToFill /\ ~Refuses(call.op, Subject)
    /\ SetSubject(Construct(Subject, Passed(call.eles[call.n + 1])))
    /\ call' = [call EXCEPT !.n = @ + 1]
    /\ UNCHANGED <<pc, ret, leaked, throws>>

\* The exception leaves push_many(); make_buffer() destroys its object.
Unwind(r) == IF call.op = "make"
             THEN pc' = "clear" /\ ret' = r /\ UNCHANGED <<tmp, call, leaked>>
             ELSE Return(r) /\ UNCHANGED <<tmp, leaked>>

FillRefused ==
    /\ MoreToFill /\ Refuses(call.op, Subject)
    /\ Unwind(LogicError)
    /\ UNCHANGED <<buf, throws>>

FillThrows ==
    /\ MoreToFill /\ ~Refuses(call.op, Subject) /\ ElementThrows
    /\ Unwind(ElementThrew)
    /\ UNCHANGED buf

Made ==
    /\ pc = "fill" /\ ~MoreToFill /\ call.op = "make"
    /\ Set(tmp) /\ tmp' = None
    /\ Return(Ok(<<>>))
    /\ UNCHANGED <<leaked, throws>>

PushedMany ==
    /\ pc = "fill" /\ ~MoreToFill /\ call.op = "push_many"
    /\ Return(Ok(<<>>))
    /\ UNCHANGED <<buf, tmp, leaked, throws>>

-----------------------------------------------------------------------------
\* clear(), and the destructor that calls it.

ClearStart ==
    /\ In({"clear", "destroy"})
    /\ pc' = "clear"
    /\ UNCHANGED <<buf, tmp, call, ret, leaked, throws>>

\* Mutant: elements are destroyed, and go on being counted.
ClearUncounted ==
    /\ pc = "clear" /\ ~Empty(Subject)
    /\ SetSubject([Destroy(Subject) EXCEPT !.size = Subject.size])
    /\ UNCHANGED <<pc, call, ret, leaked, throws>>

ClearElement ==
    /\ pc = "clear" /\ ~Empty(Subject)
    /\ SetSubject(Destroy(Subject))
    /\ UNCHANGED <<pc, call, ret, leaked, throws>>

Cleared ==
    /\ pc = "clear" /\ Empty(Subject) /\ tmp = None /\ call.op = "clear"
    /\ Return(Ok(<<>>))
    /\ UNCHANGED <<buf, tmp, leaked, throws>>

Destroyed ==
    /\ pc = "clear" /\ Empty(Subject) /\ tmp = None /\ call.op = "destroy"
    /\ Set(None) /\ Release(This) /\ Return(Ok(<<>>))
    /\ UNCHANGED <<tmp, throws>>

\* A local object is gone, at the end of the call.
Dropped ==
    /\ pc = "clear" /\ tmp # None /\ Empty(tmp)
    /\ tmp' = None /\ Release(tmp)
    /\ pc' = "idle" /\ call' = None
    /\ UNCHANGED <<buf, ret, throws>>

-----------------------------------------------------------------------------
\* The body of the operation that was called.
Body ==
    \/ New \/ NewRefused \/ Refused \/ Push \/ PushThrows \/ Pop
    \/ Front \/ Back \/ Observe \/ Swap \/ MoveConstruct
    \/ AssignSelf \/ CopyStart \/ CopyElement \/ CopyThrows
    \/ CopyConstructed \/ CopyAssigned
    \/ MakeStart \/ PushManyStart \/ Fill \/ FillRefused \/ FillThrows
    \/ Made \/ PushedMany
    \/ ClearStart \/ ClearElement \/ Cleared \/ Destroyed \/ Dropped

Next == (\E c \in Calls : Invoke(c)) \/ Body

Spec == Init /\ [][Next]_vars

-----------------------------------------------------------------------------
\* Properties.

IsBody(body) == \E c \in 0..SizeMod - 1 : body \in BodyOf(c)

\* Every variable has its type; the caller has a call exactly when it is in
\* one, and a local object exactly while it copies, makes or drops one.
TypeOK ==
    /\ DOMAIN buf = Buffers /\ \A b \in Buffers : buf[b] = None \/ IsBody(buf[b])
    /\ tmp = None \/ IsBody(tmp)
    /\ pc \in {"idle", "start", "copy", "fill", "clear"}
    /\ IF pc = "idle" THEN call = None ELSE call \in Call
    /\ pc = "copy" => tmp # None
    /\ pc \in {"idle", "start"} => tmp = None
    /\ leaked \in Nat /\ throws \in Nat

\* Whatever threw, and wherever memory was swapped to, the elements an object
\* counts are in slots of their own and no other slot has one.
RingIntact == /\ \A b \in Buffers : buf[b] # None => RingOK(buf[b])
              /\ tmp # None => RingOK(tmp)

\* Every element constructed in an object's memory is destroyed before the
\* memory is released: by pop(), clear(), the destructor or unwinding.
NoLeak == leaked = 0

\* The one way to leave elements undestroyed is an exception in the middle of
\* copying a buffer.
OnlyCopiesLeak == [][leaked' # leaked => pc = "copy" /\ ret' = ElementThrew]_vars

\* The steps that the call in progress may still take: one for each element that
\* it has to copy, to push and to destroy, also after an exception, and those
\* around them.
ElementsIn(o) == IF o = None THEN 0 ELSE o.size
Remaining ==
    CASE pc = "idle" -> 0
      [] pc = "start" -> 3 + 2 * Len(call.eles) + ElementsIn(This)
                         + (IF call.op \in CopyOps THEN ElementsIn(buf[call.rhs]) ELSE 0)
      [] pc = "copy" -> 2 + (buf[call.rhs].size - tmp.size) + ElementsIn(This)
      [] pc = "fill" -> 2 + 2 * Len(call.eles) - call.n
      [] pc = "clear" -> 1 + Subject.size

\* Every call comes to an end, whatever throws in it: each step, also of
\* unwinding, leaves fewer steps to take.
CallsEnd == [][pc # "idle" => Remaining \in Nat /\ Remaining' < Remaining]_vars
=============================================================================
