---------------------------- MODULE TestScripts ----------------------------
(***************************************************************************)
(* The vocabulary in which the test functions of the suites are written    *)
(* down: a test is a sequence of items, each an operation on an object     *)
(* local to the test and what the test asserts about its outcome.          *)
(*                                                                         *)
(* do is the operation, on the object, rhs the other object, args the      *)
(* elements passed, n a number.  field says what is looked at: "done" at   *)
(* whether the operation returns ("ok") or which exception leaves it, the  *)
(* others at a part of what it returned.  want is what is asserted.        *)
(***************************************************************************)
EXTENDS MemoryOperationCounter, Integers, Sequences

LOCAL SX == INSTANCE SequencesExt

\* The objects and iterators of the tests.
buffer == "buffer"
other == "other"
third == "third"
fourth == "fourth"
Locals == {buffer, other, third, fourth}
IteratorLocals == {"begin", "end", "i", "j"}

Do(op, o) == [do |-> op, on |-> o, rhs |-> o, args |-> <<>>, n |-> 0,
              field |-> "done", want |-> "ok"]
With(op, o, r) == [Do(op, o) EXCEPT !.rhs = r]
Nth(op, o, n) == [Do(op, o) EXCEPT !.n = n]

LValue(e) == [v |-> e, rvalue |-> FALSE]
RValue(e) == [v |-> e, rvalue |-> TRUE]

New(o, n) == Nth("new", o, n)
Push(o, v) == [Do("push", o) EXCEPT !.args = <<RValue(Value(v))>>]
PushLvalue(o, v) == [Do("push", o) EXCEPT !.args = <<LValue(Value(v))>>]
Pop(o) == Do("pop", o)
Front(o) == Do("front", o)
Back(o) == Do("back", o)
CopyConstruct(o, r) == With("copy_ctor", o, r)
MoveConstruct(o, r) == With("move_ctor", o, r)
CopyAssign(o, r) == With("copy_assign", o, r)
MoveAssign(o, r) == With("move_assign", o, r)
Swap(o, r) == With("swap", o, r)
MakeBuffer(o, args) == [Do("make", o) EXCEPT !.args = args]
EndOfScope(o) == Do("destroy", o)

\* What ASSERT, ASSERT_EQUAL and ASSERT_THROWS are given.
Expect(item, field, want) == [item EXCEPT !.field = field, !.want = want]
Throws(item, e) == Expect(item, "done", e)
Empty(o, w) == Expect(Do("observe", o), "empty", w)
Full(o, w) == Expect(Do("observe", o), "full", w)
Size(o, w) == Expect(Do("observe", o), "size", w)
Is(item, v) == Expect(item, "val", v)
Counts(item, m, c) == Expect(item, "element", Counter(m, c, TRUE))

\* The iterators' operations; postfix ones and those with a result of their own
\* are done on a copy.
Begin(i, o) == With("begin", i, o)
End(i, o) == With("end", i, o)
CopyOfIt(i, j) == With("copy", i, j)
Incr(i) == Do("++", i)
Decr(i) == Do("--", i)
Plus(i, n) == Nth("+=", i, n)
Minus(i, n) == Nth("-=", i, n)
Deref(i) == Do("deref", i)
Overwrite(i, v) == [Do("write", i) EXCEPT !.args = <<RValue(Value(v))>>]
Distance(i, j, n) == Expect(With("difference", i, j), "number", n)
Less(i, j) == Expect(With("compare", i, j), "number", TRUE)
Equal(i, j, w) == Expect(With("compare", i, j), "second", w)

\* A RingN: its construction with x, its operators, the assertion that it is v.
NewRing(N, x) == [Nth("ring", "ring", N) EXCEPT !.args = <<x>>]
AddRing(r) == Nth("ring+=", "ring", r)
SubtractRing(r) == Nth("ring-=", "ring", r)
RingIs(v) == Expect(Nth("ring==", "ring", v), "number", TRUE)

\* The values pushed to a vector, and the assertion on the vector.
Note(item) == Expect(item, "note", 0)
Noted(values) == Expect(Do("noted", buffer), "number", values)

\* The static counters of an element type, and the assertion on one of them.
Reset == Do("reset", buffer)
Counted(what, n) == Expect(Do("count", what), "number", n)

\* n_times([&](){...}) of times_literal.hpp
InOrder(scripts) == SX!FlattenSeq(scripts)
Times(n, script) == InOrder([k \in 1..n |-> script])
Pushes(o, values) == [k \in DOMAIN values |-> Push(o, values[k])]
Consecutive(start, n) == [k \in 1..n |-> start + k - 1]
=============================================================================
