--------------------------- MODULE ArraySequences ---------------------------
(***************************************************************************)
(* What ExW3's BoundedBuffer promises its caller: like BoundedSequences,   *)
(* but what is moved from keeps its elements, hollow, and an exception     *)
(* from an element leaves the lengths right and the elements in doubt.     *)
(***************************************************************************)
EXTENDS BoundedSequences

CONSTANTS Values, Hollow(_)

Each(f(_), s) == [s EXCEPT !.els = [i \in DOMAIN @ |-> f(@[i])]]
This == seqs[call.b]
Rhs == seqs[call.rhs]
Both(s, r) == seqs' = [seqs EXCEPT ![call.b] = s, ![call.rhs] = r]

NewEmpty == In({"new"}) /\ Set(Buffer(<<>>, call.n)) /\ Return("ok", <<>>)

CopyEach == /\ In({"copy_ctor", "copy_assign"})
            /\ Set(Each(Copied, Rhs)) /\ Return("ok", <<>>)

MoveEach == /\ In({"move_ctor", "move_assign"}) /\ call.b # call.rhs
            /\ Both(Each(Moved, Rhs), Each(Hollow, Rhs)) /\ Return("ok", <<>>)

MoveToSelf == /\ In({"move_assign"}) /\ call.b = call.rhs
              /\ Set(Each(LAMBDA v : Hollow(Moved(v)), This)) /\ Return("ok", <<>>)

Twice(v) == Moved(Moved(v))
SwapEach == /\ In({"swap"})
            /\ IF call.b = call.rhs THEN Set(Each(Twice, This))
               ELSE Both(Each(Moved, Rhs), Each(Twice, This))
            /\ Return("ok", <<>>)

MakeAll == /\ In({"make"}) /\ Len(call.eles) <= call.n
           /\ Set(Buffer([i \in DOMAIN call.eles |-> Passed(call.eles[i])], call.n))
           /\ Return("ok", <<>>)

MakeRefused == /\ In({"make"}) /\ Len(call.eles) > call.n
               /\ Return("logic_error", <<>>) /\ UNCHANGED seqs

Destroy == In({"destroy"}) /\ Set(None) /\ Return("ok", <<>>)

\* An element throws: a push has made the sequence longer nevertheless.
ThrowInPush == /\ In({"push", "push_many"}) /\ \E v \in Values : Add(v)
               /\ Return("element", <<>>)

Doubtful(s) == {[s EXCEPT !.els = els] : els \in [DOMAIN s.els -> Values]}
ThrowInCopy == /\ In({"copy_assign"}) /\ \E s \in Doubtful(This) : Set(s)
               /\ Return("element", <<>>)
ThrowInMove == /\ In({"move_ctor"}) /\ \E r \in Doubtful(Rhs) : Both(None, r)
               /\ Return("element", <<>>)
ThrowInBoth == /\ In({"move_assign", "swap"})
               /\ \E s \in Doubtful(This), r \in Doubtful(Rhs) : Both(s, r)
               /\ Return("element", <<>>)
ThrowBefore == /\ In({"make", "copy_ctor"})
               /\ Return("element", <<>>) /\ UNCHANGED seqs

ArrayNext ==
    \/ Invoke \/ NewEmpty \/ Push \/ PushOneOfMany \/ PushedMany \/ PushRefused \/ Pop
    \/ Front \/ Back \/ EmptyRefused \/ Observe \/ CopyEach \/ MoveEach \/ MoveToSelf
    \/ SwapEach \/ MakeAll \/ MakeRefused \/ Destroy
    \/ ThrowInPush \/ ThrowInCopy \/ ThrowInMove \/ ThrowInBoth \/ ThrowBefore

ArraySpec == Init /\ [][ArrayNext]_vars
=============================================================================
