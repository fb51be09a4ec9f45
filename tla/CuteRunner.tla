----------------------------- MODULE CuteRunner -----------------------------
(***************************************************************************)
(* The test framework CUTE, as each exercise's Test.cpp uses it: runAll-   *)
(* Tests() gives the suites to a runner one after the other, the runner    *)
(* runs the tests the command line asks for and tells a listener what it   *)
(* starts and how it ends.  The listener counts (cute_counting_listener.h).*)
(*                                                                         *)
(* A test is a script of TestScripts.  What it does to the objects under   *)
(* test is up to the module that instantiates this one; here is what it    *)
(* asserts, and what becomes of the test.                                  *)
(***************************************************************************)
EXTENDS MemoryOperationCounter, Sequences, FiniteSets

CONSTANTS Program,    \* the suites in the order they are run, each a sequence of scripts
          Arguments   \* the argument lists the program may be started with

VARIABLES args,     \* command-line arguments: a suite and a test, or 0 for all of its tests
          place,    \* the suite and the test in it that is due
          stage,    \* "suite": between suites, "test": between tests, "body": in one
          todo,     \* what the body of the test has yet to do
          doing,    \* is the first item of todo under way?
          noted,    \* the values the test put into a vector
          outcome,  \* how the test ends
          report,   \* the counters of the listener
          unsuccessful \* the tests that failed or ended with an exception

runnerVars == <<args, place, stage, todo, doing, noted, outcome, report, unsuccessful>>

NoReport == [numberOfTests |-> 0, successfulTests |-> 0, failedTests |-> 0, errors |-> 0,
             numberOfSuites |-> 0, numberOfTestsInSuites |-> 0]

RunnerInit ==
    /\ args \in Arguments
    /\ place = [suite |-> 1, test |-> 1] /\ stage = "suite"
    /\ todo = <<>> /\ doing = FALSE /\ noted = <<>> /\ outcome = "success"
    /\ report = NoReport /\ unsuccessful = {}

-----------------------------------------------------------------------------
\* ArgvTestFilter: without arguments everything is run; a suite is run when an
\* argument names it or one of its tests; when tests of it are named, only these.
ShouldRunSuite(s) == args = {} \/ \E a \in args : a.suite = s
Match(s) == {a.test : a \in {b \in args : b.suite = s}} \ {0}
ShouldRun(s, t) == Match(s) = {} \/ t \in Match(s)

\* Mutant: the tests announced are all the tests of the suite.
AllTests(s) == DOMAIN Program[s]

TestsToRun(s) == {t \in DOMAIN Program[s] : ShouldRun(s, t)}

SuiteDue == stage = "suite" /\ place.suite <= Len(Program)

BeginSuite ==
    /\ SuiteDue /\ ShouldRunSuite(place.suite)
    /\ stage' = "test" /\ place' = [place EXCEPT !.test = 1]
    /\ report' = [report EXCEPT !.numberOfSuites = @ + 1,
                      !.numberOfTestsInSuites = @ + Cardinality(TestsToRun(place.suite))]
    /\ UNCHANGED <<args, todo, doing, noted, outcome, unsuccessful>>

SkipSuite ==
    /\ SuiteDue /\ ~ShouldRunSuite(place.suite)
    /\ place' = [place EXCEPT !.suite = @ + 1]
    /\ UNCHANGED <<args, stage, todo, doing, noted, outcome, report, unsuccessful>>

TestDue == stage = "test" /\ place.test <= Len(Program[place.suite])

StartTest ==
    /\ TestDue /\ ShouldRun(place.suite, place.test)
    /\ stage' = "body" /\ todo' = Program[place.suite][place.test]
    /\ noted' = <<>> /\ outcome' = "success"
    /\ report' = [report EXCEPT !.numberOfTests = @ + 1]
    /\ UNCHANGED <<args, place, doing, unsuccessful>>

SkipTest ==
    /\ TestDue /\ ~ShouldRun(place.suite, place.test)
    /\ place' = [place EXCEPT !.test = @ + 1]
    /\ UNCHANGED <<args, stage, todo, doing, noted, outcome, report, unsuccessful>>

\* runit(): the test returned, or one of the catch clauses has the exception
\* that left it.
BodyOver == stage = "body" /\ todo = <<>> /\ ~doing
EndTest ==
    /\ BodyOver
    /\ stage' = "test" /\ place' = [place EXCEPT !.test = @ + 1]
    /\ report' = CASE outcome = "success" -> [report EXCEPT !.successfulTests = @ + 1]
                   [] outcome = "failure" -> [report EXCEPT !.failedTests = @ + 1]
                   [] outcome = "error"   -> [report EXCEPT !.errors = @ + 1]
    /\ unsuccessful' = IF outcome = "success" THEN unsuccessful
                       ELSE unsuccessful \cup {<<place.suite, place.test, outcome>>}
    /\ UNCHANGED <<args, todo, doing, noted, outcome>>

EndSuite ==
    /\ stage = "test" /\ ~TestDue
    /\ stage' = "suite" /\ place' = [place EXCEPT !.suite = @ + 1]
    /\ UNCHANGED <<args, todo, doing, noted, outcome, report, unsuccessful>>

\* main() returns 0, whatever the runners returned.
Exited == stage = "suite" /\ ~SuiteDue

\* What the runner does between the bodies of the tests.
BetweenTests == BeginSuite \/ SkipSuite \/ StartTest \/ SkipTest \/ EndSuite

-----------------------------------------------------------------------------
\* Assertions.  An answer says how an operation ended, st, and what it
\* returned, val.

\* Which exceptions a catch clause for wanted catches.
Catches(wanted, st) ==
    st = wanted \/ (wanted = "logic_error" /\ st = "invalid_argument")

Observed(a) == [empty |-> a[1], full |-> a[2], size |-> a[3]]

\* The assertion of the item holds for what an operation returned.
Holds(item, val) ==
    CASE item.field \in {"done", "note"} -> TRUE
      [] item.field \in {"empty", "full", "size"} -> Observed(val)[item.field] = item.want
      [] item.field = "val" -> val[1].val = item.want
      [] item.field = "same" -> val[1].val = noted[Len(noted)]
      [] item.field = "element" -> Same(item.want, val[1])
      [] item.field = "number" -> val[1] = item.want
      [] item.field = "second" -> val[2] = item.want

\* ASSERT_THROWS wants an exception; any other lets the exception through.
Verdict(item, a) ==
    IF item.field = "done" /\ item.want # "ok"
    THEN CASE Catches(item.want, a.st) -> "success" [] a.st = "ok" -> "failure" [] OTHER -> "error"
    ELSE CASE a.st # "ok" -> "error" [] Holds(item, a.val) -> "success" [] OTHER -> "failure"

-----------------------------------------------------------------------------
\* The body of a test.

Item == Head(todo)
Due(ops) == stage = "body" /\ todo # <<>> /\ ~doing /\ Item.do \in ops

\* It begins with an operation,
BeginItem == doing' = TRUE /\ UNCHANGED <<args, place, stage, todo, noted, outcome, report, unsuccessful>>

\* and goes on after the operation's answer, or is left.
Judge(a) ==
    LET verdict == Verdict(Item, a) IN
    /\ doing' = FALSE /\ outcome' = verdict
    /\ todo' = IF verdict = "success" THEN Tail(todo) ELSE <<>>
    /\ noted' = IF Item.field = "note" /\ a.st = "ok" THEN Append(noted, a.val[1].val) ELSE noted
    /\ UNCHANGED <<args, place, stage, report, unsuccessful>>

\* An assertion that is due on the operation that answered a.
EqualityOn(a) ==
    (Item.field = "element" /\ a.st = "ok") =>
        (Same(Item.want, a.val[1]) => Item.want = a.val[1])

-----------------------------------------------------------------------------
\* Properties.

\* Every test that is started is reported once, as one of success, failure and
\* error; when the program exits it has started as many tests as it announced.
ReportAgrees ==
    LET ended == report.successfulTests + report.failedTests + report.errors IN
    /\ report.numberOfTests = ended + (IF stage = "body" THEN 1 ELSE 0)
    /\ stage = "suite" => report.numberOfTests = report.numberOfTestsInSuites
=============================================================================
