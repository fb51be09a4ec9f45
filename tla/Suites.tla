------------------------------- MODULE Suites -------------------------------
(***************************************************************************)
(* The three test executables: ExW3's, ExW7's and ExW11's main(), each of  *)
(* which runs the exercise's suites over the model of its code.            *)
(***************************************************************************)
EXTENDS MemoryOperationCounter, Integers, Sequences

CONSTANTS None, Raw, SizeMod,
          Slice, Capacity,   \* bounds of the multi-threaded suite, see QueueTests
          Arguments          \* the argument lists the programs are started with

VARIABLES exercise,          \* which executable is run
          args, place, stage, todo, doing, noted, outcome, report, unsuccessful,
          pc, call, tmp, ret, stats,
          buf, throws,       \* ExW3 and ExW7
          done, ring,        \* ExW3
          leaked, it, res,   \* ExW7
          body, mx, notEmpty, notFull, budget, spurious,   \* ExW11, as the rest
          docheck, kind, jobs, popped

runnerVars == <<args, place, stage, todo, doing, noted, outcome, report, unsuccessful>>
arrayOnly == <<done, ring>>
bufferOnly == <<leaked, it, res>>
buffers == <<buf, throws>>
queueOnly == <<body, mx, notEmpty, notFull, budget, spurious, docheck, kind, jobs, popped>>
vars == <<exercise, runnerVars, pc, call, tmp, ret, stats, buffers, arrayOnly, bufferOnly, queueOnly>>

\* The elements of the suites; raw memory stays raw.
Copied(e) == IF e = Raw THEN Raw ELSE CopyOf(e)
Moved(e) == IF e = Raw THEN Raw ELSE MoveOf(e)

\* The variables of the tests.
Objects == {"buffer", "other", "third", "fourth"}
Cursors == {"begin", "end", "i", "j"}
Test == "main"

AT == INSTANCE ArrayTests
BT == INSTANCE BufferTests
QT == INSTANCE QueueTests

A == INSTANCE ArraySuites WITH
        Program <- AT!Program, Values <- Elements, Default <- Value(0), Copied <- CopyOf,
        Moved <- MoveOf, Hollow <- HollowOf, Buffers <- Objects, Calls <- {},
        Throwing <- {}, MaxThrows <- 0
B == INSTANCE BufferSuites WITH
        Program <- BT!Program, Values <- Elements, Buffers <- Objects, Iterators <- Cursors,
        Calls <- {}, Jumps <- {}, Throwing <- {}, MaxThrows <- 0,
        Careful <- TRUE, Leaps <- TRUE
Q == INSTANCE QueueSuites WITH
        Program <- QT!Program, Values <- Elements, Queues <- Objects, Main <- Test,
        Threads <- QT!Launched \cup {Test}, Calls <- <<>>, MaxCalls <- <<>>,
        InitCapacity <- <<>>, Throws <- FALSE, MaxSpurious <- 0

\* The variables of the other executables are not used.
ArrayUnused == done = None /\ ring = None
BufferUnused == leaked = None /\ it = None /\ res = None
QueueUnused ==
    /\ body = None /\ mx = None /\ notEmpty = None /\ notFull = None /\ budget = None
    /\ spurious = None /\ docheck = None /\ kind = None /\ jobs = None /\ popped = None

Init ==
    \/ /\ exercise = "ExW3" /\ A!SuiteInit
       /\ stats = None /\ BufferUnused /\ QueueUnused
    \/ /\ exercise = "ExW7" /\ B!SuiteInit
       /\ ArrayUnused /\ QueueUnused
    \/ /\ exercise = "ExW11" /\ Q!SuiteInit
       /\ buf = None /\ throws = None /\ ArrayUnused /\ BufferUnused

Next ==
    \/ exercise = "ExW3" /\ A!SuiteStep /\ UNCHANGED <<exercise, stats, bufferOnly, queueOnly>>
    \/ exercise = "ExW7" /\ B!SuiteStep /\ UNCHANGED <<exercise, arrayOnly, queueOnly>>
    \/ exercise = "ExW11" /\ Q!SuiteStep /\ UNCHANGED <<exercise, buffers, arrayOnly, bufferOnly>>

\* Whenever a thread of the program can go on, one does.
Spec == Init /\ [][Next]_vars /\ WF_vars(Next)

-----------------------------------------------------------------------------
\* The argument lists of the run: none, and one that names a suite and a test.
Everything == {}
SomeTests == {[suite |-> 1, test |-> 0], [suite |-> 2, test |-> 3]}
ArgumentLists == {Everything, SomeTests}

Exited == CASE exercise = "ExW3" -> A!Exited
            [] exercise = "ExW7" -> B!Exited
            [] exercise = "ExW11" -> Q!Exited

\* The code throws another exception than this test of ExW3 wants.
Certain == IF exercise = "ExW3" THEN {Append(AT!ManyElementsTest, "error")} ELSE {}

\* This test of ExW11 wants a std::lock that starts with the same mutex each time.
Possible == IF exercise = "ExW11" THEN {Append(QT!TriesTest, "failure")} ELSE {}

\* Every test of the three exercises passes, in every interleaving of the
\* threads it launches, but the one whose exception the code does not throw and
\* the one that counts on the order in which std::lock takes the mutexes.
TestsAsKnown ==
    /\ unsuccessful \subseteq Certain \cup Possible
    /\ Exited /\ args = Everything => Certain \subseteq unsuccessful

\* Every test that is started is reported once, as a success, a failure or an
\* error, and as many are started as were announced, whatever was asked for.
ReportAgrees == B!ReportAgrees

\* Where a suite compares counters, operator== of MemoryOperationCounter, which
\* compares the wrong things for want of parentheses, says what equality says.
EqualityExact == CASE exercise = "ExW3" -> A!EqualityExact
                   [] exercise = "ExW7" -> B!EqualityExact
                   [] exercise = "ExW11" -> Q!EqualityExact

\* The program ends: no test blocks, no launched thread is left waiting.
Terminates == <>Exited

\* What the suites say of the code: no test fails.
TestsPass == unsuccessful = {}
=============================================================================
