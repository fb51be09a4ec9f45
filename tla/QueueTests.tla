----------------------------- MODULE QueueTests -----------------------------
(***************************************************************************)
(* The test suites of ExW11, test by test, and the suites in the order in  *)
(* which Test.cpp runs them.  The signature suite is left out: it compares *)
(* the names of types, which the compiler has decided.                     *)
(***************************************************************************)
EXTENDS TestScripts

\* The variable queue of the tests, and the threads they launch.
queue == buffer
Launched == {"producer1", "producer2", "consumer1", "consumer2"}

TryPush(o, v) == [Do("try_push", o) EXCEPT !.args = <<LValue(Value(v))>>]
TryPushFor(o, v) == [Do("try_push_for", o) EXCEPT !.args = <<LValue(Value(v))>>]
TryPop(o) == Do("try_pop", o)
TryPopFor(o) == Do("try_pop_for", o)
Returns(item, b) == Expect(item, "number", b)

\* A queue of capacity n with the values pushed to it.
Filled(o, n, values) == <<New(o, n)>> \o Pushes(o, values)

-----------------------------------------------------------------------------
\* bounded_queue_default_behavior_suite.cpp

test_queue_constructor_for_capacity_zero_throws == <<Throws(New(queue, 0), "invalid_argument")>>
test_int_queue_of_capacity_thousand_is_empty == <<New(queue, 1000), Empty(queue, TRUE)>>
test_const_int_queue_of_capacity_thousand_is_not_full == <<New(queue, 1000), Full(queue, FALSE)>>
test_int_queue_of_capacity_thousand_has_size_zero == <<New(queue, 1000), Size(queue, 0)>>
test_empty_bounded_queue_returns_false_on_try_pop ==
    <<New(queue, 23), Returns(TryPop(queue), FALSE)>>
test_full_bounded_queue_returns_false_on_try_push_const_lvalue ==
    <<New(queue, 1), PushLvalue(queue, 23), Returns(TryPush(queue, 23), FALSE)>>
\* try_push has no overload for an rvalue.
test_full_bounded_queue_returns_false_on_try_push_rvalue ==
    test_full_bounded_queue_returns_false_on_try_push_const_lvalue
test_empty_bounded_queue_returns_false_on_try_pop_for ==
    <<New(queue, 23), Returns(TryPopFor(queue), FALSE)>>
test_full_bounded_queue_returns_false_on_try_push_for_const_lvalue ==
    <<New(queue, 1), PushLvalue(queue, 23), Returns(TryPushFor(queue, 23), FALSE)>>

make_suite_bounded_queue_default_behavior_suite ==
    <<test_int_queue_of_capacity_thousand_is_empty,
      test_queue_constructor_for_capacity_zero_throws,
      test_const_int_queue_of_capacity_thousand_is_not_full,
      test_int_queue_of_capacity_thousand_has_size_zero,
      test_empty_bounded_queue_returns_false_on_try_pop,
      test_full_bounded_queue_returns_false_on_try_push_const_lvalue,
      test_full_bounded_queue_returns_false_on_try_push_rvalue,
      test_empty_bounded_queue_returns_false_on_try_pop_for,
      test_full_bounded_queue_returns_false_on_try_push_for_const_lvalue>>

-----------------------------------------------------------------------------
\* bounded_queue_content_suite.cpp

test_queue_is_not_empty_after_push_rvalue == Filled(queue, 5, <<5>>) \o <<Empty(queue, FALSE)>>
test_queue_is_not_empty_after_push_lvalue ==
    <<New(queue, 5), PushLvalue(queue, 5), Empty(queue, FALSE)>>
test_queue_is_empty_after_one_push_and_pop ==
    Filled(queue, 5, <<5>>) \o <<Pop(queue), Empty(queue, TRUE)>>
test_queue_of_size_two_is_full_after_two_pushs ==
    <<New(queue, 2)>> \o Times(2, <<Push(queue, 5)>>) \o <<Full(queue, TRUE)>>
test_queue_size_is_one_after_push == Filled(queue, 2, <<1>>) \o <<Size(queue, 1)>>
test_queue_size_is_fifty_after_fifty_pushs ==
    <<New(queue, 75)>> \o Times(50, <<Push(queue, 5)>>) \o <<Size(queue, 50)>>
test_queue_pop_gets_first_element_of_pushs == Filled(queue, 5, <<1, 2>>) \o <<Is(Pop(queue), 1)>>

\* Values are pushed; 0 stands for a pop whose result is noted.
PushAndNote(values) ==
    [k \in DOMAIN values |-> IF values[k] = 0 THEN Note(Pop(queue)) ELSE Push(queue, values[k])]
test_queue_pop_in_sequence_of_push ==
    <<New(queue, 5)>> \o PushAndNote(<<1, 2, 0, 3, 4, 0, 0, 5, 0, 0>>)
    \o <<Noted(<<1, 2, 3, 4, 5>>)>>
test_queue_wrap_around_behavior_pop ==
    <<New(queue, 3)>> \o PushAndNote(<<1, 2, 0, 0, 3, 4, 5, 0, 0, 0, 6, 7, 0, 0>>)
    \o <<Noted(<<1, 2, 3, 4, 5, 6, 7>>)>>

Swapped(o, r) == <<New(queue, 5), New(other, 5)>> \o Pushes(queue, <<1, 2, 3>>)
                 \o <<Swap(o, r)>> \o Times(3, <<Note(Pop(other))>>) \o <<Noted(<<1, 2, 3>>)>>
test_queue_after_swap_this_has_argument_content == Swapped(other, queue)
test_queue_after_swap_argument_has_this_content == Swapped(queue, other)

make_suite_bounded_queue_content_suite ==
    <<test_queue_is_not_empty_after_push_rvalue,
      test_queue_is_not_empty_after_push_lvalue,
      test_queue_is_empty_after_one_push_and_pop,
      test_queue_of_size_two_is_full_after_two_pushs,
      test_queue_size_is_one_after_push,
      test_queue_size_is_fifty_after_fifty_pushs,
      test_queue_pop_gets_first_element_of_pushs,
      test_queue_pop_in_sequence_of_push,
      test_queue_wrap_around_behavior_pop,
      test_queue_after_swap_this_has_argument_content,
      test_queue_after_swap_argument_has_this_content>>

-----------------------------------------------------------------------------
\* bounded_queue_semantic_suite.cpp

\* A queue with one element, copied or moved in, and an empty one.
PushedLvalue == <<New(queue, 1), PushLvalue(queue, 0)>>
PushedRvalue == <<New(queue, 1), Push(queue, 0)>>
test_queue_push_copies_element == PushedLvalue \o <<Counts(Pop(queue), 1, 1)>>
test_queue_push_moves_element == PushedRvalue \o <<Counts(Pop(queue), 2, 0)>>
test_element_in_queue_is_copied_along_copy_constructor ==
    PushedLvalue \o <<CopyConstruct(other, queue), Counts(Pop(other), 1, 2)>>
test_element_in_queue_is_copied_along_assignment_operator ==
    <<New(other, 1)>> \o PushedLvalue \o <<CopyAssign(other, queue), Counts(Pop(other), 1, 2)>>
test_element_in_queue_is_moved_along_move_constructor ==
    PushedRvalue \o <<MoveConstruct(other, queue), Counts(Pop(other), 2, 0)>>
test_element_in_queue_is_moved_along_assignment_operator ==
    <<New(other, 1)>> \o PushedRvalue \o <<MoveAssign(other, queue), Counts(Pop(other), 2, 0)>>

Chain == <<New(other, 1), New(third, 1), New(fourth, 1)>>
test_element_in_queue_is_copied_along_assignment_operator_multiple_copies ==
    Chain \o PushedLvalue \o <<CopyAssign(other, queue), CopyAssign(third, other),
                               CopyAssign(fourth, third), Counts(Pop(fourth), 1, 4)>>
test_element_in_queue_is_moved_along_assignment_operator_multiple_moves ==
    Chain \o PushedRvalue \o <<MoveAssign(third, queue), MoveAssign(other, third),
                               MoveAssign(fourth, other), Counts(Pop(fourth), 2, 0)>>

\* The pop is called on the result of the assignment, which is its target.
test_element_queue_copy_is_returned_from_assignment ==
    test_element_in_queue_is_copied_along_assignment_operator
test_element_queue_moved_is_returned_from_assignment ==
    test_element_in_queue_is_moved_along_assignment_operator

TwoMoreFill(script) == Filled(queue, 4, <<0, 0>>) \o script \o Pushes(other, <<0, 0>>)
                       \o <<Full(other, TRUE)>>
test_capacity_is_copied_in_ctor == TwoMoreFill(<<CopyConstruct(other, queue)>>)
test_capacity_is_copied_in_assignment == TwoMoreFill(<<New(other, 1), CopyAssign(other, queue)>>)
test_capacity_is_moved_in_ctor == TwoMoreFill(<<MoveConstruct(other, queue)>>)
test_capacity_is_moved_in_assignment == TwoMoreFill(<<New(other, 1), MoveAssign(other, queue)>>)

make_suite_bounded_queue_semantic_suite ==
    <<test_queue_push_moves_element,
      test_queue_push_copies_element,
      test_element_in_queue_is_copied_along_copy_constructor,
      test_element_in_queue_is_copied_along_assignment_operator,
      test_element_in_queue_is_moved_along_move_constructor,
      test_element_in_queue_is_moved_along_assignment_operator,
      test_element_in_queue_is_copied_along_assignment_operator_multiple_copies,
      test_element_in_queue_is_moved_along_assignment_operator_multiple_moves,
      test_element_queue_copy_is_returned_from_assignment,
      test_element_queue_moved_is_returned_from_assignment,
      test_capacity_is_copied_in_ctor,
      test_capacity_is_copied_in_assignment,
      test_capacity_is_moved_in_ctor,
      test_capacity_is_moved_in_assignment>>

-----------------------------------------------------------------------------
\* bounded_queue_student_suite.cpp

test_usable_after_move_construction ==
    <<New(queue, 1), MoveConstruct(other, queue), Empty(queue, TRUE), Push(queue, 1), Size(queue, 1)>>

make_suite_bounded_queue_student_suite ==
    <<test_usable_after_move_construction>>

-----------------------------------------------------------------------------
\* bounded_queue_heap_memory_suite.cpp

NoArrays(script) == <<Reset>> \o script \o <<Counted("arrays", 0)>>
test_allocation_of_default_bounded_queue == NoArrays(<<New(queue, 2), EndOfScope(queue)>>)
test_deallocation_of_default_bounded_queue == test_allocation_of_default_bounded_queue
test_no_undeleted_allocation_on_exception == NoArrays(<<Throws(New(queue, 0), "invalid_argument")>>)
test_copy_constructor_allocates_a_new_queue == NoArrays(<<New(queue, 15), CopyConstruct(other, queue)>>)
test_move_constructor_does_not_allocate_a_new_queue ==
    NoArrays(<<New(queue, 15), MoveConstruct(other, queue)>>)

TwoElements == Filled(queue, 3, <<0, 0>>)
test_copy_assignment_one_additional_allocation ==
    NoArrays(<<New(other, 2)>> \o TwoElements \o <<CopyAssign(other, queue)>>)
test_move_assignment_no_additional_allocation ==
    NoArrays(<<New(other, 2)>> \o TwoElements \o <<MoveAssign(other, queue)>>)
test_copy_self_assignment_no_additional_allocation == NoArrays(TwoElements \o <<CopyAssign(queue, queue)>>)
test_move_self_assignment_no_addtional_allocation == NoArrays(TwoElements \o <<MoveAssign(queue, queue)>>)

\* 50 of 100 slots hold an element, across the end of the memory.
Around == <<New(queue, 100)>> \o Times(100, <<Push(queue, 0)>>) \o Times(75, <<Pop(queue)>>)
          \o Times(25, <<Push(queue, 0)>>)
test_copy_only_initialized_elements_in_copy_construction ==
    <<Reset>> \o Around \o <<CopyConstruct(other, queue), Counted("copies", 50)>>
test_copy_only_initialized_elements_in_copy_assignment ==
    <<Reset, New(other, 1)>> \o Around \o <<CopyAssign(other, queue), Counted("copies", 50)>>

make_suite_bounded_queue_heap_memory_suite ==
    <<test_allocation_of_default_bounded_queue,
      test_deallocation_of_default_bounded_queue,
      test_no_undeleted_allocation_on_exception,
      test_copy_constructor_allocates_a_new_queue,
      test_copy_self_assignment_no_additional_allocation,
      test_move_self_assignment_no_addtional_allocation,
      test_copy_only_initialized_elements_in_copy_construction,
      test_copy_only_initialized_elements_in_copy_assignment,
      test_move_constructor_does_not_allocate_a_new_queue,
      test_copy_assignment_one_additional_allocation,
      test_move_assignment_no_additional_allocation>>

-----------------------------------------------------------------------------
\* bounded_queue_non_default_constructible_element_type_suite.cpp

\* A queue with one element, after which the counters are reset.
OneElement == <<New(queue, 5), Push(queue, 23), Reset>>
test_new_queue_of_nondefaultconstructible_invokes_no_destructors ==
    <<Reset, New(queue, 5), Counted("destroyed", 0)>>
test_element_in_queue_is_destroyed_once == OneElement \o <<EndOfScope(queue), Counted("destroyed", 1)>>
test_element_in_moved_queue_is_destroyed_once ==
    OneElement \o <<MoveConstruct(other, queue), EndOfScope(other), EndOfScope(queue),
                    Counted("destroyed", 1)>>
test_every_element_in_copied_queue_is_destroyed_once ==
    OneElement \o <<CopyConstruct(other, queue), EndOfScope(other), EndOfScope(queue),
                    Counted("destroyed", 2)>>
test_pop_destroys_element == OneElement \o <<Pop(queue), Counted("destroyed", 1)>>
test_lvalue_push_copies_element == <<Reset, New(queue, 5), PushLvalue(queue, 23), Counted("copies", 1)>>
test_rvalue_push_moves_element == <<Reset, New(queue, 5), Push(queue, 23), Counted("moves", 1)>>
test_lvalue_push_must_not_copy_assign ==
    <<New(queue, 5), Reset, PushLvalue(queue, 23), Counted("assigned", 0)>>
test_rvalue_push_must_not_move_assign == <<New(queue, 5), Reset, Push(queue, 23), Counted("assigned", 0)>>
test_self_copy_assignment_unchanged_size == OneElement \o <<CopyAssign(queue, queue), Size(queue, 1)>>
test_self_move_assignment_unchanged_size == OneElement \o <<MoveAssign(queue, queue), Size(queue, 1)>>
test_self_copy_assignment_no_copy_construction ==
    OneElement \o <<CopyAssign(queue, queue), Counted("copies", 0)>>
test_self_move_assignment_no_move_construction ==
    OneElement \o <<MoveAssign(queue, queue), Counted("moves", 0)>>
test_copy_assignment_deletes_previous_elements ==
    <<New(other, 5)>> \o OneElement \o <<CopyAssign(queue, other), Counted("destroyed", 1)>>
test_move_assignment_deletes_previous_elements_upon_destruction ==
    <<New(other, 5)>> \o OneElement
    \o <<MoveAssign(queue, other), EndOfScope(other), EndOfScope(queue), Counted("destroyed", 1)>>

make_suite_bounded_queue_non_default_constructible_element_type_suite ==
    <<test_new_queue_of_nondefaultconstructible_invokes_no_destructors,
      test_element_in_queue_is_destroyed_once,
      test_element_in_moved_queue_is_destroyed_once,
      test_every_element_in_copied_queue_is_destroyed_once,
      test_pop_destroys_element,
      test_lvalue_push_copies_element,
      test_rvalue_push_moves_element,
      test_lvalue_push_must_not_copy_assign,
      test_rvalue_push_must_not_move_assign,
      test_self_move_assignment_unchanged_size,
      test_self_copy_assignment_unchanged_size,
      test_self_copy_assignment_no_copy_construction,
      test_self_move_assignment_no_move_construction,
      test_copy_assignment_deletes_previous_elements,
      test_move_assignment_deletes_previous_elements_upon_destruction>>

-----------------------------------------------------------------------------
\* bounded_queue_single_threaded_lock_suite.cpp

\* A queue whose mutex fails the first tries of try_lock(), and whose condition
\* variables want waits and notifies when they are destroyed, if check says so.
LockQueue(o, n, tries, waits, notifies, check) ==
    [New(o, n) EXCEPT !.args = <<[tries |-> tries, waits |-> waits, notifies |-> notifies, check |-> check]>>]
Counting(n, waits, notifies) == <<LockQueue(queue, n, 0, waits, notifies, FALSE)>>

\* The locks are counted during item.
During(prepare, item, what, n) == prepare \o <<Reset, item, Counted(what, n)>>

PushCase == Counting(5, 1, 1)
test_push_rvalue_aquires_lock == During(PushCase, Push(queue, 1), "lock", 1)
test_push_rvalue_releases_lock == During(PushCase, Push(queue, 1), "unlock", 1)
test_push_lvalue_aquires_lock == During(PushCase, PushLvalue(queue, 1), "lock", 1)
test_push_lvalue_releases_lock == During(PushCase, PushLvalue(queue, 1), "unlock", 1)
PopCase == Counting(5, 1, 1) \o <<Push(queue, 1)>>
test_pop_aquires_lock == During(PopCase, Pop(queue), "lock", 1)
test_pop_releases_lock == During(PopCase, Pop(queue), "unlock", 1)

\* empty(), full() and size() each look at the queue under the lock.
Quiet == Counting(5, 0, 0)
Look == Do("observe", queue)
test_empty_aquires_lock == During(Quiet, Look, "lock", 1)
test_empty_releases_lock == During(Quiet, Look, "unlock", 1)
test_full_aquires_lock == test_empty_aquires_lock
test_full_releases_lock == test_empty_releases_lock
test_size_aquires_lock == test_empty_aquires_lock
test_size_releases_lock == test_empty_releases_lock

TwoLockQueues(tries, waits, notifies) ==
    <<LockQueue(queue, 5, tries, waits, notifies, FALSE), LockQueue(other, 4, tries, waits, notifies, FALSE)>>
test_swap_aquires_both_locks == During(TwoLockQueues(0, 0, 0), Swap(queue, other), "acquired", 2)
test_swap_releases_two_locks == During(TwoLockQueues(0, 0, 0), Swap(queue, other), "unlock", 2)
test_swap_aquires_tries_multiple_times_to_try_lock ==
    During(TwoLockQueues(3, 0, 0), Swap(queue, other), "try_lock", 4)
test_swap_successful_after_delayed_lock ==
    TwoLockQueues(1, 1, 1) \o <<Push(other, 17), Reset, Swap(queue, other), Is(Pop(queue), 17)>>

TryCase == Counting(5, 0, 1)
test_try_push_lvalue_aquires_lock == During(TryCase, TryPush(queue, 1), "lock", 1)
test_try_push_lvalue_releases_lock == During(TryCase, TryPush(queue, 1), "unlock", 1)
test_try_push_rvalue_aquires_lock == test_try_push_lvalue_aquires_lock
test_try_push_rvalue_releases_lock == test_try_push_lvalue_releases_lock
test_try_pop_aquires_lock == During(TryCase \o <<Push(queue, 1)>>, TryPop(queue), "lock", 1)
test_try_pop_releases_lock == During(TryCase \o <<Push(queue, 1)>>, TryPop(queue), "unlock", 1)

Checked == LockQueue(queue, 5, 0, 0, 0, TRUE)
test_no_lock_on_size_constructor == <<Reset, Checked, Counted("lock", 0)>>
test_no_unlock_on_size_constructor == <<Reset, Checked, Counted("unlock", 0)>>

\* same_locks_and_unlocks()
Symmetric == Expect(Do("count", "balance"), "number", 0)
test_symmetric_lock_and_unlock_on_copy_constructor ==
    <<Checked, Reset, CopyConstruct(other, queue), Symmetric>>
test_symmetric_lock_and_unlock_on_move_constructor ==
    <<Checked, Reset, MoveConstruct(other, queue), Symmetric>>
test_symmetric_lock_and_unlock_on_copy_assignment ==
    TwoLockQueues(0, 0, 1) \o <<Reset, CopyAssign(other, queue), Symmetric>>
test_symmetric_lock_and_unlock_on_move_assignment ==
    TwoLockQueues(0, 0, 0) \o <<Reset, MoveAssign(other, queue), Symmetric>>

test_try_push_for_aquires_lock_on_empty_queue == During(PushCase, TryPushFor(queue, 1), "lock", 1)
test_try_push_for_releases_lock_on_empty_queue == During(PushCase, TryPushFor(queue, 1), "unlock", 1)
test_try_pop_for_aquires_lock_on_empty_queue == During(Counting(5, 1, 0), TryPopFor(queue), "lock", 2)
test_try_pop_for_releases_lock_on_empty_queue == During(Counting(5, 1, 0), TryPopFor(queue), "unlock", 2)
FullCase == Counting(1, 1, 0) \o <<Push(queue, 1)>>
test_try_push_for_aquires_lock_on_full_queue == During(FullCase, TryPushFor(queue, 1), "lock", 2)
test_try_push_for_releases_lock_on_full_queue == During(FullCase, TryPushFor(queue, 1), "unlock", 2)
\* These two push as well, a zero.
test_try_pop_for_aquires_lock_on_full_queue == During(FullCase, TryPushFor(queue, 0), "lock", 2)
test_try_pop_for_releases_lock_on_full_queue == During(FullCase, TryPushFor(queue, 0), "unlock", 2)

make_suite_bounded_queue_single_threaded_lock_suite ==
    <<test_push_rvalue_aquires_lock,
      test_push_rvalue_releases_lock,
      test_push_lvalue_aquires_lock,
      test_push_lvalue_releases_lock,
      test_pop_aquires_lock,
      test_pop_releases_lock,
      test_empty_aquires_lock,
      test_empty_releases_lock,
      test_full_aquires_lock,
      test_full_releases_lock,
      test_size_aquires_lock,
      test_size_releases_lock,
      test_swap_aquires_both_locks,
      test_swap_releases_two_locks,
      test_try_push_rvalue_aquires_lock,
      test_try_push_rvalue_releases_lock,
      test_try_push_lvalue_aquires_lock,
      test_try_push_lvalue_releases_lock,
      test_try_pop_aquires_lock,
      test_try_pop_releases_lock,
      test_swap_aquires_tries_multiple_times_to_try_lock,
      test_swap_successful_after_delayed_lock,
      test_no_lock_on_size_constructor,
      test_no_unlock_on_size_constructor,
      test_symmetric_lock_and_unlock_on_copy_constructor,
      test_symmetric_lock_and_unlock_on_move_constructor,
      test_symmetric_lock_and_unlock_on_copy_assignment,
      test_symmetric_lock_and_unlock_on_move_assignment,
      test_try_push_for_aquires_lock_on_empty_queue,
      test_try_push_for_releases_lock_on_empty_queue,
      test_try_pop_for_aquires_lock_on_empty_queue,
      test_try_pop_for_releases_lock_on_empty_queue,
      test_try_push_for_aquires_lock_on_full_queue,
      test_try_push_for_releases_lock_on_full_queue,
      test_try_pop_for_aquires_lock_on_full_queue,
      test_try_pop_for_releases_lock_on_full_queue>>

-----------------------------------------------------------------------------
\* bounded_queue_multi_threaded_suite.cpp

\* Bounds: a thread has Slice elements where the tests have 500 or 1000, there
\* are two producers and two consumers at most where the tests have ten, and a
\* queue of capacity 10 has Capacity.
CONSTANTS Slice, Capacity

\* std::async, launchProducer, launchConsumer; future::wait_for and get.
Async(t, script) == [Do("async", t) EXCEPT !.args = script]
launchProducer(t, start, end) == Async(t, Pushes(queue, Consecutive(start, end - start)))
launchConsumer(t, n) == Async(t, Times(n, <<Pop(queue)>>))
WaitFor(t) == Do("wait_for", t)
Popped(consumers, values) == Expect([Do("popped", queue) EXCEPT !.args = consumers], "number", values)
combine_and_sort(consumers, values) ==
    Expect([Do("sorted", queue) EXCEPT !.args = consumers], "number", values)

test_one_producer_and_one_consumer ==
    <<New(queue, 1), launchProducer("producer1", 0, 2 * Slice), launchConsumer("consumer1", 2 * Slice),
      WaitFor("producer1"), WaitFor("consumer1"),
      Popped(<<"consumer1">>, Consecutive(0, 2 * Slice))>>
test_two_producers_and_one_consumer ==
    <<New(queue, Capacity), launchProducer("producer1", 0, Slice),
      launchProducer("producer2", Slice, 2 * Slice), launchConsumer("consumer1", 2 * Slice),
      WaitFor("producer1"), WaitFor("producer2"), WaitFor("consumer1"),
      combine_and_sort(<<"consumer1">>, Consecutive(0, 2 * Slice))>>
test_one_producer_two_consumers ==
    <<New(queue, Capacity), launchProducer("producer1", 0, 2 * Slice), launchConsumer("consumer1", Slice),
      launchConsumer("consumer2", Slice), WaitFor("producer1"), WaitFor("consumer1"), WaitFor("consumer2"),
      combine_and_sort(<<"consumer1", "consumer2">>, Consecutive(0, 2 * Slice))>>
test_ten_producers_ten_consumers ==
    <<New(queue, Capacity),
      launchProducer("producer1", 0, Slice), launchConsumer("consumer1", Slice),
      launchProducer("producer2", Slice, 2 * Slice), launchConsumer("consumer2", Slice),
      WaitFor("producer1"), WaitFor("producer2"), WaitFor("consumer1"), WaitFor("consumer2"),
      combine_and_sort(<<"consumer1", "consumer2">>, Consecutive(0, 2 * Slice))>>

\* The thread sleeps before its operation: any order is possible.
test_blocked_produced_unblocks ==
    <<New(queue, 1), Push(queue, 1), Async("consumer1", <<Pop(queue)>>), Push(queue, 2),
      Is(Pop(queue), 2)>>
test_blocked_consumer_unblocks ==
    <<New(queue, 1), Async("producer1", <<Push(queue, 1)>>), Is(Pop(queue), 1)>>

make_suite_bounded_queue_multi_threaded_suite ==
    <<test_one_producer_and_one_consumer,
      test_two_producers_and_one_consumer,
      test_one_producer_two_consumers,
      test_ten_producers_ten_consumers,
      test_blocked_produced_unblocks,
      test_blocked_consumer_unblocks>>

-----------------------------------------------------------------------------
\* runAllTests
Program ==
    <<make_suite_bounded_queue_default_behavior_suite,
      make_suite_bounded_queue_content_suite,
      make_suite_bounded_queue_semantic_suite,
      make_suite_bounded_queue_student_suite,
      make_suite_bounded_queue_heap_memory_suite,
      make_suite_bounded_queue_non_default_constructible_element_type_suite,
      make_suite_bounded_queue_single_threaded_lock_suite,
      make_suite_bounded_queue_multi_threaded_suite>>

\* The place of test_swap_aquires_tries_multiple_times_to_try_lock.
TriesTest == <<7, 21>>
=============================================================================
