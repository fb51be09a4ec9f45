----------------------------- MODULE ArrayTests -----------------------------
(***************************************************************************)
(* The test suites of ExW3, test by test, and the suites in the order in   *)
(* which Test.cpp runs them.  The signature suite is left out: it compares *)
(* the names of types, which the compiler has decided.                     *)
(***************************************************************************)
EXTENDS TestScripts

\* A buffer of class n with the values pushed to it.
Filled(o, n, values) == <<New(o, n)>> \o Pushes(o, values)
OneFive == Filled(buffer, 5, <<5>>)
OneTwo == Filled(buffer, 5, <<1, 2>>)

-----------------------------------------------------------------------------
\* bounded_buffer_default_behavior_suite.cpp

test_default_constructed_const_int_buffer_of_size_thousand_is_empty ==
    <<New(buffer, 1000), Empty(buffer, TRUE)>>
test_default_constructed_const_int_buffer_of_size_zero_is_empty ==
    <<New(buffer, 0), Empty(buffer, TRUE)>>
test_default_constructed_const_int_buffer_of_size_thousand_is_not_full ==
    <<New(buffer, 1000), Full(buffer, FALSE)>>
test_default_constructed_const_int_buffer_of_size_zero_is_full ==
    <<New(buffer, 0), Full(buffer, TRUE)>>
test_default_constructed_const_int_buffer_of_size_thousand_has_size_zero ==
    <<New(buffer, 1000), Empty(buffer, TRUE)>>
test_default_constructed_const_int_buffer_of_size_zero_has_size_zero ==
    <<New(buffer, 0), Size(buffer, 0)>>
test_empty_bounded_buffer_throws_on_front == <<New(buffer, 23), Throws(Front(buffer), "logic_error")>>
test_empty_const_bounded_buffer_throws_on_front == test_empty_bounded_buffer_throws_on_front
test_empty_bounded_buffer_throws_on_back == <<New(buffer, 23), Throws(Back(buffer), "logic_error")>>
test_empty_const_bounded_buffer_throws_on_back == test_empty_bounded_buffer_throws_on_back
test_empty_bounded_buffer_throws_on_pop == <<New(buffer, 23), Throws(Pop(buffer), "logic_error")>>
test_full_bounded_buffer_throws_on_push_const_lvalue ==
    <<New(buffer, 0), Throws(PushLvalue(buffer, 23), "logic_error")>>
test_full_bounded_buffer_throws_on_push_rvalue ==
    <<New(buffer, 0), Throws(Push(buffer, 23), "logic_error")>>

make_suite_bounded_buffer_default_behavior_suite ==
    <<test_default_constructed_const_int_buffer_of_size_thousand_is_empty,
      test_default_constructed_const_int_buffer_of_size_zero_is_empty,
      test_default_constructed_const_int_buffer_of_size_thousand_is_not_full,
      test_default_constructed_const_int_buffer_of_size_zero_is_full,
      test_default_constructed_const_int_buffer_of_size_thousand_has_size_zero,
      test_default_constructed_const_int_buffer_of_size_zero_has_size_zero,
      test_empty_bounded_buffer_throws_on_front,
      test_empty_const_bounded_buffer_throws_on_front,
      test_empty_bounded_buffer_throws_on_back,
      test_empty_const_bounded_buffer_throws_on_back,
      test_empty_bounded_buffer_throws_on_pop,
      test_full_bounded_buffer_throws_on_push_const_lvalue,
      test_full_bounded_buffer_throws_on_push_rvalue>>

-----------------------------------------------------------------------------
\* bounded_buffer_content_suite.cpp

test_buffer_is_not_empty_after_push_rvalue == OneFive \o <<Empty(buffer, FALSE)>>
test_buffer_is_not_empty_after_push_lvalue ==
    <<New(buffer, 5), PushLvalue(buffer, 5), Empty(buffer, FALSE)>>
test_buffer_is_empty_after_one_push_and_pop == OneFive \o <<Pop(buffer), Empty(buffer, TRUE)>>
test_buffer_of_size_two_is_full_after_two_pushs ==
    <<New(buffer, 2)>> \o Times(2, <<Push(buffer, 5)>>) \o <<Full(buffer, TRUE)>>
test_buffer_size_is_one_after_push == <<New(buffer, 2), Push(buffer, 1), Size(buffer, 1)>>
test_buffer_size_is_fifty_after_fifty_pushs ==
    <<New(buffer, 75)>> \o Times(50, <<Push(buffer, 5)>>) \o <<Size(buffer, 50)>>
test_buffer_front_gets_element_of_push == OneFive \o <<Is(Front(buffer), 5)>>
test_buffer_back_gets_element_of_push == OneFive \o <<Is(Back(buffer), 5)>>
test_buffer_front_gets_first_element_of_pushs == OneTwo \o <<Is(Front(buffer), 1)>>
test_buffer_back_gets_last_element_of_two_pushs == OneTwo \o <<Is(Back(buffer), 2)>>
test_buffer_front_throws_after_push_pop ==
    OneFive \o <<Pop(buffer), Throws(Front(buffer), "logic_error")>>
test_buffer_back_throws_after_push_pop ==
    OneFive \o <<Pop(buffer), Throws(Back(buffer), "logic_error")>>

\* The same through a reference to const.
test_const_buffer_front_gets_element_of_push == test_buffer_front_gets_element_of_push
test_const_buffer_back_gets_element_of_push == test_buffer_back_gets_element_of_push
test_const_buffer_front_gets_first_element_of_pushs == test_buffer_front_gets_first_element_of_pushs
test_const_buffer_back_gets_last_element_of_two_pushs == test_buffer_back_gets_last_element_of_two_pushs
test_const_buffer_front_throws_after_push_pop == test_buffer_front_throws_after_push_pop
test_const_buffer_back_throws_after_push_pop == test_buffer_back_throws_after_push_pop

\* Values are pushed, 0 stands for a pop; what item sees is noted after each.
Observing(values, item) ==
    InOrder([k \in DOMAIN values |->
        <<IF values[k] = 0 THEN Pop(buffer) ELSE Push(buffer, values[k]), Note(item)>>])

test_buffer_fronts_in_sequence_of_push_pop ==
    <<New(buffer, 5)>> \o Observing(<<1, 2, 3, 0, 4, 0, 0, 5, 0>>, Front(buffer))
    \o <<Noted(<<1, 1, 1, 2, 2, 3, 4, 4, 5>>)>>
test_buffer_wrap_around_behavior_front ==
    <<New(buffer, 3)>> \o Observing(<<1, 2, 0, 3, 4, 0, 0, 5, 0, 6, 7, 0, 0>>, Front(buffer))
    \o <<Noted(<<1, 1, 2, 2, 2, 3, 4, 4, 5, 5, 5, 6, 7>>)>>
test_buffer_wrap_around_behavior_back ==
    <<New(buffer, 3)>> \o Observing(<<1, 2, 0, 3, 4, 0, 0, 5, 0, 6, 7, 0, 0>>, Back(buffer))
    \o <<Noted(<<1, 2, 2, 3, 4, 4, 4, 5, 5, 6, 7, 7, 7>>)>>

TwoBuffers == <<New(buffer, 5), New(other, 5)>> \o Pushes(buffer, <<1, 2, 3>>)
DrainThree(o) == Times(3, <<Note(Front(o)), Pop(o)>>) \o <<Noted(<<1, 2, 3>>)>>
test_buffer_after_swap_this_has_argument_content ==
    TwoBuffers \o <<Swap(other, buffer)>> \o DrainThree(other)
test_buffer_after_swap_argument_has_this_content ==
    TwoBuffers \o <<Swap(buffer, other)>> \o DrainThree(other)

make_suite_bounded_buffer_content_suite ==
    <<test_buffer_is_not_empty_after_push_rvalue,
      test_buffer_is_not_empty_after_push_lvalue,
      test_buffer_is_empty_after_one_push_and_pop,
      test_buffer_of_size_two_is_full_after_two_pushs,
      test_buffer_size_is_one_after_push,
      test_buffer_size_is_fifty_after_fifty_pushs,
      test_buffer_front_gets_element_of_push,
      test_buffer_back_gets_element_of_push,
      test_buffer_front_gets_first_element_of_pushs,
      test_buffer_back_gets_last_element_of_two_pushs,
      test_buffer_front_throws_after_push_pop,
      test_buffer_back_throws_after_push_pop,
      test_const_buffer_front_gets_element_of_push,
      test_const_buffer_back_gets_element_of_push,
      test_const_buffer_front_gets_first_element_of_pushs,
      test_const_buffer_back_gets_last_element_of_two_pushs,
      test_const_buffer_front_throws_after_push_pop,
      test_const_buffer_back_throws_after_push_pop,
      test_buffer_fronts_in_sequence_of_push_pop,
      test_buffer_wrap_around_behavior_front,
      test_buffer_wrap_around_behavior_back,
      test_buffer_after_swap_this_has_argument_content,
      test_buffer_after_swap_argument_has_this_content>>

-----------------------------------------------------------------------------
\* bounded_buffer_semantic_suite.cpp

Fresh == Counter(0, 0, TRUE)
Copying(o) == [Do("push", o) EXCEPT !.args = <<LValue(Fresh)>>]
Moving(o) == [Do("push", o) EXCEPT !.args = <<RValue(Fresh)>>]
News(objects) == [k \in DOMAIN objects |-> New(objects[k], 1)]

test_buffer_push_copies_element == <<New(buffer, 1), Copying(buffer), Counts(Front(buffer), 0, 1)>>
test_buffer_push_moves_element == <<New(buffer, 1), Moving(buffer), Counts(Front(buffer), 1, 0)>>
test_element_in_buffer_is_copied_along_copy_constructor ==
    <<New(buffer, 1), Copying(buffer), CopyConstruct(other, buffer), Counts(Front(other), 0, 2)>>
test_element_in_buffer_is_copied_along_assignment_operator ==
    News(<<buffer, other>>)
    \o <<Copying(buffer), CopyAssign(other, buffer), Counts(Front(other), 0, 2)>>
test_element_in_buffer_is_moved_along_move_constructor ==
    <<New(buffer, 1), Moving(buffer), MoveConstruct(other, buffer), Counts(Front(other), 2, 0)>>
test_element_in_buffer_is_moved_along_assignment_operator ==
    News(<<buffer, other>>)
    \o <<Moving(buffer), MoveAssign(other, buffer), Counts(Front(other), 2, 0)>>
test_element_in_buffer_is_copied_along_assignment_operator_multiple_copies ==
    News(<<buffer, third, fourth, other>>)
    \o <<Copying(buffer), CopyAssign(third, buffer), CopyAssign(fourth, third),
         CopyAssign(other, fourth), Counts(Front(other), 0, 4)>>
test_element_in_buffer_is_moved_along_assignment_operator_multiple_moves ==
    News(<<buffer, third, fourth, other>>)
    \o <<Moving(buffer), MoveAssign(fourth, buffer), MoveAssign(third, fourth),
         MoveAssign(other, third), Counts(Front(other), 4, 0)>>

make_suite_bounded_buffer_semantic_suite ==
    <<test_buffer_push_moves_element,
      test_buffer_push_copies_element,
      test_element_in_buffer_is_copied_along_copy_constructor,
      test_element_in_buffer_is_copied_along_assignment_operator,
      test_element_in_buffer_is_moved_along_move_constructor,
      test_element_in_buffer_is_moved_along_assignment_operator,
      test_element_in_buffer_is_copied_along_assignment_operator_multiple_copies,
      test_element_in_buffer_is_moved_along_assignment_operator_multiple_moves>>

-----------------------------------------------------------------------------
\* bounded_buffer_make_buffer_suite.cpp

R == RValue(Fresh)
L == LValue(Fresh)
MakeOf(n, args) == [MakeBuffer(buffer, args) EXCEPT !.n = n]
Made(args, check) == <<MakeOf(15, args), check>>

test_make_bounded_buffer_from_rvalue_argument_contains_one_element == Made(<<R>>, Size(buffer, 1))
test_make_bounded_buffer_from_rvalue_argument_object_moved ==
    Made(<<R>>, Counts(Front(buffer), 1, 0))
test_bounded_buffer_constructed_with_lvalue_argument_object_copied ==
    Made(<<L>>, Counts(Front(buffer), 0, 1))
test_bounded_buffer_constructed_with_const_lvalue_argument_object_copied ==
    Made(<<L>>, Counts(Front(buffer), 0, 1))
test_make_bounded_buffer_from_two_rvalue_arguments_contains_two_elements ==
    Made(<<R, R>>, Size(buffer, 2))
test_make_bounded_buffer_from_two_lvalue_arguments_contains_two_elements ==
    Made(<<L, L>>, Size(buffer, 2))
test_make_bounded_buffer_from_too_many_elements_throws ==
    <<Throws(MakeOf(1, <<RValue(Value(1)), RValue(Value(2))>>), "invalid_argument")>>
test_make_bounded_buffer_from_two_rvalue_arguments_first_element_moved ==
    Made(<<R, R>>, Counts(Front(buffer), 1, 0))
test_make_bounded_buffer_from_two_rvalue_arguments_second_element_moved ==
    Made(<<R, R>>, Counts(Back(buffer), 1, 0))
test_make_bounded_buffer_from_two_rvalue_arguments_first_element_copied ==
    Made(<<L, R>>, Counts(Front(buffer), 0, 1))
test_make_bounded_buffer_from_two_mixed_arguments_second_element_moved ==
    Made(<<L, R>>, Counts(Back(buffer), 1, 0))
test_make_bounded_buffer_from_two_rvalue_arguments_second_element_copied ==
    Made(<<R, L>>, Counts(Back(buffer), 0, 1))
test_make_bounded_buffer_from_two_mixed_arguments_first_element_moved ==
    Made(<<R, L>>, Counts(Front(buffer), 1, 0))

make_suite_bounded_buffer_make_buffer_suite ==
    <<test_make_bounded_buffer_from_rvalue_argument_contains_one_element,
      test_make_bounded_buffer_from_rvalue_argument_object_moved,
      test_bounded_buffer_constructed_with_lvalue_argument_object_copied,
      test_bounded_buffer_constructed_with_const_lvalue_argument_object_copied,
      test_make_bounded_buffer_from_two_rvalue_arguments_contains_two_elements,
      test_make_bounded_buffer_from_two_lvalue_arguments_contains_two_elements,
      test_make_bounded_buffer_from_too_many_elements_throws,
      test_make_bounded_buffer_from_two_rvalue_arguments_first_element_moved,
      test_make_bounded_buffer_from_two_rvalue_arguments_second_element_moved,
      test_make_bounded_buffer_from_two_rvalue_arguments_first_element_copied,
      test_make_bounded_buffer_from_two_mixed_arguments_second_element_moved,
      test_make_bounded_buffer_from_two_rvalue_arguments_second_element_copied,
      test_make_bounded_buffer_from_two_mixed_arguments_first_element_moved>>

-----------------------------------------------------------------------------
\* bounded_buffer_student_suite.cpp

testValueCtorWithLargeInput == <<NewRing(5, 19), RingIs(4)>>
testIncrement == <<NewRing(5, 1), AddRing(1), RingIs(2)>>
testIncrementOverflow == <<NewRing(5, 4), AddRing(1), RingIs(0)>>
testDecrement == <<NewRing(5, 3), SubtractRing(1), RingIs(2)>>
testDecrementUnderflow == <<NewRing(3, 0), SubtractRing(1), RingIs(2)>>
testMinus11Underflow == <<NewRing(5, 3), SubtractRing(11), RingIs(2)>>
testAddOverflow == <<NewRing(5, 3), AddRing(4), RingIs(2)>>
testZeroN == <<NewRing(0, 2), RingIs(0)>>
testZeroNIncrement == <<NewRing(0, 0), AddRing(1), RingIs(0)>>
testZeroNDecrement == <<NewRing(0, 0), SubtractRing(1), RingIs(0)>>

make_suite_bounded_buffer_student_suite ==
    <<testValueCtorWithLargeInput,
      testIncrement,
      testIncrementOverflow,
      testDecrement,
      testDecrementUnderflow,
      testMinus11Underflow,
      testAddOverflow,
      testZeroN,
      testZeroNIncrement,
      testZeroNDecrement>>

-----------------------------------------------------------------------------
\* runAllTests() of Test.cpp
Program ==
    <<make_suite_bounded_buffer_default_behavior_suite,
      make_suite_bounded_buffer_content_suite,
      make_suite_bounded_buffer_semantic_suite,
      make_suite_bounded_buffer_make_buffer_suite,
      make_suite_bounded_buffer_student_suite>>

\* The test that does not pass, by its place in the program: one that wants an
\* exception of another class.
ManyElementsTest == <<4, 7>>
=============================================================================
