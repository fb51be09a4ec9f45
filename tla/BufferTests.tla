---------------------------- MODULE BufferTests ----------------------------
(***************************************************************************)
(* The test suites of ExW7, test by test, and the suites in the order in   *)
(* which Test.cpp runs them.  The signature suite is left out: it compares *)
(* the names of types, which the compiler has decided.                     *)
(***************************************************************************)
EXTENDS TestScripts

\* A buffer of capacity n with the values pushed to it.
Filled(o, n, values) == <<New(o, n)>> \o Pushes(o, values)
OneFive == Filled(buffer, 5, <<5>>)
OneTwo == Filled(buffer, 5, <<1, 2>>)

-----------------------------------------------------------------------------
\* bounded_buffer_default_behavior_suite.cpp

test_buffer_constructor_for_capacity_zero_throws == <<Throws(New(buffer, 0), "invalid_argument")>>
test_int_buffer_of_capacity_thousand_is_empty == <<New(buffer, 1000), Empty(buffer, TRUE)>>
test_const_int_buffer_of_capacity_thousand_is_not_full == <<New(buffer, 1000), Full(buffer, FALSE)>>
test_int_buffer_of_capacity_thousand_has_size_zero == <<New(buffer, 1000), Size(buffer, 0)>>
test_empty_bounded_buffer_throws_on_front == <<New(buffer, 23), Throws(Front(buffer), "logic_error")>>
test_empty_const_bounded_buffer_throws_on_front == test_empty_bounded_buffer_throws_on_front
test_empty_bounded_buffer_throws_on_back == <<New(buffer, 23), Throws(Back(buffer), "logic_error")>>
test_empty_const_bounded_buffer_throws_on_back == test_empty_bounded_buffer_throws_on_back
test_empty_bounded_buffer_throws_on_pop == <<New(buffer, 23), Throws(Pop(buffer), "logic_error")>>
test_full_bounded_buffer_throws_on_push_const_lvalue ==
    <<New(buffer, 1), PushLvalue(buffer, 23), Throws(PushLvalue(buffer, 23), "logic_error")>>
test_full_bounded_buffer_throws_on_push_rvalue ==
    <<New(buffer, 1), PushLvalue(buffer, 23), Throws(Push(buffer, 23), "logic_error")>>

make_suite_bounded_buffer_default_behavior_suite ==
    <<test_int_buffer_of_capacity_thousand_is_empty,
      test_buffer_constructor_for_capacity_zero_throws,
      test_const_int_buffer_of_capacity_thousand_is_not_full,
      test_int_buffer_of_capacity_thousand_has_size_zero,
      test_empty_bounded_buffer_throws_on_front,
      test_empty_const_bounded_buffer_throws_on_front,
      test_empty_bounded_buffer_throws_on_back,
      test_empty_const_bounded_buffer_throws_on_back,
      test_empty_bounded_buffer_throws_on_pop,
      test_full_bounded_buffer_throws_on_push_const_lvalue,
      test_full_bounded_buffer_throws_on_push_rvalue>>

-----------------------------------------------------------------------------
\* bounded_buffer_content_suite.cpp

test_buffer_is_not_empty_after_push_rvalue == OneFive \o <<Empty(buffer, FALSE)>>
test_buffer_is_not_empty_after_push_lvalue ==
    <<New(buffer, 5), PushLvalue(buffer, 5), Empty(buffer, FALSE)>>
test_buffer_is_empty_after_one_push_and_pop == OneFive \o <<Pop(buffer), Empty(buffer, TRUE)>>
test_buffer_of_size_two_is_full_after_two_pushs ==
    <<New(buffer, 2)>> \o Times(2, <<Push(buffer, 5)>>) \o <<Full(buffer, TRUE)>>
test_buffer_size_is_one_after_push == <<New(buffer, 2), Push(buffer, 1), Size(buffer, 1)>>
test_buffer_size_is_fifty_after_fifty_pushs ==
    <<New(buffer, 75)>> \o Times(50, <<Push(buffer, 5)>>) \o <<Size(buffer, 50)>>
test_buffer_front_gets_element_of_push == OneFive \o <<Is(Front(buffer), 5)>>
test_buffer_back_gets_element_of_push == OneFive \o <<Is(Back(buffer), 5)>>
test_buffer_front_gets_first_element_of_pushs == OneTwo \o <<Is(Front(buffer), 1)>>
test_buffer_back_gets_last_element_of_two_pushs == OneTwo \o <<Is(Back(buffer), 2)>>
test_buffer_front_throws_after_push_pop ==
    OneFive \o <<Pop(buffer), Throws(Front(buffer), "logic_error")>>
test_buffer_back_throws_after_push_pop ==
    OneFive \o <<Pop(buffer), Throws(Back(buffer), "logic_error")>>

\* The same through a reference to const.
test_const_buffer_front_gets_element_of_push == test_buffer_front_gets_element_of_push
test_const_buffer_back_gets_element_of_push == test_buffer_back_gets_element_of_push
test_const_buffer_front_gets_first_element_of_pushs == test_buffer_front_gets_first_element_of_pushs
test_const_buffer_back_gets_last_element_of_two_pushs == test_buffer_back_gets_last_element_of_two_pushs
test_const_buffer_front_throws_after_push_pop == test_buffer_front_throws_after_push_pop
test_const_buffer_back_throws_after_push_pop == test_buffer_back_throws_after_push_pop

\* Values are pushed, 0 stands for a pop; what item sees is noted after each.
Observing(values, item) ==
    InOrder([k \in DOMAIN values |->
        <<IF values[k] = 0 THEN Pop(buffer) ELSE Push(buffer, values[k]), Note(item)>>])

test_buffer_fronts_in_sequence_of_push_pop ==
    <<New(buffer, 5)>> \o Observing(<<1, 2, 3, 0, 4, 0, 0, 5, 0>>, Front(buffer))
    \o <<Noted(<<1, 1, 1, 2, 2, 3, 4, 4, 5>>)>>
test_buffer_wrap_around_behavior_front ==
    <<New(buffer, 3)>> \o Observing(<<1, 2, 0, 3, 4, 0, 0, 5, 0, 6, 7, 0, 0>>, Front(buffer))
    \o <<Noted(<<1, 1, 2, 2, 2, 3, 4, 4, 5, 5, 5, 6, 7>>)>>
test_buffer_wrap_around_behavior_back ==
    <<New(buffer, 3)>> \o Observing(<<1, 2, 0, 3, 4, 0, 0, 5, 0, 6, 7, 0, 0>>, Back(buffer))
    \o <<Noted(<<1, 2, 2, 3, 4, 4, 4, 5, 5, 6, 7, 7, 7>>)>>

TwoBuffers == <<New(buffer, 5), New(other, 5)>> \o Pushes(buffer, <<1, 2, 3>>)
DrainThree(o) == Times(3, <<Note(Front(o)), Pop(o)>>) \o <<Noted(<<1, 2, 3>>)>>
test_buffer_after_swap_this_has_argument_content ==
    TwoBuffers \o <<Swap(other, buffer)>> \o DrainThree(other)
test_buffer_after_swap_argument_has_this_content ==
    TwoBuffers \o <<Swap(buffer, other)>> \o DrainThree(other)

make_suite_bounded_buffer_content_suite ==
    <<test_buffer_is_not_empty_after_push_rvalue,
      test_buffer_is_not_empty_after_push_lvalue,
      test_buffer_is_empty_after_one_push_and_pop,
      test_buffer_of_size_two_is_full_after_two_pushs,
      test_buffer_size_is_one_after_push,
      test_buffer_size_is_fifty_after_fifty_pushs,
      test_buffer_front_gets_element_of_push,
      test_buffer_back_gets_element_of_push,
      test_buffer_front_gets_first_element_of_pushs,
      test_buffer_back_gets_last_element_of_two_pushs,
      test_buffer_front_throws_after_push_pop,
      test_buffer_back_throws_after_push_pop,
      test_const_buffer_front_gets_element_of_push,
      test_const_buffer_back_gets_element_of_push,
      test_const_buffer_front_gets_first_element_of_pushs,
      test_const_buffer_back_gets_last_element_of_two_pushs,
      test_const_buffer_front_throws_after_push_pop,
      test_const_buffer_back_throws_after_push_pop,
      test_buffer_fronts_in_sequence_of_push_pop,
      test_buffer_wrap_around_behavior_front,
      test_buffer_wrap_around_behavior_back,
      test_buffer_after_swap_this_has_argument_content,
      test_buffer_after_swap_argument_has_this_content>>

-----------------------------------------------------------------------------
\* bounded_buffer_semantic_suite.cpp

Fresh == Counter(0, 0, TRUE)
Copying(o) == [Do("push", o) EXCEPT !.args = <<LValue(Fresh)>>]
Moving(o) == [Do("push", o) EXCEPT !.args = <<RValue(Fresh)>>]
News(objects) == [k \in DOMAIN objects |-> New(objects[k], 1)]

test_buffer_push_copies_element == <<New(buffer, 1), Copying(buffer), Counts(Front(buffer), 0, 1)>>
test_buffer_push_moves_element == <<New(buffer, 1), Moving(buffer), Counts(Front(buffer), 1, 0)>>
test_element_in_buffer_is_copied_along_copy_constructor ==
    <<New(buffer, 1), Copying(buffer), CopyConstruct(other, buffer), Counts(Front(other), 0, 2)>>
test_element_in_buffer_is_copied_along_assignment_operator ==
    News(<<buffer, other>>)
    \o <<Copying(buffer), CopyAssign(other, buffer), Counts(Front(other), 0, 2)>>
test_element_in_buffer_is_moved_along_move_constructor ==
    <<New(buffer, 1), Moving(buffer), MoveConstruct(other, buffer), Counts(Front(other), 1, 0)>>
test_element_in_buffer_is_moved_along_assignment_operator ==
    News(<<buffer, other>>)
    \o <<Moving(buffer), MoveAssign(other, buffer), Counts(Front(other), 1, 0)>>
test_element_in_buffer_is_copied_along_assignment_operator_multiple_copies ==
    News(<<buffer, third, fourth, other>>)
    \o <<Copying(buffer), CopyAssign(third, buffer), CopyAssign(fourth, third),
         CopyAssign(other, fourth), Counts(Front(other), 0, 4)>>
test_element_in_buffer_is_moved_along_assignment_operator_multiple_moves ==
    News(<<buffer, third, fourth, other>>)
    \o <<Moving(buffer), MoveAssign(fourth, buffer), MoveAssign(third, fourth),
         MoveAssign(other, third), Counts(Front(other), 1, 0)>>
test_element_buffer_copy_is_returned_from_assignment ==
    test_element_in_buffer_is_copied_along_assignment_operator
test_element_buffer_moved_is_returned_from_assignment ==
    test_element_in_buffer_is_moved_along_assignment_operator

\* Two more elements fill what was made from a buffer of four with two.
HalfFull == <<New(buffer, 4), Moving(buffer), Moving(buffer)>>
FillsOther == <<Moving(other), Moving(other), Full(other, TRUE)>>
test_capacity_is_copied_in_ctor == HalfFull \o <<CopyConstruct(other, buffer)>> \o FillsOther
test_capacity_is_copied_in_assignment ==
    HalfFull \o <<New(other, 1), CopyAssign(other, buffer)>> \o FillsOther
test_capacity_is_moved_in_ctor == HalfFull \o <<MoveConstruct(other, buffer)>> \o FillsOther
test_capacity_is_moved_in_assignment ==
    HalfFull \o <<New(other, 1), MoveAssign(other, buffer)>> \o FillsOther

make_suite_bounded_buffer_semantic_suite ==
    <<test_buffer_push_moves_element,
      test_buffer_push_copies_element,
      test_element_in_buffer_is_copied_along_copy_constructor,
      test_element_in_buffer_is_copied_along_assignment_operator,
      test_element_in_buffer_is_moved_along_move_constructor,
      test_element_in_buffer_is_moved_along_assignment_operator,
      test_element_in_buffer_is_copied_along_assignment_operator_multiple_copies,
      test_element_in_buffer_is_moved_along_assignment_operator_multiple_moves,
      test_element_buffer_copy_is_returned_from_assignment,
      test_element_buffer_moved_is_returned_from_assignment,
      test_capacity_is_copied_in_ctor,
      test_capacity_is_copied_in_assignment,
      test_capacity_is_moved_in_ctor,
      test_capacity_is_moved_in_assignment>>

\* bounded_buffer_student_suite.cpp
make_suite_bounded_buffer_student_suite == <<>>

-----------------------------------------------------------------------------
\* bounded_buffer_heap_memory_suite.cpp: "arrays" counts the arrays allocated by
\* the element type's operator new[], less those deallocated.

NoArrays == <<Counted("arrays", 0)>>
test_allocation_of_default_bounded_buffer ==
    <<Reset, New(buffer, 2), EndOfScope(buffer)>> \o NoArrays
test_deallocation_of_default_bounded_buffer == test_allocation_of_default_bounded_buffer
test_no_undeleted_allocation_on_exception ==
    <<Reset, Throws(New(buffer, 0), "invalid_argument")>> \o NoArrays
test_copy_constructor_allocates_a_new_buffer ==
    <<Reset, New(buffer, 15), CopyConstruct(other, buffer)>> \o NoArrays
test_move_constructor_does_not_allocate_a_new_buffer ==
    <<Reset, New(buffer, 15), MoveConstruct(other, buffer)>> \o NoArrays
TwoInThree == <<Reset, New(buffer, 3), Moving(buffer), Moving(buffer)>>
test_copy_assignment_one_additional_allocation ==
    TwoInThree \o <<New(other, 2), CopyAssign(other, buffer)>> \o NoArrays
test_move_assignment_no_additional_allocation ==
    TwoInThree \o <<New(other, 2), MoveAssign(other, buffer)>> \o NoArrays
test_copy_self_assignment_no_additional_allocation ==
    TwoInThree \o <<CopyAssign(buffer, buffer)>> \o NoArrays
test_move_self_assignment_no_addtional_allocation ==
    TwoInThree \o <<MoveAssign(buffer, buffer)>> \o NoArrays

WrappedHalfFull ==
    Times(100, <<Moving(buffer)>>) \o Times(75, <<Pop(buffer)>>) \o Times(25, <<Moving(buffer)>>)
test_copy_only_initialized_elements_in_copy_construction ==
    <<Reset, New(buffer, 100)>> \o WrappedHalfFull
    \o <<CopyConstruct(other, buffer), Counted("copies", 50)>>
test_copy_only_initialized_elements_in_copy_assignment ==
    <<Reset, New(buffer, 100), New(other, 1)>> \o WrappedHalfFull
    \o <<CopyAssign(other, buffer), Counted("copies", 50)>>

make_suite_bounded_buffer_heap_memory_suite ==
    <<test_allocation_of_default_bounded_buffer,
      test_deallocation_of_default_bounded_buffer,
      test_no_undeleted_allocation_on_exception,
      test_copy_constructor_allocates_a_new_buffer,
      test_copy_self_assignment_no_additional_allocation,
      test_move_self_assignment_no_addtional_allocation,
      test_copy_only_initialized_elements_in_copy_construction,
      test_copy_only_initialized_elements_in_copy_assignment,
      test_move_constructor_does_not_allocate_a_new_buffer,
      test_copy_assignment_one_additional_allocation,
      test_move_assignment_no_additional_allocation>>

-----------------------------------------------------------------------------
\* bounded_buffer_make_buffer_suite.cpp

R == RValue(Fresh)
L == LValue(Fresh)
Made(args, check) == <<MakeBuffer(buffer, args), check>>

test_make_bounded_buffer_from_rvalue_argument_contains_one_element == Made(<<R>>, Size(buffer, 1))
test_make_bounded_buffer_from_rvalue_argument_object_moved ==
    Made(<<R>>, Counts(Front(buffer), 1, 0))
test_bounded_buffer_constructed_with_lvalue_argument_object_copied ==
    Made(<<L>>, Counts(Front(buffer), 0, 1))
test_bounded_buffer_constructed_with_const_lvalue_argument_object_copied ==
    Made(<<L>>, Counts(Front(buffer), 0, 1))
test_make_bounded_buffer_from_two_rvalue_arguments_contains_two_elements ==
    Made(<<R, R>>, Size(buffer, 2))
test_make_bounded_buffer_from_two_lvalue_arguments_contains_two_elements ==
    Made(<<L, L>>, Size(buffer, 2))
test_make_bounded_buffer_from_two_rvalue_arguments_first_element_moved ==
    Made(<<R, R>>, Counts(Front(buffer), 1, 0))
test_make_bounded_buffer_from_two_rvalue_arguments_second_element_moved ==
    Made(<<R, R>>, Counts(Back(buffer), 1, 0))
test_make_bounded_buffer_from_two_rvalue_arguments_first_element_copied ==
    Made(<<L, R>>, Counts(Front(buffer), 0, 1))
test_make_bounded_buffer_from_two_mixed_arguments_second_element_moved ==
    Made(<<L, R>>, Counts(Back(buffer), 1, 0))
test_make_bounded_buffer_from_two_rvalue_arguments_second_element_copied ==
    Made(<<R, L>>, Counts(Back(buffer), 0, 1))
test_make_bounded_buffer_from_two_mixed_arguments_first_element_moved ==
    Made(<<R, L>>, Counts(Front(buffer), 1, 0))

make_suite_bounded_buffer_make_buffer_suite ==
    <<test_make_bounded_buffer_from_rvalue_argument_contains_one_element,
      test_make_bounded_buffer_from_rvalue_argument_object_moved,
      test_bounded_buffer_constructed_with_lvalue_argument_object_copied,
      test_bounded_buffer_constructed_with_const_lvalue_argument_object_copied,
      test_make_bounded_buffer_from_two_rvalue_arguments_contains_two_elements,
      test_make_bounded_buffer_from_two_lvalue_arguments_contains_two_elements,
      test_make_bounded_buffer_from_two_rvalue_arguments_first_element_moved,
      test_make_bounded_buffer_from_two_rvalue_arguments_second_element_moved,
      test_make_bounded_buffer_from_two_rvalue_arguments_first_element_copied,
      test_make_bounded_buffer_from_two_mixed_arguments_second_element_moved,
      test_make_bounded_buffer_from_two_rvalue_arguments_second_element_copied,
      test_make_bounded_buffer_from_two_mixed_arguments_first_element_moved>>

-----------------------------------------------------------------------------
\* bounded_buffer_iterator_suite.cpp: the iterators begin and end are the ones
\* the functions of these names return, i and j others.

createBufferWithFiveConsecutiveInts(start) == Filled(buffer, 5, Consecutive(start, 5))
Five == createBufferWithFiveConsecutiveInts(15)
FromZero == createBufferWithFiveConsecutiveInts(0)
Wrapped == Five \o Times(3, <<Pop(buffer)>>) \o Pushes(buffer, <<20, 21>>)
OtherFromZero == Filled(other, 5, Consecutive(0, 5))
Begins == <<Begin("begin", buffer)>>
Ends == <<End("end", buffer)>>
Both == Begins \o Ends

test_begin_and_end_of_empty_buffer_are_equal ==
    <<New(buffer, 5)>> \o Both \o <<Equal("begin", "end", TRUE)>>
test_begin_and_end_of_non_empty_buffer_are_inequal ==
    Filled(buffer, 5, <<23>>) \o Both \o <<Equal("begin", "end", FALSE)>>
test_begin_and_end_of_full_buffer_are_inequal ==
    <<New(buffer, 5)>> \o Times(5, <<Push(buffer, 23)>>) \o Both \o <<Equal("begin", "end", FALSE)>>
test_two_begins_of_same_buffer_are_equal ==
    FromZero \o Begins \o <<Begin("i", buffer), Equal("begin", "i", TRUE)>>
test_two_ends_of_same_buffer_are_equal ==
    FromZero \o Ends \o <<End("i", buffer), Equal("end", "i", TRUE)>>

\* The same with buffers or iterators to const.
test_two_begins_of_same_const_buffer_are_equal == test_two_begins_of_same_buffer_are_equal
test_two_ends_of_same_const_buffer_are_equal == test_two_ends_of_same_buffer_are_equal
test_two_cbegins_of_same_const_buffer_are_equal == test_two_begins_of_same_buffer_are_equal
test_two_cends_of_same_const_buffer_are_equal == test_two_ends_of_same_buffer_are_equal

test_begin_points_to_the_correct_element == Five \o Begins \o <<Is(Deref("begin"), 15)>>
test_prefix_incremented_begin_points_to_the_correct_element ==
    Five \o Begins \o <<Incr("begin"), Is(Deref("begin"), 16)>>
test_expression_of_prefix_incremented_begin_points_to_the_correct_element ==
    test_prefix_incremented_begin_points_to_the_correct_element
test_twice_prefix_incremented_begin_points_to_the_correct_element ==
    Five \o Begins \o Times(2, <<Incr("begin")>>) \o <<Is(Deref("begin"), 17)>>

PostfixIncr(k, i) == <<CopyOfIt(k, i), Incr(i)>>
PostfixDecr(k, i) == <<CopyOfIt(k, i), Decr(i)>>
test_postfix_incremented_begin_points_to_the_correct_element ==
    Five \o Begins \o PostfixIncr("i", "begin") \o <<Is(Deref("begin"), 16)>>
test_expression_of_postfix_incremented_begin_points_to_the_correct_element ==
    Five \o Begins \o PostfixIncr("i", "begin") \o <<Is(Deref("i"), 15)>>

AtTheEnd(n) == Begins \o Times(n, <<Incr("begin")>>) \o Ends \o <<Equal("end", "begin", TRUE)>>
test_iterator_prefix_incremented_to_the_end_equals_end == Five \o AtTheEnd(5)
test_iterator_incremented_wrap_around_leads_to_equal_end == Wrapped \o AtTheEnd(4)

test_prefix_incrementing_end_iterator_throws ==
    <<New(buffer, 5)>> \o Ends \o <<Throws(Incr("end"), "logic_error")>>
test_postfix_incrementing_end_iterator_throws ==
    <<New(buffer, 5)>> \o Ends \o <<CopyOfIt("i", "end"), Throws(Incr("end"), "logic_error")>>
test_accessing_element_at_end_throws ==
    <<New(buffer, 5)>> \o Ends \o <<Throws(Deref("end"), "logic_error")>>

test_plus_expression_for_iterator ==
    Five \o Begins \o <<CopyOfIt("i", "begin"), Plus("i", 2), Is(Deref("i"), 17)>>
test_plus_assign_expression_for_iterator ==
    Five \o Begins \o <<Plus("begin", 3), Is(Deref("begin"), 18)>>
test_plus_beyond_end_throws ==
    Five \o Ends \o <<CopyOfIt("i", "end"), Throws(Plus("i", 6), "logic_error")>>
test_plus_assign_beyond_end_throws == Five \o Ends \o <<Throws(Plus("end", 6), "logic_error")>>
test_minus_expression_for_iterator ==
    Five \o Ends \o <<CopyOfIt("i", "end"), Minus("i", 2), Is(Deref("i"), 18)>>
test_minus_assign_expression_for_iterator ==
    Five \o Ends \o <<Minus("end", 3), Is(Deref("end"), 17)>>
test_minus_beyond_begin_throws ==
    Five \o Ends \o <<CopyOfIt("i", "end"), Throws(Minus("i", 6), "logic_error")>>
test_minus_assign_beyond_begin_throws == Five \o Ends \o <<Throws(Minus("end", 6), "logic_error")>>

PrefixRefused == Begins \o <<Throws(Decr("begin"), "logic_error")>>
PostfixRefused == Begins \o <<CopyOfIt("i", "begin"), Throws(Decr("begin"), "logic_error")>>
test_postfix_decrementing_on_empty_buffer_begin_throws == <<New(buffer, 5)>> \o PostfixRefused
test_prefix_decrementing_on_empty_buffer_begin_throws == <<New(buffer, 5)>> \o PrefixRefused
test_postfix_decrementing_on_non_empty_buffer_begin_throws == Five \o PostfixRefused
test_prefix_decrementing_on_non_empty_buffer_begin_throws == Five \o PrefixRefused
test_postfix_decremented_end_points_to_last_element ==
    Five \o Ends \o PostfixDecr("i", "end") \o <<Is(Deref("end"), 19)>>
test_prefix_decremented_end_points_to_last_element ==
    Five \o Ends \o <<Decr("end"), Is(Deref("end"), 19)>>

\* std::equal() on ranges of n elements that are equal.
StdEqual(first, last, second, n) ==
    Times(n, <<Equal(first, last, FALSE), Note(Deref(first)), Expect(Deref(second), "same", 0),
               Incr(first), Incr(second)>>)
    \o <<Equal(first, last, TRUE)>>
test_begin_end_ranges_of_the_same_buffer_are_equal ==
    FromZero \o Both \o <<Begin("i", buffer)>> \o StdEqual("begin", "end", "i", 5)
test_begin_end_ranges_of_buffers_with_the_same_elements_are_equal ==
    FromZero \o OtherFromZero \o Both \o <<Begin("i", other)>> \o StdEqual("begin", "end", "i", 5)
test_begin_end_ranges_of_buffers_with_the_same_elements_but_not_at_the_same_location_are_equal ==
    <<New(buffer, 5)>> \o Times(3, <<Push(buffer, 23), Pop(buffer)>>)
    \o Pushes(buffer, Consecutive(0, 5)) \o OtherFromZero
    \o Both \o <<Begin("i", other), End("j", other)>>
    \o <<Distance("end", "begin", 5), Distance("j", "i", 5)>> \o StdEqual("begin", "end", "i", 5)

Inner == PostfixIncr("i", "begin") \o PostfixDecr("j", "end")
Unrelated(op) == <<New(buffer, 5), New(other, 5)>> \o Begins
                 \o <<Begin("i", other), Throws(With(op, "begin", "i"), "logic_error")>>
test_difference_on_different_buffers_throws == Unrelated("difference")
test_difference_between_begin_and_end_on_empty_buffer ==
    <<New(buffer, 5)>> \o Both \o <<Distance("end", "begin", 0)>>
test_difference_between_begin_and_end_on_buffer_with_some_elements ==
    <<New(buffer, 5)>> \o Times(3, <<Push(buffer, 27)>>) \o Both \o <<Distance("end", "begin", 3)>>
test_difference_between_begin_and_end_on_buffer_with_some_elements_wrapped_around ==
    Wrapped \o Both \o <<Distance("end", "begin", 4)>>
test_difference_between_arbitrary_iterators_on_buffer_with_some_elements_wrapped_around ==
    Wrapped \o Both \o Inner \o <<Distance("end", "begin", 2)>>
test_difference_between_begin_and_end_on_full_buffer ==
    FromZero \o Both \o <<Distance("end", "begin", 5)>>

\* operator> is operator< with the operands exchanged.
test_begin_is_smaller_than_end_for_non_empty_buffers == FromZero \o Both \o <<Less("begin", "end")>>
test_begin_is_greater_than_end_for_non_empty_buffers == FromZero \o Both \o <<Less("begin", "end")>>
test_arbitrary_iterators_compare_less_than_for_non_empty_buffers ==
    FromZero \o Both \o Inner \o <<Less("begin", "end")>>
test_arbitrary_iterators_compare_greater_than_for_non_empty_buffers ==
    FromZero \o Both \o Inner \o <<Less("begin", "end")>>
test_relative_comparison_of_iterators_to_different_buffers_throws == Unrelated("compare")

test_non_const_begin_iterator_overwrites_element ==
    FromZero \o Begins \o <<Overwrite("begin", 23), Is(Front(buffer), 23)>>
test_non_const_end_iterator_overwrites_element ==
    FromZero \o Ends \o <<Decr("end"), Overwrite("end", 23), Is(Back(buffer), 23)>>
test_index_operator ==
    FromZero \o Begins \o <<CopyOfIt("i", "begin"), Plus("i", 2), Is(Deref("i"), 2)>>
test_index_end_minus_one_operator ==
    FromZero \o Ends \o <<Note(Back(buffer)), CopyOfIt("i", "end"), Plus("i", -1),
                           Expect(Deref("i"), "same", 0)>>
test_arrow_operator == Filled(buffer, 5, <<23>>) \o Begins \o <<Is(Deref("begin"), 23)>>

make_suite_bounded_buffer_iterator_suite ==
    <<test_begin_and_end_of_empty_buffer_are_equal,
      test_begin_and_end_of_non_empty_buffer_are_inequal,
      test_begin_and_end_of_full_buffer_are_inequal,
      test_two_begins_of_same_buffer_are_equal,
      test_two_ends_of_same_buffer_are_equal,
      test_two_begins_of_same_const_buffer_are_equal,
      test_two_ends_of_same_const_buffer_are_equal,
      test_two_cbegins_of_same_const_buffer_are_equal,
      test_two_cends_of_same_const_buffer_are_equal,
      test_begin_points_to_the_correct_element,
      test_prefix_incremented_begin_points_to_the_correct_element,
      test_twice_prefix_incremented_begin_points_to_the_correct_element,
      test_iterator_prefix_incremented_to_the_end_equals_end,
      test_iterator_incremented_wrap_around_leads_to_equal_end,
      test_prefix_incrementing_end_iterator_throws,
      test_postfix_incrementing_end_iterator_throws,
      test_accessing_element_at_end_throws,
      test_expression_of_prefix_incremented_begin_points_to_the_correct_element,
      test_postfix_incremented_begin_points_to_the_correct_element,
      test_expression_of_postfix_incremented_begin_points_to_the_correct_element,
      test_postfix_decrementing_on_empty_buffer_begin_throws,
      test_prefix_decrementing_on_empty_buffer_begin_throws,
      test_postfix_decremented_end_points_to_last_element,
      test_prefix_decremented_end_points_to_last_element,
      test_postfix_decrementing_on_non_empty_buffer_begin_throws,
      test_prefix_decrementing_on_non_empty_buffer_begin_throws,
      test_begin_end_ranges_of_the_same_buffer_are_equal,
      test_begin_end_ranges_of_buffers_with_the_same_elements_are_equal,
      test_difference_on_different_buffers_throws,
      test_difference_between_begin_and_end_on_empty_buffer,
      test_difference_between_begin_and_end_on_buffer_with_some_elements,
      test_difference_between_begin_and_end_on_full_buffer,
      test_difference_between_begin_and_end_on_buffer_with_some_elements_wrapped_around,
      test_difference_between_arbitrary_iterators_on_buffer_with_some_elements_wrapped_around,
      test_begin_end_ranges_of_buffers_with_the_same_elements_but_not_at_the_same_location_are_equal,
      test_plus_expression_for_iterator,
      test_plus_assign_expression_for_iterator,
      test_minus_expression_for_iterator,
      test_minus_assign_expression_for_iterator,
      test_plus_beyond_end_throws,
      test_plus_assign_beyond_end_throws,
      test_minus_beyond_begin_throws,
      test_minus_assign_beyond_begin_throws,
      test_begin_is_smaller_than_end_for_non_empty_buffers,
      test_begin_is_greater_than_end_for_non_empty_buffers,
      test_arbitrary_iterators_compare_less_than_for_non_empty_buffers,
      test_arbitrary_iterators_compare_greater_than_for_non_empty_buffers,
      test_relative_comparison_of_iterators_to_different_buffers_throws,
      test_non_const_begin_iterator_overwrites_element,
      test_non_const_end_iterator_overwrites_element,
      test_index_operator,
      test_index_end_minus_one_operator,
      test_arrow_operator>>

-----------------------------------------------------------------------------
\* bounded_buffer_non_default_constructible_element_type_suite.cpp.  The static
\* counters also count the arguments' destructors; no test looks at these.

OneMoved == <<New(buffer, 5), Moving(buffer), Reset>>
test_new_buffer_of_nondefaultconstructible_invokes_no_destructors ==
    <<Reset, New(buffer, 5), Counted("destroyed", 0)>>
test_element_in_buffer_is_destroyed_once ==
    OneMoved \o <<EndOfScope(buffer), Counted("destroyed", 1)>>
test_element_in_moved_buffer_is_destroyed_once ==
    OneMoved \o <<MoveConstruct(other, buffer), EndOfScope(other), EndOfScope(buffer),
                  Counted("destroyed", 1)>>
test_every_element_in_copied_buffer_is_destroyed_once ==
    OneMoved \o <<CopyConstruct(other, buffer), EndOfScope(other), EndOfScope(buffer),
                  Counted("destroyed", 2)>>
test_pop_destroys_element == OneMoved \o <<Pop(buffer), Counted("destroyed", 1)>>
test_lvalue_push_copies_element ==
    <<Reset, New(buffer, 5), Copying(buffer), Counted("copies", 1)>>
test_rvalue_push_moves_element ==
    <<Reset, New(buffer, 5), Moving(buffer), Counted("moves", 1)>>
test_lvalue_push_must_not_copy_assign ==
    <<New(buffer, 5), Reset, Copying(buffer), Counted("assigned", 0)>>
test_rvalue_push_must_not_move_assign ==
    <<New(buffer, 5), Reset, Moving(buffer), Counted("assigned", 0)>>

make_suite_bounded_buffer_non_default_constructible_element_type_suite ==
    <<test_new_buffer_of_nondefaultconstructible_invokes_no_destructors,
      test_element_in_buffer_is_destroyed_once,
      test_element_in_moved_buffer_is_destroyed_once,
      test_every_element_in_copied_buffer_is_destroyed_once,
      test_pop_destroys_element,
      test_lvalue_push_copies_element,
      test_rvalue_push_moves_element,
      test_lvalue_push_must_not_copy_assign,
      test_rvalue_push_must_not_move_assign>>

-----------------------------------------------------------------------------
\* runAllTests() of Test.cpp
Program ==
    <<make_suite_bounded_buffer_default_behavior_suite,
      make_suite_bounded_buffer_content_suite,
      make_suite_bounded_buffer_semantic_suite,
      make_suite_bounded_buffer_student_suite,
      make_suite_bounded_buffer_heap_memory_suite,
      make_suite_bounded_buffer_make_buffer_suite,
      make_suite_bounded_buffer_iterator_suite,
      make_suite_bounded_buffer_non_default_constructible_element_type_suite>>
=============================================================================
