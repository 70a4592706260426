--------------------------- MODULE MCQuestionBank ---------------------------
(* Values of the constants of QuestionBank for TLC. *)
EXTENDS QuestionBank

CONSTANTS x, xPadded, y, z, root, guest

ThreeIds == 1 .. 3
Texts == {x, xPadded, y, z}
Spaces == [text \in Texts |-> IF text = xPadded THEN x ELSE text]

Written(subject, type, options, correct, rating) ==
    [subject |-> subject, type |-> type, options |-> options,
     correct_answers |-> correct, question_elo |-> rating, plain |-> TRUE]

\* One subject with questions at three ratings, another with one at one.
SeedRows ==
    {Written("dsa", "MCQ", <<x, y>>, <<x>>, rating) : rating \in 0 .. 2}
    \cup {Written("os", "MCQ", <<x, y>>, <<y>>, 1)}

\* Complete, complete with spaces in the answer, ambiguous but for spaces,
\* without a right option, and out of range.
WrittenQuestions ==
    {Written("dsa", "MCQ", <<x, y>>, <<y>>, 1),
     Written("os", "MSQ", <<x, y, z>>, <<x, z>>, 2),
     Written("dsa", "MSQ", <<x, y>>, <<xPadded>>, 1),
     Written("os", "MSQ", <<x, xPadded>>, <<x>>, 1),
     Written("dsa", "MSQ", <<x, y>>, <<z>>, 1),
     Written("dsa", "MCQ", <<x, y>>, <<x>>, 3)}

\* Addresses of tokens, and ADMIN_EMAILS with one in another spelling.
TwoEmails == {guest, root}
Administrators == {"Root"}
Spelling == [e \in TwoEmails \cup Administrators |-> IF e = guest THEN guest ELSE root]

=============================================================================
