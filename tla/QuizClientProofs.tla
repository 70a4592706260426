-------------------------- MODULE QuizClientProofs --------------------------
(***************************************************************************)
(* Safety of the quiz page for quizzes of any length and any number of     *)
(* quizzes, questions and submissions.                                     *)
(***************************************************************************)
EXTENDS QuizClient, SequenceTheorems, FiniteSetTheorems, TLAPS

\* Submissions whose reply the page has not handled.
Pending == {"sent", "recorded", "lost", "refused", "failed"}

\* Numbers stay below the counters they were taken from, and the page and the
\* timer have a quiz to refer to.
RangeInv ==
    /\ Len(quizzes) + starts =< MaxQuizzes
    /\ \A q \in Quizzes : quizzes[q].question =< shown /\ quizzes[q].index =< shown
    /\ \A s \in DOMAIN submits : submits[s].quiz \in Quizzes /\ submits[s].question =< shown
    /\ page = "quiz" \/ timer => Current > 0

TypeInv == TypeOK /\ RangeInv

LEMMA Bounds ==
    /\ QuizLength \in Int /\ MaxQuizzes \in Int /\ MaxShowings \in Int /\ MaxSubmits \in Int
    /\ 0 =< MaxQuizzes /\ 0 =< MaxShowings /\ 0 =< MaxSubmits
  BY BoundsAssumption

LEMMA Sequences ==
    ASSUME TypeOK
    PROVE  /\ Len(quizzes) \in Nat /\ DOMAIN quizzes = Quizzes
           /\ \A q \in Quizzes : quizzes[q] \in Quiz
           /\ Len(submits) \in Nat /\ DOMAIN submits = 1 .. Len(submits)
           /\ \A s \in DOMAIN submits : submits[s] \in Submission
  <1>1. quizzes \in Seq(Quiz) /\ submits \in Seq(Submission)
    BY DEF TypeOK
  <1> QED
    BY <1>1, LenProperties, ElementOfSeq DEF Quizzes

-----------------------------------------------------------------------------
(* What the actions do to the two sequences *)

LEMMA QuizChanges ==
    ASSUME TypeOK, NEW q \in Quizzes, NEW row \in Quiz,
           quizzes' = [quizzes EXCEPT ![q] = row]
    PROVE  /\ quizzes' \in Seq(Quiz)
           /\ Len(quizzes') = Len(quizzes) /\ Quizzes' = Quizzes /\ Current' = Current
           /\ \A x \in Quizzes : quizzes'[x] = IF x = q THEN row ELSE quizzes[x]
  <1>1. quizzes \in Seq(Quiz) /\ q \in 1 .. Len(quizzes)
    BY DEF TypeOK, Quizzes
  <1>2. /\ [quizzes EXCEPT ![q] = row] \in Seq(Quiz)
        /\ Len([quizzes EXCEPT ![q] = row]) = Len(quizzes)
        /\ \A x \in 1 .. Len(quizzes) :
              [quizzes EXCEPT ![q] = row][x] = IF x = q THEN row ELSE quizzes[x]
    BY <1>1, ExceptSeq
  <1> QED
    BY <1>2 DEF Quizzes, Current

LEMMA SubmissionChanges ==
    ASSUME TypeOK, NEW s \in DOMAIN submits, NEW row \in Submission,
           submits' = [submits EXCEPT ![s] = row]
    PROVE  /\ submits' \in Seq(Submission)
           /\ Len(submits') = Len(submits) /\ DOMAIN submits' = DOMAIN submits
           /\ \A x \in DOMAIN submits : submits'[x] = IF x = s THEN row ELSE submits[x]
  <1>1. submits \in Seq(Submission) /\ s \in 1 .. Len(submits)
    BY Sequences DEF TypeOK
  <1>2. /\ [submits EXCEPT ![s] = row] \in Seq(Submission)
        /\ Len([submits EXCEPT ![s] = row]) = Len(submits)
        /\ \A x \in 1 .. Len(submits) :
              [submits EXCEPT ![s] = row][x] = IF x = s THEN row ELSE submits[x]
    BY <1>1, ExceptSeq
  <1> QED
    BY <1>2, Sequences

\* A question arrives for quiz q.
LEMMA ShowEffect ==
    ASSUME TypeInv, NEW q \in Quizzes, Show(q)
    PROVE  /\ quizzes' \in Seq(Quiz)
           /\ Len(quizzes') = Len(quizzes) /\ Quizzes' = Quizzes /\ Current' = Current
           /\ Current \in Quizzes
           /\ shown' = shown + 1 /\ shown' \in 0 .. MaxShowings /\ shown \in 0 .. MaxShowings
           /\ \A x \in Quizzes \ {q} : quizzes'[x] = quizzes[x]
           /\ quizzes'[q].question = shown + 1
           /\ quizzes'[q].index = quizzes[q].index + 1
           /\ quizzes'[q].correctCount = quizzes[q].correctCount
           /\ answered' = FALSE
           /\ quizzes'[Current].question = 0 => UNCHANGED <<options, button, reopened>>
           /\ quizzes'[Current].question # 0 =>
                 /\ options' = "enabled" /\ button' = "none"
                 /\ reopened' = IF q = Current THEN reopened
                                ELSE [reopened EXCEPT ![quizzes'[Current].question] = @ + 1]
  <1> DEFINE row == [question |-> shown + 1, index |-> quizzes[q].index + 1,
                     skipsInRow |-> quizzes[q].skipsInRow,
                     correctCount |-> quizzes[q].correctCount]
             new == [quizzes EXCEPT ![q].question = shown + 1, ![q].index = @ + 1]
  <1>1. quizzes[q] \in Quiz /\ Len(quizzes) \in Nat /\ DOMAIN quizzes = Quizzes
    BY Sequences DEF TypeInv
  <1>2. /\ shown \in 0 .. MaxShowings /\ shown < MaxShowings /\ shown' = shown + 1
        /\ shown \in Int
    BY Bounds DEF TypeInv, TypeOK, Show
  <1>3. quizzes[q].index \in 0 .. MaxShowings /\ quizzes[q].index =< shown
    BY <1>1 DEF Quiz, TypeInv, RangeInv
  <1>4. row \in Quiz
    <2>1. shown + 1 \in 0 .. MaxShowings /\ quizzes[q].index + 1 \in 0 .. MaxShowings
      BY <1>2, <1>3, Bounds
    <2> QED
      BY <1>1, <2>1 DEF Quiz
  <1>5. new = [quizzes EXCEPT ![q] = row]
    <2>1. /\ DOMAIN new = DOMAIN quizzes
          /\ \A x \in DOMAIN quizzes \ {q} : new[x] = quizzes[x]
      OBVIOUS
    <2>2. new[q] = [quizzes[q] EXCEPT !.question = shown + 1, !.index = @ + 1]
      BY <1>1
    <2>3. new[q] = row
      BY <1>1, <2>2 DEF Quiz
    <2>4. new = [x \in DOMAIN quizzes |-> new[x]]
      OBVIOUS
    <2> HIDE DEF new, row
    <2> QED
      BY <2>1, <2>3, <2>4
  <1>6. quizzes' = [quizzes EXCEPT ![q] = row]
    BY <1>5 DEF Show
  <1>7. Current \in Quizzes
    BY <1>1 DEF Current, Quizzes
  <1>8. /\ quizzes' \in Seq(Quiz)
        /\ Len(quizzes') = Len(quizzes) /\ Quizzes' = Quizzes /\ Current' = Current
        /\ \A x \in Quizzes : quizzes'[x] = IF x = q THEN row ELSE quizzes[x]
    <2> HIDE DEF row
    <2> QED
      BY <1>4, <1>6, QuizChanges DEF TypeInv
  <1>9. new = quizzes'
    BY DEF Show
  <1>10. /\ answered' = FALSE
         /\ IF quizzes'[Current].question = 0
            THEN UNCHANGED <<options, button, reopened>>
            ELSE /\ options' = "enabled"
                 /\ button' = "none"
                 /\ reopened' = IF q = Current THEN reopened
                                ELSE [reopened EXCEPT ![quizzes'[Current].question] = @ + 1]
    BY <1>9 DEF Show
  <1>11. shown' \in 0 .. MaxShowings
    BY <1>2, Bounds
  <1> HIDE DEF new
  <1> QED
    BY <1>2, <1>7, <1>8, <1>10, <1>11

\* The page posts an answer to the question of the current quiz, or finds none.
LEMMA SubmitEffect ==
    ASSUME TypeInv, Current > 0, NEW timedOut \in BOOLEAN, SubmitQuizAnswer(timedOut)
    PROVE  /\ timer' = FALSE /\ answered' \in BOOLEAN
           /\ Current \in Quizzes
           /\ quizzes[Current].question = 0 => UNCHANGED submits
           /\ quizzes[Current].question # 0 =>
                /\ answered' = TRUE
                /\ submits' \in Seq(Submission)
                /\ Len(submits') = Len(submits) + 1 /\ Len(submits') =< MaxSubmits
                /\ DOMAIN submits' = DOMAIN submits \cup {Len(submits) + 1}
                /\ \A s \in DOMAIN submits : submits'[s] = submits[s]
                /\ submits'[Len(submits) + 1] =
                      [quiz |-> Current, question |-> quizzes[Current].question,
                       timedOut |-> timedOut, right |-> FALSE, state |-> "sent"]
  <1> DEFINE new == [quiz |-> Current, question |-> quizzes[Current].question,
                     timedOut |-> timedOut, right |-> FALSE, state |-> "sent"]
  <1>1. /\ Len(quizzes) \in Nat /\ Len(submits) \in Nat
        /\ \A q \in Quizzes : quizzes[q] \in Quiz
        /\ DOMAIN submits = 1 .. Len(submits)
    BY Sequences DEF TypeInv
  <1>2. Current \in Quizzes
    BY <1>1 DEF Current, Quizzes
  <1>3. timer' = FALSE /\ answered' \in BOOLEAN
    BY DEF SubmitQuizAnswer
  <1>4. CASE quizzes[Current].question = 0
    BY <1>2, <1>3, <1>4 DEF SubmitQuizAnswer
  <1>5. CASE quizzes[Current].question # 0
    <2>1. answered' = TRUE /\ Len(submits) < MaxSubmits /\ submits' = Append(submits, new)
      BY <1>5 DEF SubmitQuizAnswer
    <2>2. new \in Submission
      <3>1. Current \in 1 .. MaxQuizzes
        BY <1>2, Bounds DEF Quizzes, TypeInv, TypeOK, Current
      <3>2. quizzes[Current].question \in 1 .. MaxShowings
        BY <1>1, <1>2, <1>5, Bounds DEF Quiz
      <3> QED
        BY <3>1, <3>2 DEF Submission, States
    <2>3. submits \in Seq(Submission)
      BY DEF TypeInv, TypeOK
    <2> HIDE DEF new
    <2>4. /\ submits' \in Seq(Submission) /\ Len(submits') = Len(submits) + 1
          /\ \A s \in 1 .. Len(submits) : submits'[s] = submits[s]
          /\ submits'[Len(submits) + 1] = new
      BY <2>1, <2>2, <2>3
    <2>5. DOMAIN submits' = 1 .. Len(submits) + 1
      BY <2>4, LenProperties
    <2>6. Len(submits') =< MaxSubmits
      BY <1>1, <2>1, <2>4, Bounds
    <2>7. DOMAIN submits' = DOMAIN submits \cup {Len(submits) + 1}
      BY <1>1, <2>5
    <2> QED
      BY <1>1, <1>2, <1>3, <1>5, <2>1, <2>4, <2>6, <2>7 DEF new
  <1> QED
    BY <1>4, <1>5

\* A submission is served, or its reply handled: what was posted stays.
LEMMA ReplyEffect ==
    ASSUME TypeInv, NEW s \in DOMAIN submits, Serve(s) \/ Accepted(s) \/ Rejected(s)
    PROVE  /\ submits' \in Seq(Submission)
           /\ Len(submits') = Len(submits) /\ DOMAIN submits' = DOMAIN submits
           /\ \A x \in DOMAIN submits \ {s} : submits'[x] = submits[x]
           /\ submits'[s].quiz = submits[s].quiz
           /\ submits'[s].question = submits[s].question
           /\ Serve(s) => submits[s].state = "sent" /\ submits'[s].state \in Pending
           /\ Accepted(s) => /\ submits[s].state = "recorded"
                             /\ submits'[s].right = submits[s].right
                             /\ submits'[s].state = IF quizzes[submits[s].quiz].question = 0
                                                    THEN "aborted" ELSE "counted"
           /\ Rejected(s) => submits[s].state \in Pending /\ submits'[s].state = "error"
  <1>1. submits[s] \in Submission /\ DOMAIN submits = 1 .. Len(submits)
    BY Sequences DEF TypeInv
  <1>2. PICK right \in BOOLEAN, state \in States :
           /\ submits' = [submits EXCEPT ![s] = [submits[s] EXCEPT !.state = state,
                                                                   !.right = right]]
           /\ Serve(s) => submits[s].state = "sent" /\ state \in Pending
           /\ Accepted(s) => /\ submits[s].state = "recorded" /\ right = submits[s].right
                             /\ state = IF quizzes[submits[s].quiz].question = 0
                                        THEN "aborted" ELSE "counted"
           /\ Rejected(s) => submits[s].state \in Pending /\ state = "error"
    <2>1. CASE Serve(s)
      <3>1. PICK right \in BOOLEAN, state \in {"recorded", "lost", "refused", "failed"} :
               submits' = [submits EXCEPT ![s].state = state, ![s].right = right]
        BY <2>1 DEF Serve
      <3>2. submits' = [submits EXCEPT ![s] = [submits[s] EXCEPT !.state = state,
                                                                 !.right = right]]
        BY <1>1, <3>1
      <3>3. /\ submits[s].state = "sent" /\ state \in Pending /\ state \in States
            /\ ~ Accepted(s) /\ ~ Rejected(s)
        BY <2>1 DEF Serve, Accepted, Rejected, Pending, States
      <3> QED
        BY <3>2, <3>3
    <2>2. ASSUME NEW state \in States, submits' = [submits EXCEPT ![s].state = state]
          PROVE  /\ submits[s].right \in BOOLEAN
                 /\ submits' = [submits EXCEPT ![s] =
                                  [submits[s] EXCEPT !.state = state, !.right = submits[s].right]]
      <3>1. submits[s].right \in BOOLEAN
        BY <1>1 DEF Submission
      <3>2. [submits[s] EXCEPT !.state = state, !.right = submits[s].right]
               = [submits[s] EXCEPT !.state = state]
        BY <1>1 DEF Submission
      <3> QED
        BY <2>2, <3>1, <3>2
    <2>3. CASE Accepted(s)
      <3> DEFINE state == IF quizzes[submits[s].quiz].question = 0
                          THEN "aborted" ELSE "counted"
      <3>1. state \in States /\ submits' = [submits EXCEPT ![s].state = state]
        BY <2>3 DEF Accepted, States
      <3>2. submits[s].state = "recorded" /\ ~ Serve(s) /\ ~ Rejected(s)
        BY <2>3 DEF Accepted, Serve, Rejected
      <3> HIDE DEF state
      <3>3. /\ submits[s].right \in BOOLEAN
            /\ submits' = [submits EXCEPT ![s] =
                             [submits[s] EXCEPT !.state = state, !.right = submits[s].right]]
        BY <2>2, <3>1
      <3> QED
        BY <3>1, <3>2, <3>3 DEF state
    <2>4. CASE Rejected(s)
      <3>1. "error" \in States /\ submits' = [submits EXCEPT ![s].state = "error"]
        BY <2>4 DEF Rejected, States
      <3>2. submits[s].state \in Pending /\ ~ Serve(s) /\ ~ Accepted(s)
        BY <2>4 DEF Accepted, Serve, Rejected, Pending
      <3> QED
        BY <2>2, <3>1, <3>2
    <2> QED
      BY <2>1, <2>3, <2>4
  <1> DEFINE row == [submits[s] EXCEPT !.state = state, !.right = right]
  <1>3. /\ row \in Submission /\ row.quiz = submits[s].quiz
        /\ row.question = submits[s].question /\ row.state = state /\ row.right = right
    BY <1>1 DEF Submission
  <1>4. submits' = [submits EXCEPT ![s] = row]
    BY <1>2
  <1> HIDE DEF row
  <1>5. /\ submits' \in Seq(Submission)
        /\ Len(submits') = Len(submits) /\ DOMAIN submits' = DOMAIN submits
        /\ \A x \in DOMAIN submits : submits'[x] = IF x = s THEN row ELSE submits[x]
    BY <1>3, <1>4, SubmissionChanges DEF TypeInv
  <1> QED
    BY <1>2, <1>3, <1>5

\* An accepted answer is counted in its quiz, unless that has been finished.
LEMMA AcceptedEffect ==
    ASSUME TypeInv, NEW s \in DOMAIN submits, Accepted(s)
    PROVE  LET q == submits[s].quiz
               counted == quizzes[q].question # 0
           IN  /\ q \in Quizzes
               /\ quizzes' \in Seq(Quiz) /\ Len(quizzes') = Len(quizzes)
               /\ Quizzes' = Quizzes /\ Current' = Current
               /\ \A x \in Quizzes : /\ quizzes'[x].question = quizzes[x].question
                                     /\ quizzes'[x].index = quizzes[x].index
                                     /\ x # q => quizzes'[x] = quizzes[x]
               /\ quizzes'[q].correctCount =
                     IF counted /\ submits[s].right THEN quizzes[q].correctCount + 1
                                                    ELSE quizzes[q].correctCount
               /\ counted => options' = "disabled" /\ button' \in {"next", "finish"}
               /\ ~ counted => UNCHANGED <<options, button>>
               /\ UNCHANGED <<starts, opening, loads, shown, answered, timer, page, reopened, overlapped>>
  <1> DEFINE q == submits[s].quiz
             inRow == IF submits[s].timedOut THEN quizzes[q].skipsInRow + 1 ELSE 0
             tally == quizzes[q].correctCount + (IF submits[s].right THEN 1 ELSE 0)
             row == [question |-> quizzes[q].question, index |-> quizzes[q].index,
                     skipsInRow |-> inRow, correctCount |-> tally]
  <1>1. q \in Quizzes
    BY DEF TypeInv, RangeInv
  <1>2. quizzes[q] \in Quiz /\ DOMAIN quizzes = Quizzes /\ quizzes \in Seq(Quiz)
    BY <1>1, Sequences DEF TypeInv, TypeOK
  <1>3. CASE quizzes[q].question = 0
    <2>1. UNCHANGED <<quizzes, options, button, starts, opening, loads, shown, answered,
                      timer, page, reopened, overlapped>>
      BY <1>3 DEF Accepted
    <2>2. Quizzes' = Quizzes /\ Current' = Current
      BY <2>1 DEF Quizzes, Current
    <2> QED
      BY <1>1, <1>2, <1>3, <2>1, <2>2
  <1>4. CASE quizzes[q].question # 0
    <2>1. /\ quizzes' = Count(s) /\ options' = "disabled" /\ button' \in {"next", "finish"}
          /\ UNCHANGED <<starts, opening, loads, shown, answered, timer, page, reopened, overlapped>>
      BY <1>4 DEF Accepted
    <2>2. inRow \in Nat /\ tally \in Nat /\ quizzes[q].correctCount \in Nat
      <3> HIDE DEF q
      <3>1. quizzes[q].skipsInRow \in Nat /\ quizzes[q].correctCount \in Nat
        BY <1>2 DEF Quiz
      <3> QED
        BY <3>1
    <2>3. Count(s) = [quizzes EXCEPT ![q] = row]
      <3>1. PICK new : new = [quizzes[q] EXCEPT !.correctCount = tally, !.skipsInRow = inRow]
        OBVIOUS
      <3>2. Count(s) = [quizzes EXCEPT ![q] = new]
        <4>1. Count(s) = [quizzes EXCEPT ![q].correctCount = tally, ![q].skipsInRow = inRow]
          BY <1>1, <1>2 DEF Count
        <4> HIDE DEF inRow, tally, q
        <4> QED
          BY <1>1, <1>2, <3>1, <4>1
      <3> HIDE DEF inRow, tally, q
      <3>3. new = row
        BY <1>2, <3>1 DEF Quiz
      <3> QED
        BY <3>2, <3>3
    <2>4. /\ row \in Quiz
          /\ row.question = quizzes[q].question /\ row.index = quizzes[q].index
          /\ row.correctCount = tally
      <3> HIDE DEF inRow, tally, q
      <3> QED
        BY <1>2, <2>2 DEF Quiz
    <2> HIDE DEF row
    <2>5. /\ quizzes' \in Seq(Quiz)
          /\ Len(quizzes') = Len(quizzes) /\ Quizzes' = Quizzes /\ Current' = Current
          /\ \A x \in Quizzes : quizzes'[x] = IF x = q THEN row ELSE quizzes[x]
      BY <1>1, <2>1, <2>3, <2>4, QuizChanges DEF TypeInv
    <2>6. tally = IF submits[s].right THEN quizzes[q].correctCount + 1
                                      ELSE quizzes[q].correctCount
      BY <2>2
    <2> HIDE DEF tally
    <2> QED
      BY <1>1, <1>4, <2>1, <2>4, <2>5, <2>6
  <1> QED
    BY <1>3, <1>4

LEMMA FinishEffect ==
    ASSUME TypeInv, ClickFinish
    PROVE  /\ Current \in Quizzes
           /\ quizzes' \in Seq(Quiz) /\ Len(quizzes') = Len(quizzes)
           /\ Quizzes' = Quizzes /\ Current' = Current
           /\ \A x \in Quizzes \ {Current} : quizzes'[x] = quizzes[x]
           /\ quizzes'[Current].question = 0
           /\ quizzes'[Current].index = quizzes[Current].index
           /\ quizzes'[Current].correctCount = quizzes[Current].correctCount
           /\ UNCHANGED <<starts, opening, loads, shown, submits, pageState, reopened, overlapped>>
  <1> DEFINE row == [quizzes[Current] EXCEPT !.question = 0]
  <1>1. Current \in Quizzes
    BY Sequences DEF ClickFinish, TypeInv, RangeInv, Current, Quizzes
  <1>2. quizzes[Current] \in Quiz /\ DOMAIN quizzes = Quizzes
    BY <1>1, Sequences DEF TypeInv
  <1>3. /\ row \in Quiz /\ row.question = 0 /\ row.index = quizzes[Current].index
        /\ row.correctCount = quizzes[Current].correctCount
    BY <1>2, Bounds DEF Quiz
  <1>4. quizzes' = [quizzes EXCEPT ![Current] = row]
    BY <1>1, <1>2 DEF ClickFinish
  <1> HIDE DEF row
  <1>5. /\ quizzes' \in Seq(Quiz)
        /\ Len(quizzes') = Len(quizzes) /\ Quizzes' = Quizzes /\ Current' = Current
        /\ \A x \in Quizzes : quizzes'[x] = IF x = Current THEN row ELSE quizzes[x]
    BY <1>1, <1>3, <1>4, QuizChanges DEF TypeInv
  <1> QED
    BY <1>1, <1>3, <1>5 DEF ClickFinish

LEMMA StartedEffect ==
    ASSUME TypeInv, Started
    PROVE  /\ quizzes' \in Seq(Quiz) /\ Len(quizzes') = Len(quizzes) + 1
           /\ Quizzes' = Quizzes \cup {Len(quizzes) + 1} /\ Len(quizzes) + 1 \notin Quizzes
           /\ Current' = Len(quizzes) + 1 /\ Current' > 0
           /\ \A x \in Quizzes : quizzes'[x] = quizzes[x]
           /\ quizzes'[Len(quizzes) + 1] = NewQuiz
           /\ starts > 0 /\ starts' = starts - 1
           /\ opening' = opening \cup {Len(quizzes) + 1}
           /\ UNCHANGED <<loads, shown, submits, pageState, reopened, overlapped>>
  <1>1. NewQuiz \in Quiz
    BY Bounds DEF NewQuiz, Quiz
  <1>2. quizzes \in Seq(Quiz) /\ Len(quizzes) \in Nat
    BY Sequences DEF TypeInv, TypeOK
  <1>3. /\ quizzes' = Append(quizzes, NewQuiz)
        /\ starts > 0 /\ starts' = starts - 1
        /\ opening' = opening \cup {Len(quizzes) + 1}
        /\ UNCHANGED <<loads, shown, submits, pageState, reopened, overlapped>>
    BY DEF Started
  <1>4. /\ quizzes' \in Seq(Quiz) /\ Len(quizzes') = Len(quizzes) + 1
        /\ \A x \in 1 .. Len(quizzes) : quizzes'[x] = quizzes[x]
        /\ quizzes'[Len(quizzes) + 1] = NewQuiz
    BY <1>1, <1>2, <1>3
  <1>5. 1 .. Len(quizzes) + 1 = (1 .. Len(quizzes)) \cup {Len(quizzes) + 1}
    BY <1>2
  <1> QED
    BY <1>2, <1>3, <1>4, <1>5 DEF Quizzes, Current

-----------------------------------------------------------------------------
(* Types *)

LEMMA TypeInit == Init => TypeInv
  <1> SUFFICES ASSUME Init PROVE TypeInv
    OBVIOUS
  <1>1. /\ quizzes = <<>> /\ submits = <<>> /\ Len(quizzes) = 0 /\ Len(submits) = 0
        /\ quizzes \in Seq(Quiz) /\ submits \in Seq(Submission)
        /\ Quizzes = {} /\ DOMAIN submits = {}
    <2>1. quizzes = <<>> /\ submits = <<>>
      BY DEF Init
    <2>2. <<>> \in Seq(Quiz) /\ <<>> \in Seq(Submission) /\ Len(<<>>) = 0
      BY EmptySeq
    <2>3. Quizzes = {}
      BY <2>1, <2>2 DEF Quizzes
    <2>4. DOMAIN submits = {}
      BY <2>1, <2>2, LenProperties
    <2> QED
      BY <2>1, <2>2, <2>3, <2>4
  <1>2. TypeOK
    <2>1. /\ Len(quizzes) =< MaxQuizzes /\ Len(submits) =< MaxSubmits
          /\ starts \in 0 .. MaxQuizzes /\ shown \in 0 .. MaxShowings
      BY <1>1, Bounds DEF Init
    <2>2. /\ loads \in [1 .. MaxQuizzes -> Nat] /\ reopened \in [1 .. MaxShowings -> Nat]
          /\ opening \subseteq Quizzes /\ overlapped \in BOOLEAN
      BY DEF Init
    <2>3. /\ answered \in BOOLEAN /\ timer \in BOOLEAN /\ page \in {"home", "quiz"}
          /\ options \in {"none", "enabled", "disabled"}
          /\ button \in {"none", "next", "finish"}
      BY DEF Init
    <2> QED
      BY <1>1, <2>1, <2>2, <2>3 DEF TypeOK
  <1>3. RangeInv
    BY <1>1, Bounds DEF Init, RangeInv
  <1> QED
    BY <1>2, <1>3 DEF TypeInv

\* A question for quiz q, first or later.
LEMMA ShowTypes ==
    ASSUME TypeInv, NEW q \in Quizzes, FirstQuestion(q) \/ LaterQuestion(q)
    PROVE  TypeInv'
  <1> USE DEF TypeInv
  <1>1. Show(q)
    BY DEF FirstQuestion, LaterQuestion
  <1>2. /\ quizzes' \in Seq(Quiz)
        /\ Len(quizzes') = Len(quizzes) /\ Quizzes' = Quizzes /\ Current' = Current
        /\ Current \in Quizzes
        /\ shown' = shown + 1 /\ shown' \in 0 .. MaxShowings /\ shown \in 0 .. MaxShowings
        /\ \A x \in Quizzes \ {q} : quizzes'[x] = quizzes[x]
        /\ quizzes'[q].question = shown + 1
        /\ quizzes'[q].index = quizzes[q].index + 1
        /\ answered' = FALSE
    BY <1>1, ShowEffect
  <1>3. UNCHANGED <<starts, submits, overlapped>>
    BY DEF FirstQuestion, LaterQuestion
  <1>4. opening' \subseteq Quizzes /\ loads' \in [1 .. MaxQuizzes -> Nat]
    <2>1. CASE FirstQuestion(q)
      BY <2>1 DEF FirstQuestion, TypeOK
    <2>2. CASE LaterQuestion(q)
      <3>1. loads' = [loads EXCEPT ![q] = loads[q] - 1] /\ loads[q] > 0 /\ opening' = opening
        BY <2>2 DEF LaterQuestion
      <3>2. q \in 1 .. MaxQuizzes
        BY Sequences, Bounds DEF Quizzes, TypeOK
      <3>3. loads[q] \in Nat
        BY <3>2 DEF TypeOK
      <3>4. loads[q] - 1 \in Nat
        BY <3>1, <3>3
      <3> QED
        BY <3>1, <3>2, <3>4 DEF TypeOK
    <2> QED
      BY <2>1, <2>2
  <1>5. page' \in {"home", "quiz"} /\ timer' \in BOOLEAN
    BY DEF FirstQuestion, LaterQuestion, TypeOK
  <1>6. /\ options' \in {"none", "enabled", "disabled"}
        /\ button' \in {"none", "next", "finish"}
        /\ reopened' \in [1 .. MaxShowings -> Nat]
    <2> DEFINE n == quizzes'[Current].question
    <2>1. quizzes'[Current] \in Quiz
      BY <1>2, ElementOfSeq DEF Quizzes, Current
    <2>2. n \in 0 .. MaxShowings
      BY <2>1 DEF Quiz
    <2>3. /\ n = 0 => UNCHANGED <<options, button, reopened>>
          /\ n # 0 => /\ options' = "enabled" /\ button' = "none"
                      /\ \/ reopened' = reopened
                         \/ reopened' = [reopened EXCEPT ![n] = @ + 1]
      BY <1>1, ShowEffect
    <2>4. /\ options \in {"none", "enabled", "disabled"}
          /\ button \in {"none", "next", "finish"}
          /\ reopened \in [1 .. MaxShowings -> Nat]
      BY DEF TypeOK
    <2> HIDE DEF n
    <2> QED
      BY <2>2, <2>3, <2>4, Bounds
  <1>7. TypeOK'
    BY <1>2, <1>3, <1>4, <1>5, <1>6 DEF TypeOK
  <1>8. RangeInv'
    <2>1. \A x \in Quizzes : quizzes[x].question \in Int /\ quizzes[x].index \in Int
      BY Sequences DEF Quiz
    <2>2. \A x \in Quizzes : quizzes'[x].question =< shown' /\ quizzes'[x].index =< shown'
      BY <1>2, <2>1 DEF RangeInv
    <2>3. \A s \in DOMAIN submits : submits[s].question \in Int
      BY Sequences DEF Submission
    <2>4. \A s \in DOMAIN submits' : /\ submits'[s].quiz \in Quizzes'
                                     /\ submits'[s].question =< shown'
      BY <1>2, <1>3, <2>3 DEF RangeInv
    <2>5. Current' > 0
      BY <1>2, Sequences DEF Quizzes
    <2> QED
      BY <1>2, <1>3, <2>2, <2>4, <2>5 DEF RangeInv
  <1> QED
    BY <1>7, <1>8

\* An option is clicked, or time is up.
LEMMA SubmitTypes ==
    ASSUME TypeInv, ClickOption \/ TimeUp
    PROVE  TypeInv'
  <1> USE DEF TypeInv
  <1>1. UNCHANGED <<quizState, page, options, button, reopened, overlapped>> /\ Current > 0
    BY DEF ClickOption, TimeUp, RangeInv
  <1>2. Quizzes' = Quizzes /\ Current' = Current
    BY <1>1 DEF quizState, Quizzes, Current
  <1>3. CASE submits' = submits
    <2>1. timer' \in BOOLEAN /\ answered' \in BOOLEAN
      BY DEF ClickOption, TimeUp, SubmitQuizAnswer, TypeOK
    <2> QED
      BY <1>1, <1>2, <1>3, <2>1 DEF TypeOK, RangeInv, quizState
  <1>4. CASE submits' # submits
    <2>1. PICK timedOut \in BOOLEAN : SubmitQuizAnswer(timedOut)
      BY <1>4 DEF ClickOption, TimeUp
    <2>2. /\ timer' = FALSE /\ answered' = TRUE
          /\ Current \in Quizzes
          /\ submits' \in Seq(Submission) /\ Len(submits') =< MaxSubmits
          /\ DOMAIN submits' = DOMAIN submits \cup {Len(submits) + 1}
          /\ \A s \in DOMAIN submits : submits'[s] = submits[s]
          /\ submits'[Len(submits) + 1] =
                [quiz |-> Current, question |-> quizzes[Current].question,
                 timedOut |-> timedOut, right |-> FALSE, state |-> "sent"]
      BY <1>1, <1>4, <2>1, SubmitEffect
    <2>3. TypeOK'
      BY <1>1, <1>2, <2>2 DEF TypeOK, quizState
    <2>4. /\ submits'[Len(submits) + 1].quiz = Current
          /\ submits'[Len(submits) + 1].question = quizzes[Current].question
      BY <2>2
    <2>5. RangeInv'
      BY <1>1, <1>2, <2>2, <2>4 DEF RangeInv, quizState
    <2> QED
      BY <2>3, <2>5
  <1> QED
    BY <1>3, <1>4

\* A submission is served, or its reply handled.
LEMMA ReplyTypes ==
    ASSUME TypeInv, NEW s \in DOMAIN submits, Serve(s) \/ Accepted(s) \/ Rejected(s)
    PROVE  TypeInv'
  <1> USE DEF TypeInv
  <1>1. /\ submits' \in Seq(Submission)
        /\ Len(submits') = Len(submits) /\ DOMAIN submits' = DOMAIN submits
        /\ \A x \in DOMAIN submits : /\ submits'[x].quiz = submits[x].quiz
                                     /\ submits'[x].question = submits[x].question
    BY ReplyEffect
  <1>2. CASE Serve(s)
    <2>1. UNCHANGED <<quizState, pageState, reopened, overlapped>>
      BY <1>2 DEF Serve
    <2>2. Quizzes' = Quizzes /\ Current' = Current
      BY <2>1 DEF quizState, Quizzes, Current
    <2> QED
      BY <1>1, <2>1, <2>2 DEF quizState, pageState, TypeOK, RangeInv
  <1>3. CASE Accepted(s)
    <2>1. /\ quizzes' \in Seq(Quiz) /\ Len(quizzes') = Len(quizzes)
          /\ Quizzes' = Quizzes /\ Current' = Current
          /\ \A x \in Quizzes : /\ quizzes'[x].question = quizzes[x].question
                                /\ quizzes'[x].index = quizzes[x].index
          /\ \/ options' = "disabled" /\ button' \in {"next", "finish"}
             \/ UNCHANGED <<options, button>>
          /\ UNCHANGED <<starts, opening, loads, shown, answered, timer, page, reopened, overlapped>>
      BY <1>3, AcceptedEffect
    <2>2. TypeOK'
      BY <1>1, <2>1 DEF TypeOK
    <2>3. RangeInv'
      BY <1>1, <2>1 DEF RangeInv
    <2> QED
      BY <2>2, <2>3
  <1>4. CASE Rejected(s)
    <2>1. UNCHANGED <<quizState, timer, page, options, button, overlapped>> /\ answered' = FALSE
      BY <1>4 DEF Rejected
    <2>2. Quizzes' = Quizzes /\ Current' = Current
      BY <2>1 DEF quizState, Quizzes, Current
    <2>3. reopened' \in [1 .. MaxShowings -> Nat]
      <3>1. submits[s].quiz \in Quizzes
        BY DEF RangeInv
      <3>2. Current \in Quizzes
        BY <3>1, Sequences DEF Quizzes, Current
      <3>3. quizzes[Current].question \in 0 .. MaxShowings
        BY <3>2, Sequences DEF Quiz
      <3> DEFINE n == quizzes[Current].question
      <3>4. \/ n = 0 /\ reopened' = reopened
            \/ n # 0 /\ reopened' = [reopened EXCEPT ![n] = @ + 1]
        BY <1>4 DEF Rejected
      <3>5. n # 0 => n \in 1 .. MaxShowings
        BY <3>3, Bounds
      <3>6. reopened \in [1 .. MaxShowings -> Nat]
        BY DEF TypeOK
      <3> HIDE DEF n
      <3>7. CASE n = 0
        BY <3>4, <3>6, <3>7
      <3>8. CASE n # 0
        <4>1. reopened[n] + 1 \in Nat
          BY <3>5, <3>6, <3>8
        <4> QED
          BY <3>4, <3>5, <3>6, <3>8, <4>1
      <3> QED
        BY <3>7, <3>8
    <2> QED
      BY <1>1, <2>1, <2>2, <2>3 DEF quizState, TypeOK, RangeInv
  <1> QED
    BY <1>2, <1>3, <1>4

LEMMA TypeStep == TypeInv /\ [Next]_vars => TypeInv'
  <1> SUFFICES ASSUME TypeInv, [Next]_vars PROVE TypeInv'
    OBVIOUS
  <1> USE DEF TypeInv
  <1>1. CASE ClickSubject \/ StartFails
    <2>1. /\ UNCHANGED <<quizzes, opening, loads, shown, submits, pageState, reopened>>
          /\ \/ starts' = starts + 1 /\ Len(quizzes) + starts < MaxQuizzes
             \/ starts' = starts - 1 /\ starts > 0
      BY <1>1 DEF ClickSubject, StartFails
    <2>2. overlapped' \in BOOLEAN
      <3>1. CASE ClickSubject
        <4>1. overlapped' = (overlapped \/ starts > 0 \/ opening # {})
          BY <3>1 DEF ClickSubject
        <4> QED
          BY <4>1
      <3>2. CASE StartFails
        BY <3>2 DEF StartFails, TypeOK
      <3> QED
        BY <1>1, <3>1, <3>2
    <2>3. starts' \in 0 .. MaxQuizzes /\ Len(quizzes) + starts' =< MaxQuizzes
      <3>1. /\ Len(quizzes) \in Nat /\ starts \in 0 .. MaxQuizzes
            /\ Len(quizzes) + starts =< MaxQuizzes
        BY Sequences DEF TypeOK, RangeInv
      <3> QED
        BY <2>1, <3>1, Bounds
    <2> QED
      BY <2>1, <2>2, <2>3 DEF TypeOK, RangeInv, pageState, Quizzes, Current
  <1>2. CASE Started
    <2>1. /\ quizzes' \in Seq(Quiz) /\ Len(quizzes') = Len(quizzes) + 1
          /\ Quizzes' = Quizzes \cup {Len(quizzes) + 1}
          /\ Current' > 0
          /\ \A x \in Quizzes : quizzes'[x] = quizzes[x]
          /\ quizzes'[Len(quizzes) + 1] = NewQuiz
          /\ starts > 0 /\ starts' = starts - 1
          /\ opening' = opening \cup {Len(quizzes) + 1}
          /\ UNCHANGED <<loads, shown, submits, pageState, reopened, overlapped>>
      BY <1>2, StartedEffect
    <2>2. Len(quizzes) \in Nat /\ starts \in 0 .. MaxQuizzes /\ Len(quizzes) + starts =< MaxQuizzes
      BY Sequences DEF TypeOK, RangeInv
    <2>3. /\ starts' \in 0 .. MaxQuizzes /\ Len(quizzes') =< MaxQuizzes
          /\ Len(quizzes') + starts' =< MaxQuizzes
      BY <2>1, <2>2, Bounds
    <2>4. NewQuiz.question = 0 /\ NewQuiz.index = 0 /\ 0 =< shown
      BY Bounds DEF NewQuiz, TypeOK
    <2>5. TypeOK'
      BY <2>1, <2>3 DEF TypeOK, pageState
    <2>6. RangeInv'
      BY <2>1, <2>3, <2>4 DEF RangeInv
    <2> QED
      BY <2>5, <2>6
  <1>3. ASSUME NEW q \in Quizzes, FirstQuestion(q) \/ LaterQuestion(q) PROVE TypeInv'
    BY <1>3, ShowTypes
  <1>4. ASSUME NEW q \in Quizzes, LoadFails(q) PROVE TypeInv'
    <2>1. UNCHANGED <<quizzes, starts, shown, submits, pageState, reopened, overlapped>>
      BY <1>4 DEF LoadFails
    <2>2. opening' \subseteq Quizzes /\ loads' \in [1 .. MaxQuizzes -> Nat]
      <3>1. CASE opening' = opening \ {q} /\ loads' = loads
        BY <3>1 DEF TypeOK
      <3>2. CASE loads[q] > 0 /\ loads' = [loads EXCEPT ![q] = loads[q] - 1] /\ opening' = opening
        <4>1. q \in 1 .. MaxQuizzes
          BY Sequences, Bounds DEF Quizzes, TypeOK
        <4>2. loads[q] \in Nat
          BY <4>1 DEF TypeOK
        <4>3. loads[q] - 1 \in Nat
          BY <3>2, <4>2
        <4> QED
          BY <3>2, <4>1, <4>3 DEF TypeOK
      <3> QED
        BY <1>4, <3>1, <3>2 DEF LoadFails
    <2> QED
      BY <2>1, <2>2 DEF TypeOK, RangeInv, pageState, Quizzes, Current
  <1>5. CASE ClickNext
    <2>1. UNCHANGED <<quizzes, starts, opening, shown, submits, pageState, reopened, overlapped>>
      BY <1>5 DEF ClickNext
    <2>2. loads' \in [1 .. MaxQuizzes -> Nat]
      <3>1. loads' = [loads EXCEPT ![Current] = loads[Current] + 1] /\ Current > 0
        BY <1>5 DEF ClickNext, RangeInv
      <3>2. Current \in 1 .. MaxQuizzes
        BY <3>1, Sequences, Bounds DEF Current, TypeOK
      <3>3. loads[Current] + 1 \in Nat
        BY <3>2 DEF TypeOK
      <3> HIDE DEF Current
      <3> QED
        BY <3>1, <3>2, <3>3 DEF TypeOK
    <2> QED
      BY <2>1, <2>2 DEF TypeOK, RangeInv, pageState, Quizzes, Current
  <1>6. CASE ClickOption \/ TimeUp
    BY <1>6, SubmitTypes
  <1>7. ASSUME NEW s \in DOMAIN submits, Serve(s) \/ Accepted(s) \/ Rejected(s) PROVE TypeInv'
    BY <1>7, ReplyTypes
  <1>8. CASE ClickFinish
    <2>1. /\ quizzes' \in Seq(Quiz) /\ Len(quizzes') = Len(quizzes)
          /\ Quizzes' = Quizzes /\ Current' = Current
          /\ \A x \in Quizzes \ {Current} : quizzes'[x] = quizzes[x]
          /\ quizzes'[Current].question = 0
          /\ quizzes'[Current].index = quizzes[Current].index
          /\ UNCHANGED <<starts, opening, loads, shown, submits, pageState, reopened, overlapped>>
      BY <1>8, FinishEffect
    <2>2. 0 =< shown
      BY Bounds DEF TypeOK
    <2>3. TypeOK'
      BY <2>1 DEF TypeOK, pageState
    <2>4. RangeInv'
      BY <2>1, <2>2 DEF RangeInv, pageState
    <2> QED
      BY <2>3, <2>4
  <1>9. CASE Leave
    <2>1. /\ UNCHANGED <<quizState, submits, answered, options, button, reopened, overlapped>>
          /\ page' = "home" /\ timer' = FALSE
      BY <1>9 DEF Leave
    <2> QED
      BY <2>1 DEF TypeOK, RangeInv, quizState, Quizzes, Current
  <1>10. CASE UNCHANGED vars
    BY <1>10 DEF vars, quizState, pageState, TypeOK, RangeInv, Quizzes, Current
  <1> QED
    BY <1>1, <1>2, <1>3, <1>4, <1>5, <1>6, <1>7, <1>8, <1>9, <1>10 DEF Next

LEMMA TypeInvariance == Spec => []TypeInv
  BY TypeInit, TypeStep, PTL DEF Spec

-----------------------------------------------------------------------------
(* The tallies *)

\* The right answers counted in quiz q.
RightIn(q) == {s \in DOMAIN submits : /\ submits[s].quiz = q
                                      /\ submits[s].state = "counted"
                                      /\ submits[s].right}

LEMMA SubmitSets ==
    ASSUME TypeInv
    PROVE  \A S \in SUBSET DOMAIN submits : IsFiniteSet(S) /\ Cardinality(S) \in Nat
  <1>1. DOMAIN submits = 1 .. Len(submits) /\ Len(submits) \in Int
    BY Sequences DEF TypeInv
  <1>2. IsFiniteSet(DOMAIN submits)
    BY <1>1, FS_Interval
  <1> QED
    BY <1>2, FS_Subset, FS_CardinalityType

LEMMA TalliesStep == TypeInv /\ TalliesAreOfTheirQuiz /\ [Next]_vars => TalliesAreOfTheirQuiz'
  <1> SUFFICES ASSUME TypeInv, TalliesAreOfTheirQuiz, [Next]_vars
               PROVE  \A q \in Quizzes' : quizzes'[q].correctCount = Cardinality(RightIn(q)')
    BY DEF TalliesAreOfTheirQuiz, RightIn
  <1>1. \A q \in Quizzes : quizzes[q].correctCount = Cardinality(RightIn(q))
    BY DEF TalliesAreOfTheirQuiz, RightIn
  \* Tallies and counted answers stay as they are.
  <1>2. ASSUME Quizzes' = Quizzes,
               \A q \in Quizzes : quizzes'[q].correctCount = quizzes[q].correctCount,
               \A q \in Quizzes : RightIn(q)' = RightIn(q)
        PROVE  \A q \in Quizzes' : quizzes'[q].correctCount = Cardinality(RightIn(q)')
    BY <1>1, <1>2
  <1>3. ASSUME UNCHANGED <<quizzes, submits>>
        PROVE  \A q \in Quizzes' : quizzes'[q].correctCount = Cardinality(RightIn(q)')
    BY <1>2, <1>3 DEF RightIn, Quizzes
  <1>4. CASE ClickSubject \/ StartFails \/ (\E q \in Quizzes : LoadFails(q))
             \/ ClickNext \/ Leave \/ UNCHANGED vars
    BY <1>3, <1>4 DEF ClickSubject, StartFails, LoadFails, ClickNext, Leave, vars, quizState
  <1>5. CASE Started
    <2>0. PICK new : new = Len(quizzes) + 1
      OBVIOUS
    <2>1. /\ Quizzes' = Quizzes \cup {new} /\ new \notin Quizzes
          /\ \A x \in Quizzes : quizzes'[x] = quizzes[x]
          /\ quizzes'[new] = NewQuiz /\ submits' = submits
      BY <1>5, <2>0, StartedEffect
    <2>2. \A q : RightIn(q)' = RightIn(q)
      BY <2>1 DEF RightIn
    <2>3. RightIn(new) = {}
      BY <2>1 DEF RightIn, TypeInv, RangeInv
    <2>4. quizzes'[new].correctCount = Cardinality(RightIn(new)')
      BY <2>1, <2>2, <2>3, FS_EmptySet DEF NewQuiz
    <2> QED
      BY <1>1, <2>1, <2>2, <2>4
  <1>6. ASSUME NEW q \in Quizzes, FirstQuestion(q) \/ LaterQuestion(q)
        PROVE  \A x \in Quizzes' : quizzes'[x].correctCount = Cardinality(RightIn(x)')
    <2>1. Show(q) /\ submits' = submits
      BY <1>6 DEF FirstQuestion, LaterQuestion
    <2>2. /\ Quizzes' = Quizzes
          /\ \A x \in Quizzes : quizzes'[x].correctCount = quizzes[x].correctCount
      BY <2>1, ShowEffect
    <2>3. \A x : RightIn(x)' = RightIn(x)
      BY <2>1 DEF RightIn
    <2> QED
      BY <1>2, <2>2, <2>3
  <1>7. CASE ClickOption \/ TimeUp
    <2>1. quizzes' = quizzes /\ Current > 0
      BY <1>7 DEF ClickOption, TimeUp, quizState, TypeInv, RangeInv
    <2>2. CASE submits' = submits
      BY <1>3, <2>1, <2>2
    <2>3. CASE submits' # submits
      <3>1. PICK timedOut \in BOOLEAN : SubmitQuizAnswer(timedOut)
        BY <1>7, <2>3 DEF ClickOption, TimeUp
      <3>2. /\ DOMAIN submits' = DOMAIN submits \cup {Len(submits) + 1}
            /\ \A s \in DOMAIN submits : submits'[s] = submits[s]
            /\ submits'[Len(submits) + 1] =
                  [quiz |-> Current, question |-> quizzes[Current].question,
                   timedOut |-> timedOut, right |-> FALSE, state |-> "sent"]
        BY <2>1, <2>3, <3>1, SubmitEffect
      <3>3. submits'[Len(submits) + 1].state = "sent"
        BY <3>2
      <3>4. \A q : RightIn(q)' = RightIn(q)
        BY <3>2, <3>3 DEF RightIn
      <3> QED
        BY <1>2, <2>1, <3>4 DEF Quizzes
    <2> QED
      BY <2>2, <2>3
  <1>8. ASSUME NEW s \in DOMAIN submits, Serve(s) \/ Rejected(s)
        PROVE  \A q \in Quizzes' : quizzes'[q].correctCount = Cardinality(RightIn(q)')
    <2>1. quizzes' = quizzes
      BY <1>8 DEF Serve, Rejected, quizState
    <2>2. /\ DOMAIN submits' = DOMAIN submits
          /\ \A x \in DOMAIN submits \ {s} : submits'[x] = submits[x]
          /\ submits[s].state # "counted" /\ submits'[s].state # "counted"
      BY <1>8, ReplyEffect DEF Pending
    <2>3. \A q : RightIn(q)' = RightIn(q)
      BY <2>2 DEF RightIn
    <2> QED
      BY <1>2, <2>1, <2>3 DEF Quizzes
  <1>9. ASSUME NEW s \in DOMAIN submits, Accepted(s)
        PROVE  \A q \in Quizzes' : quizzes'[q].correctCount = Cardinality(RightIn(q)')
    <2>0. PICK at, counted :
             /\ at = submits[s].quiz
             /\ counted = (quizzes[submits[s].quiz].question # 0)
      OBVIOUS
    <2>1. /\ at \in Quizzes /\ Quizzes' = Quizzes
          /\ \A x \in Quizzes : x # at => quizzes'[x] = quizzes[x]
          /\ quizzes'[at].correctCount =
                IF counted /\ submits[s].right THEN quizzes[at].correctCount + 1
                                               ELSE quizzes[at].correctCount
      BY <1>9, <2>0, AcceptedEffect
    <2>2. /\ DOMAIN submits' = DOMAIN submits
          /\ \A x \in DOMAIN submits \ {s} : submits'[x] = submits[x]
          /\ submits[s].state = "recorded" /\ submits'[s].quiz = at
          /\ submits'[s].right = submits[s].right
          /\ submits'[s].state = IF ~ counted THEN "aborted" ELSE "counted"
      BY <1>9, <2>0, ReplyEffect
    <2>3. \A q : q # at => RightIn(q)' = RightIn(q)
      BY <2>2 DEF RightIn
    <2>4. /\ s \notin RightIn(at)
          /\ RightIn(at)' = IF counted /\ submits[s].right THEN RightIn(at) \cup {s}
                                                           ELSE RightIn(at)
      BY <2>2 DEF RightIn
    <2>5. /\ IsFiniteSet(RightIn(at))
          /\ Cardinality(RightIn(at) \cup {s}) = Cardinality(RightIn(at)) + 1
      <3>1. RightIn(at) \in SUBSET DOMAIN submits
        BY DEF RightIn
      <3> QED
        BY <2>4, <3>1, SubmitSets, FS_AddElement
    <2>6. quizzes'[at].correctCount = Cardinality(RightIn(at)')
      BY <1>1, <2>1, <2>4, <2>5
    <2> QED
      BY <1>1, <2>1, <2>3, <2>6
  <1>10. CASE ClickFinish
    <2>1. /\ Quizzes' = Quizzes /\ submits' = submits
          /\ \A x \in Quizzes : quizzes'[x].correctCount = quizzes[x].correctCount
      BY <1>10, FinishEffect
    <2>2. \A x : RightIn(x)' = RightIn(x)
      BY <2>1 DEF RightIn
    <2> QED
      BY <1>2, <2>1, <2>2
  <1> QED
    BY <1>4, <1>5, <1>6, <1>7, <1>8, <1>9, <1>10 DEF Next

-----------------------------------------------------------------------------
(* Answers to one question *)

AnswersTo(n) == {s \in DOMAIN submits : submits[s].question = n}

\* The question the page is about, 0 for none.
Asked == quizzes[Current].question

\* A page that takes an answer to its question has taken fewer than it may.
UnlockInv ==
    /\ AnsweredOncePerUnlock
    /\ Current > 0 /\ Asked # 0 /\ ~ answered =>
          Cardinality(AnswersTo(Asked)) =< reopened[Asked]

LEMMA AnswerNumbers ==
    ASSUME TypeInv
    PROVE  /\ \A n : IsFiniteSet(AnswersTo(n)) /\ Cardinality(AnswersTo(n)) \in Nat
           /\ \A n \in 1 .. shown : n \in 1 .. MaxShowings /\ reopened[n] \in Nat
           /\ Current \in Int /\ shown \in 0 .. MaxShowings
           /\ Current > 0 => Current \in Quizzes /\ Asked \in 0 .. shown
  <1>1. \A n : AnswersTo(n) \in SUBSET DOMAIN submits
    BY DEF AnswersTo
  <1>2. shown \in 0 .. MaxShowings
    BY DEF TypeInv, TypeOK
  <1>3. \A n \in 1 .. shown : n \in 1 .. MaxShowings /\ reopened[n] \in Nat
    BY <1>2, Bounds DEF TypeInv, TypeOK
  <1>4. /\ Len(quizzes) \in Nat
        /\ \A q \in Quizzes : quizzes[q] \in Quiz
    BY Sequences DEF TypeInv
  <1>5. Current > 0 => Current \in Quizzes
    BY <1>4 DEF Current, Quizzes
  <1>6. Current > 0 => Asked \in 0 .. MaxShowings /\ Asked =< shown
    BY <1>4, <1>5 DEF Asked, Quiz, TypeInv, RangeInv
  <1>7. Current > 0 => Asked \in 0 .. shown
    BY <1>2, <1>6, Bounds
  <1> QED
    BY <1>1, <1>2, <1>3, <1>4, <1>5, <1>7, SubmitSets DEF Current

\* Steps that post nothing and unlock nothing.
LEMMA UnlockQuiet ==
    ASSUME TypeInv, UnlockInv, DOMAIN submits' = DOMAIN submits,
           \A s \in DOMAIN submits : submits'[s].question = submits[s].question,
           UNCHANGED <<shown, reopened>>,
           Asked' = 0 \/ UNCHANGED <<Current, Asked, answered>>
    PROVE  UnlockInv'
  <1>1. \A n : AnswersTo(n)' = AnswersTo(n)
    BY DEF AnswersTo
  <1>2. AnsweredOncePerUnlock'
    BY <1>1 DEF UnlockInv, AnsweredOncePerUnlock, AnswersTo
  <1> QED
    BY <1>1, <1>2 DEF UnlockInv

\* A question arrives: nobody has answered it, and the one shown instead, if
\* another, is unlocked once more.
LEMMA UnlockShow ==
    ASSUME TypeInv, UnlockInv, NEW q \in Quizzes, Show(q), submits' = submits
    PROVE  UnlockInv'
  <1>1. /\ Current' = Current /\ Current \in Quizzes /\ answered' = FALSE
        /\ shown' = shown + 1 /\ shown' \in 0 .. MaxShowings /\ shown \in 0 .. MaxShowings
        /\ \A x \in Quizzes \ {q} : quizzes'[x] = quizzes[x]
        /\ quizzes'[q].question = shown + 1
        /\ Asked' = 0 => UNCHANGED reopened
        /\ Asked' # 0 => reopened' = IF q = Current THEN reopened
                                     ELSE [reopened EXCEPT ![Asked'] = @ + 1]
    BY ShowEffect DEF Asked
  <1>2. Asked' = IF q = Current THEN shown + 1 ELSE Asked
    BY <1>1 DEF Asked
  <1>3. \A n : AnswersTo(n)' = AnswersTo(n)
    BY DEF AnswersTo
  <1>4. /\ \A n : Cardinality(AnswersTo(n)) \in Nat
        /\ \A n \in 1 .. shown : n \in 1 .. MaxShowings /\ reopened[n] \in Nat
        /\ Asked \in 0 .. shown
        /\ reopened \in [1 .. MaxShowings -> Nat]
    <2>1. Current > 0
      BY <1>1, Sequences DEF TypeInv, Quizzes
    <2> QED
      BY <2>1, AnswerNumbers DEF TypeInv, TypeOK
  <1>5. Cardinality(AnswersTo(shown + 1)) = 0
    <2>1. \A s \in DOMAIN submits : submits[s].question \in Int /\ submits[s].question =< shown
      BY Sequences DEF TypeInv, RangeInv, Submission
    <2>2. AnswersTo(shown + 1) = {}
      BY <1>1, <2>1 DEF AnswersTo
    <2> QED
      BY <2>2, FS_EmptySet
  <1>6. shown + 1 \in 1 .. MaxShowings /\ reopened[shown + 1] \in Nat
    BY <1>1, <1>4, Bounds
  <1>7. \A n \in 1 .. shown : Cardinality(AnswersTo(n)) =< 1 + reopened[n]
    BY DEF UnlockInv, AnsweredOncePerUnlock, AnswersTo
  <1>8. CASE q = Current
    <2>1. reopened' = reopened /\ Asked' = shown + 1
      BY <1>1, <1>2, <1>8
    <2>2. \A n \in 1 .. shown' : Cardinality(AnswersTo(n)') =< 1 + reopened'[n]
      BY <1>1, <1>3, <1>5, <1>6, <1>7, <2>1
    <2>3. Cardinality(AnswersTo(Asked)') =< reopened'[Asked']
      BY <1>3, <1>5, <1>6, <2>1
    <2> QED
      BY <2>2, <2>3 DEF UnlockInv, AnsweredOncePerUnlock, AnswersTo
  <1>9. CASE q # Current /\ Asked = 0
    <2>1. reopened' = reopened /\ Asked' = 0
      BY <1>1, <1>2, <1>9
    <2>2. \A n \in 1 .. shown' : Cardinality(AnswersTo(n)') =< 1 + reopened'[n]
      BY <1>1, <1>3, <1>5, <1>6, <1>7, <2>1
    <2> QED
      BY <2>1, <2>2 DEF UnlockInv, AnsweredOncePerUnlock, AnswersTo
  <1>10. CASE q # Current /\ Asked # 0
    <2>1. reopened' = [reopened EXCEPT ![Asked] = @ + 1] /\ Asked' = Asked
      BY <1>1, <1>2, <1>10
    <2>2. Asked \in 1 .. shown
      BY <1>1, <1>4, <1>10
    <2>3. /\ reopened'[Asked] = reopened[Asked] + 1
          /\ \A n \in (1 .. MaxShowings) \ {Asked} : reopened'[n] = reopened[n]
      BY <1>4, <2>1, <2>2
    <2>4. \A n \in 1 .. shown' : Cardinality(AnswersTo(n)') =< 1 + reopened'[n]
      <3> SUFFICES ASSUME NEW n \in 1 .. shown + 1
                   PROVE  Cardinality(AnswersTo(n)) =< 1 + reopened'[n]
        BY <1>1, <1>3
      <3>1. CASE n = shown + 1
        BY <1>1, <1>5, <1>6, <2>2, <2>3, <3>1
      <3>2. CASE n = Asked
        BY <1>4, <1>7, <2>2, <2>3, <3>2
      <3>3. CASE n # Asked /\ n # shown + 1
        <4>1. n \in 1 .. shown
          BY <1>1, <3>3
        <4> QED
          BY <1>4, <1>7, <2>3, <3>3, <4>1
      <3> QED
        BY <3>1, <3>2, <3>3
    <2>5. Cardinality(AnswersTo(Asked)') =< reopened'[Asked']
      BY <1>3, <1>4, <1>7, <2>1, <2>2, <2>3
    <2> QED
      BY <2>4, <2>5 DEF UnlockInv, AnsweredOncePerUnlock, AnswersTo
  <1> QED
    BY <1>8, <1>9, <1>10

\* An answer is posted: the page was unlocked, and is not any more.
LEMMA UnlockSubmit ==
    ASSUME TypeInv, UnlockInv, ClickOption \/ TimeUp
    PROVE  UnlockInv'
  <1>1. UNCHANGED <<quizState, reopened>> /\ Current > 0
    BY DEF ClickOption, TimeUp, TypeInv, RangeInv
  <1>2. UNCHANGED <<Current, Asked, shown, reopened>>
    BY <1>1 DEF quizState, Current, Asked
  <1>3. CASE answered
    <2>1. UNCHANGED <<answered, submits>>
      BY <1>3 DEF ClickOption, TimeUp
    <2> QED
      BY <1>2, <2>1, UnlockQuiet
  <1>4. CASE ~ answered /\ Asked = 0
    <2>1. submits' = submits
      BY <1>4 DEF ClickOption, TimeUp, SubmitQuizAnswer, Asked
    <2> QED
      BY <1>2, <1>4, <2>1, UnlockQuiet
  <1>5. CASE ~ answered /\ Asked # 0
    <2>1. PICK timedOut \in BOOLEAN : SubmitQuizAnswer(timedOut)
      BY <1>5 DEF ClickOption, TimeUp
    <2> DEFINE new == Len(submits) + 1
    <2>2. /\ answered' = TRUE
          /\ DOMAIN submits' = DOMAIN submits \cup {new}
          /\ \A s \in DOMAIN submits : submits'[s] = submits[s]
          /\ submits'[new] =
                [quiz |-> Current, question |-> quizzes[Current].question,
                 timedOut |-> timedOut, right |-> FALSE, state |-> "sent"]
      BY <1>1, <1>5, <2>1, SubmitEffect DEF Asked
    <2>3. submits'[new].question = Asked
      BY <2>2 DEF Asked
    <2>4. new \notin DOMAIN submits
      BY Sequences DEF TypeInv
    <2> HIDE DEF new
    <2>5. /\ AnswersTo(Asked)' = AnswersTo(Asked) \cup {new}
          /\ new \notin AnswersTo(Asked)
          /\ \A n : n # Asked => AnswersTo(n)' = AnswersTo(n)
      BY <1>2, <2>2, <2>3, <2>4 DEF AnswersTo
    <2>6. Cardinality(AnswersTo(Asked)') = Cardinality(AnswersTo(Asked)) + 1
      BY <2>5, AnswerNumbers, FS_AddElement
    <2>7. Cardinality(AnswersTo(Asked)) =< reopened[Asked]
      BY <1>1, <1>5 DEF UnlockInv
    <2>8. Asked \in 1 .. shown /\ reopened[Asked] \in Nat
      BY <1>1, <1>5, AnswerNumbers
    <2>9. \A n \in 1 .. shown : Cardinality(AnswersTo(n)') =< 1 + reopened[n]
      <3> SUFFICES ASSUME NEW n \in 1 .. shown
                   PROVE  Cardinality(AnswersTo(n)') =< 1 + reopened[n]
        OBVIOUS
      <3>1. CASE n = Asked
        BY <1>2, <2>6, <2>7, <2>8, <3>1, AnswerNumbers
      <3>2. CASE n # Asked
        BY <2>5, <3>2 DEF UnlockInv, AnsweredOncePerUnlock, AnswersTo
      <3> QED
        BY <3>1, <3>2
    <2> QED
      BY <1>2, <2>2, <2>9 DEF UnlockInv, AnsweredOncePerUnlock, AnswersTo
  <1> QED
    BY <1>3, <1>4, <1>5

\* An error unlocks the page once more.
LEMMA UnlockRejected ==
    ASSUME TypeInv, UnlockInv, NEW s \in DOMAIN submits, Rejected(s)
    PROVE  UnlockInv'
  <1>1. /\ DOMAIN submits' = DOMAIN submits
        /\ \A x \in DOMAIN submits : submits'[x].question = submits[x].question
    BY ReplyEffect
  <1>2. /\ UNCHANGED <<Current, Asked, shown>>
        /\ reopened' = IF Asked = 0 THEN reopened ELSE [reopened EXCEPT ![Asked] = @ + 1]
    BY DEF Rejected, quizState, Current, Asked
  <1>3. CASE Asked = 0
    BY <1>1, <1>2, <1>3, UnlockQuiet
  <1>4. CASE Asked # 0
    <2>1. \A n : AnswersTo(n)' = AnswersTo(n)
      BY <1>1 DEF AnswersTo
    <2>2. /\ \A n : Cardinality(AnswersTo(n)) \in Nat
          /\ \A n \in 1 .. shown : n \in 1 .. MaxShowings /\ reopened[n] \in Nat
          /\ Asked \in 1 .. shown
          /\ reopened \in [1 .. MaxShowings -> Nat]
      <3>1. Current > 0
        BY Sequences DEF TypeInv, RangeInv, Quizzes, Current
      <3> QED
        BY <1>4, <3>1, AnswerNumbers DEF TypeInv, TypeOK
    <2>3. /\ reopened'[Asked] = reopened[Asked] + 1
          /\ \A n \in (1 .. MaxShowings) \ {Asked} : reopened'[n] = reopened[n]
      BY <1>2, <1>4, <2>2
    <2>4. \A n \in 1 .. shown : Cardinality(AnswersTo(n)) =< 1 + reopened[n]
      BY DEF UnlockInv, AnsweredOncePerUnlock, AnswersTo
    <2>5. \A n \in 1 .. shown : Cardinality(AnswersTo(n)) =< 1 + reopened'[n]
      BY <2>2, <2>3, <2>4
    <2>6. Cardinality(AnswersTo(Asked)) =< reopened'[Asked]
      BY <2>2, <2>3, <2>4
    <2> QED
      BY <1>2, <2>1, <2>5, <2>6 DEF UnlockInv, AnsweredOncePerUnlock, AnswersTo
  <1> QED
    BY <1>3, <1>4

LEMMA UnlockStep == TypeInv /\ UnlockInv /\ [Next]_vars => UnlockInv'
  <1> SUFFICES ASSUME TypeInv, UnlockInv, [Next]_vars PROVE UnlockInv'
    OBVIOUS
  <1>1. CASE ClickSubject \/ StartFails \/ (\E q \in Quizzes : LoadFails(q))
             \/ ClickNext \/ Leave \/ UNCHANGED vars
    <2>1. UNCHANGED <<quizzes, submits, shown, reopened, answered>>
      BY <1>1 DEF ClickSubject, StartFails, LoadFails, ClickNext, Leave, vars,
          quizState, pageState
    <2>2. UNCHANGED <<Current, Asked>>
      BY <2>1 DEF Current, Asked
    <2> QED
      BY <2>1, <2>2, UnlockQuiet
  <1>2. CASE Started
    <2>1. UNCHANGED <<submits, shown, reopened>> /\ Asked' = 0
      BY <1>2, StartedEffect DEF Asked, NewQuiz
    <2> QED
      BY <2>1, UnlockQuiet
  <1>3. ASSUME NEW q \in Quizzes, FirstQuestion(q) \/ LaterQuestion(q) PROVE UnlockInv'
    BY <1>3, UnlockShow DEF FirstQuestion, LaterQuestion
  <1>4. CASE ClickOption \/ TimeUp
    BY <1>4, UnlockSubmit
  <1>5. ASSUME NEW s \in DOMAIN submits, Serve(s) PROVE UnlockInv'
    <2>1. UNCHANGED <<quizzes, shown, reopened, answered>>
      BY <1>5 DEF Serve, quizState, pageState
    <2>2. UNCHANGED <<Current, Asked>>
      BY <2>1 DEF Current, Asked
    <2> QED
      BY <1>5, <2>1, <2>2, ReplyEffect, UnlockQuiet
  <1>6. ASSUME NEW s \in DOMAIN submits, Accepted(s) PROVE UnlockInv'
    <2>1. /\ UNCHANGED <<shown, reopened, answered, Current>>
          /\ \A x \in Quizzes : quizzes'[x].question = quizzes[x].question
          /\ submits[s].quiz \in Quizzes
      BY <1>6, AcceptedEffect
    <2>2. Current \in Quizzes
      BY <2>1, Sequences DEF TypeInv, Quizzes, Current
    <2>3. Asked' = Asked
      BY <2>1, <2>2 DEF Asked
    <2> QED
      BY <1>6, <2>1, <2>3, ReplyEffect, UnlockQuiet
  <1>7. ASSUME NEW s \in DOMAIN submits, Rejected(s) PROVE UnlockInv'
    BY <1>7, UnlockRejected
  <1>8. CASE ClickFinish
    <2>1. UNCHANGED <<submits, shown, reopened>> /\ Asked' = 0
      BY <1>8, FinishEffect DEF Asked
    <2> QED
      BY <2>1, UnlockQuiet
  <1> QED
    BY <1>1, <1>2, <1>3, <1>4, <1>5, <1>6, <1>7, <1>8 DEF Next

-----------------------------------------------------------------------------
(* A way on *)

\* Whoever has answered the question shown has a button, or a reply to come.
PageInv ==
    /\ options = "disabled" => button # "none"
    /\ Current > 0 /\ Asked # 0 =>
          /\ options # "none"
          /\ answered => \/ button # "none"
                         \/ \E s \in DOMAIN submits :
                               submits[s].quiz = Current /\ submits[s].state \in Pending

\* Steps that redraw nothing and handle no reply of the current quiz.
LEMMA PageQuiet ==
    ASSUME PageInv, UNCHANGED <<options, button>>,
           \/ Asked' = 0
           \/ /\ UNCHANGED <<Current, Asked>>
              /\ ~ answered'
           \/ /\ UNCHANGED <<Current, Asked, answered>>
              /\ DOMAIN submits \subseteq DOMAIN submits'
              /\ \A s \in DOMAIN submits :
                    submits[s].quiz = Current /\ submits[s].state \in Pending =>
                       submits'[s].quiz = Current /\ submits'[s].state \in Pending
    PROVE  PageInv'
  BY DEF PageInv, Pending

LEMMA PageSubmit ==
    ASSUME TypeInv, PageInv, ClickOption \/ TimeUp
    PROVE  PageInv'
  <1>1. UNCHANGED <<quizState, options, button>> /\ Current > 0
    BY DEF ClickOption, TimeUp, TypeInv, RangeInv
  <1>2. UNCHANGED <<Current, Asked, options, button>>
    BY <1>1 DEF quizState, Current, Asked
  <1>3. CASE answered
    <2>1. UNCHANGED <<answered, submits>>
      BY <1>3 DEF ClickOption, TimeUp
    <2> QED
      BY <1>2, <2>1, PageQuiet
  <1>4. CASE Asked = 0
    BY <1>2, <1>4, PageQuiet
  <1>5. CASE ~ answered /\ Asked # 0
    <2>1. PICK timedOut \in BOOLEAN : SubmitQuizAnswer(timedOut)
      BY <1>5 DEF ClickOption, TimeUp
    <2>2. PICK new : new = Len(submits) + 1
      OBVIOUS
    <2>3. /\ DOMAIN submits' = DOMAIN submits \cup {new}
          /\ submits'[new] =
                [quiz |-> Current, question |-> quizzes[Current].question,
                 timedOut |-> timedOut, right |-> FALSE, state |-> "sent"]
      BY <1>1, <1>5, <2>1, <2>2, SubmitEffect DEF Asked
    <2>4. submits'[new].quiz = Current /\ submits'[new].state \in Pending
      BY <2>3 DEF Pending
    <2>5. options # "none" /\ (options = "disabled" => button # "none")
      BY <1>1, <1>5 DEF PageInv
    <2>6. \E s \in DOMAIN submits' :
             submits'[s].quiz = Current' /\ submits'[s].state \in Pending
      BY <1>2, <2>3, <2>4
    <2> QED
      BY <1>2, <2>5, <2>6 DEF PageInv, Pending
  <1> QED
    BY <1>3, <1>4, <1>5

LEMMA PageReply ==
    ASSUME TypeInv, PageInv, NEW s \in DOMAIN submits, Serve(s) \/ Accepted(s) \/ Rejected(s)
    PROVE  PageInv'
  <1>1. /\ DOMAIN submits' = DOMAIN submits
        /\ \A x \in DOMAIN submits \ {s} : submits'[x] = submits[x]
        /\ submits'[s].quiz = submits[s].quiz
    BY ReplyEffect
  <1>2. CASE Serve(s)
    <2>1. UNCHANGED <<quizzes, answered, options, button>>
      BY <1>2 DEF Serve, quizState, pageState
    <2>2. UNCHANGED <<Current, Asked>>
      BY <2>1 DEF Current, Asked
    <2>3. submits'[s].state \in Pending
      BY <1>2, ReplyEffect
    <2> QED
      BY <1>1, <2>1, <2>2, <2>3, PageQuiet
  <1>3. CASE Rejected(s)
    <2>1. UNCHANGED <<quizzes, options, button>> /\ answered' = FALSE
      BY <1>3 DEF Rejected, quizState
    <2>2. UNCHANGED <<Current, Asked>>
      BY <2>1 DEF Current, Asked
    <2> QED
      BY <2>1, <2>2, PageQuiet
  <1>4. CASE Accepted(s)
    <2>1. /\ submits[s].quiz \in Quizzes /\ Current' = Current
          /\ \A x \in Quizzes : quizzes'[x].question = quizzes[x].question
          /\ UNCHANGED answered
          /\ quizzes[submits[s].quiz].question # 0 =>
                options' = "disabled" /\ button' \in {"next", "finish"}
          /\ quizzes[submits[s].quiz].question = 0 => UNCHANGED <<options, button>>
      BY <1>4, AcceptedEffect
    <2>2. Current \in Quizzes
      BY <2>1, Sequences DEF TypeInv, Quizzes, Current
    <2>3. Asked' = Asked
      BY <2>1, <2>2 DEF Asked
    <2>4. CASE quizzes[submits[s].quiz].question # 0
      BY <2>1, <2>4 DEF PageInv
    <2>5. CASE quizzes[submits[s].quiz].question = 0
      <3>1. Asked # 0 => submits[s].quiz # Current
        BY <2>5 DEF Asked
      <3>2. UNCHANGED <<Current, Asked, answered, options, button>>
        BY <2>1, <2>3, <2>5
      <3> QED
        BY <1>1, <3>1, <3>2, PageQuiet
    <2> QED
      BY <2>4, <2>5
  <1> QED
    BY <1>2, <1>3, <1>4

LEMMA PageStep == TypeInv /\ PageInv /\ [Next]_vars => PageInv'
  <1> SUFFICES ASSUME TypeInv, PageInv, [Next]_vars PROVE PageInv'
    OBVIOUS
  <1>1. CASE ClickSubject \/ StartFails \/ (\E q \in Quizzes : LoadFails(q))
             \/ ClickNext \/ Leave \/ UNCHANGED vars
    <2>1. UNCHANGED <<quizzes, submits, answered, options, button>>
      BY <1>1 DEF ClickSubject, StartFails, LoadFails, ClickNext, Leave, vars,
          quizState, pageState
    <2>2. UNCHANGED <<Current, Asked>>
      BY <2>1 DEF Current, Asked
    <2> QED
      BY <2>1, <2>2, PageQuiet
  <1>2. CASE Started
    <2>1. UNCHANGED <<options, button>> /\ Asked' = 0
      BY <1>2, StartedEffect DEF Asked, NewQuiz, pageState
    <2> QED
      BY <2>1, PageQuiet
  <1>3. ASSUME NEW q \in Quizzes, FirstQuestion(q) \/ LaterQuestion(q) PROVE PageInv'
    <2>1. Show(q)
      BY <1>3 DEF FirstQuestion, LaterQuestion
    <2>2. /\ answered' = FALSE
          /\ Asked' = 0 => UNCHANGED <<options, button>>
          /\ Asked' # 0 => options' = "enabled" /\ button' = "none"
      BY <2>1, ShowEffect DEF Asked
    <2>3. CASE Asked' = 0
      BY <2>2, <2>3, PageQuiet
    <2>4. CASE Asked' # 0
      BY <2>2, <2>4 DEF PageInv
    <2> QED
      BY <2>3, <2>4
  <1>4. CASE ClickOption \/ TimeUp
    BY <1>4, PageSubmit
  <1>5. ASSUME NEW s \in DOMAIN submits, Serve(s) \/ Accepted(s) \/ Rejected(s) PROVE PageInv'
    BY <1>5, PageReply
  <1>6. CASE ClickFinish
    <2>1. UNCHANGED <<options, button>> /\ Asked' = 0
      BY <1>6, FinishEffect DEF Asked, pageState
    <2> QED
      BY <2>1, PageQuiet
  <1> QED
    BY <1>1, <1>2, <1>3, <1>4, <1>5, <1>6 DEF Next

-----------------------------------------------------------------------------
(* Starts one at a time *)

\* Where no subject has been clicked too early, a quiz is current only once it
\* has a question, or the page waits for it at home.
OverlapInv ==
    ~ overlapped =>
        /\ starts > 0 \/ opening # {} => page = "home"
        /\ starts =< 1 /\ (starts = 1 => opening = {})
        /\ opening \subseteq {Current}
        /\ page = "quiz" => quizzes[Current].index > 0

\* Steps that start nothing and turn no page but home.
LEMMA OverlapQuiet ==
    ASSUME OverlapInv, UNCHANGED <<starts, overlapped, Current>>,
           opening' \subseteq opening, page' \in {page, "home"},
           page = "quiz" => quizzes'[Current].index >= quizzes[Current].index,
           page = "quiz" => quizzes'[Current].index \in Int /\ quizzes[Current].index \in Int
    PROVE  OverlapInv'
  BY DEF OverlapInv

LEMMA OverlapStep == TypeInv /\ OverlapInv /\ [Next]_vars => OverlapInv'
  <1> SUFFICES ASSUME TypeInv, OverlapInv, [Next]_vars PROVE OverlapInv'
    OBVIOUS
  <1>1. /\ starts \in Nat /\ Current \in Nat
        /\ page = "quiz" => Current \in Quizzes
        /\ \A q \in Quizzes : quizzes[q].index \in Int /\ quizzes[q].index >= 0
    <2>1. /\ Len(quizzes) \in Nat /\ \A q \in Quizzes : quizzes[q] \in Quiz
          /\ page = "quiz" => Current > 0
      BY Sequences DEF TypeInv, RangeInv
    <2>2. starts \in Nat
      BY Bounds DEF TypeInv, TypeOK
    <2>3. \A q \in Quizzes : quizzes[q].index \in 0 .. MaxShowings
      BY <2>1 DEF Quiz
    <2> QED
      BY <2>1, <2>2, <2>3, Bounds DEF Quizzes, Current
  <1>2. CASE ClickSubject
    <2>1. ~ overlapped' => ~ overlapped /\ ~ (starts > 0) /\ opening = {}
      BY <1>2 DEF ClickSubject, TypeInv, TypeOK
    <2>2. /\ starts' = starts + 1 /\ page = "home"
          /\ UNCHANGED <<quizzes, opening, page>>
      BY <1>2 DEF ClickSubject, pageState
    <2> QED
      BY <1>1, <2>1, <2>2 DEF OverlapInv
  <1>3. CASE Started
    <2>1. /\ Current' = Len(quizzes) + 1 /\ opening' = opening \cup {Len(quizzes) + 1}
          /\ starts > 0 /\ starts' = starts - 1 /\ UNCHANGED <<page, overlapped>>
      BY <1>3, StartedEffect DEF pageState
    <2> QED
      BY <1>1, <2>1 DEF OverlapInv
  <1>4. CASE StartFails
    <2>1. /\ starts > 0 /\ starts' = starts - 1
          /\ UNCHANGED <<quizzes, opening, page, overlapped>>
      BY <1>4 DEF StartFails, pageState
    <2> QED
      BY <1>1, <2>1 DEF OverlapInv, Current
  <1>5. ASSUME NEW q \in Quizzes, FirstQuestion(q) PROVE OverlapInv'
    <2>1. /\ q \in opening /\ opening' = opening \ {q} /\ UNCHANGED <<starts, overlapped>>
          /\ Current' = Current
          /\ quizzes'[q].index = quizzes[q].index + 1
      BY <1>5, ShowEffect DEF FirstQuestion
    <2>2. ~ overlapped => starts = 0 /\ q = Current /\ opening' = {}
      BY <1>1, <2>1 DEF OverlapInv
    <2> QED
      BY <1>1, <2>1, <2>2 DEF OverlapInv
  <1>6. ASSUME NEW q \in Quizzes, LaterQuestion(q) PROVE OverlapInv'
    <2>1. /\ UNCHANGED <<starts, opening, page, overlapped, Current>>
          /\ quizzes'[q].index = quizzes[q].index + 1
          /\ \A x \in Quizzes \ {q} : quizzes'[x] = quizzes[x]
      BY <1>6, ShowEffect DEF LaterQuestion
    <2> QED
      BY <1>1, <2>1, OverlapQuiet
  <1>7. CASE (\E q \in Quizzes : LoadFails(q)) \/ ClickNext \/ ClickOption \/ TimeUp \/ Leave
             \/ (\E s \in DOMAIN submits : Serve(s) \/ Rejected(s)) \/ UNCHANGED vars
    <2>1. UNCHANGED <<quizzes, starts, overlapped>>
      BY <1>7 DEF LoadFails, ClickNext, ClickOption, TimeUp, Leave, Serve, Rejected,
          vars, quizState
    <2>2. opening' \subseteq opening
      BY <1>7 DEF LoadFails, ClickNext, ClickOption, TimeUp, Leave, Serve, Rejected,
          vars, quizState
    <2>3. page' \in {page, "home"}
      BY <1>7 DEF LoadFails, ClickNext, ClickOption, TimeUp, Leave, Serve, Rejected,
          vars, pageState
    <2>4. Current' = Current
      BY <2>1 DEF Current
    <2> QED
      BY <1>1, <2>1, <2>2, <2>3, <2>4, OverlapQuiet
  <1>8. ASSUME NEW s \in DOMAIN submits, Accepted(s) PROVE OverlapInv'
    <2>1. /\ UNCHANGED <<starts, opening, page, overlapped, Current>>
          /\ \A x \in Quizzes : quizzes'[x].index = quizzes[x].index
      BY <1>8, AcceptedEffect
    <2> QED
      BY <1>1, <2>1, OverlapQuiet
  <1>9. CASE ClickFinish
    <2>1. /\ UNCHANGED <<starts, opening, page, overlapped, Current>>
          /\ quizzes'[Current].index = quizzes[Current].index
      BY <1>9, FinishEffect DEF pageState
    <2> QED
      BY <1>1, <2>1, OverlapQuiet
  <1> QED
    BY <1>2, <1>3, <1>4, <1>5, <1>6, <1>7, <1>8, <1>9 DEF Next

-----------------------------------------------------------------------------
(* The theorems *)

\* Every variable of the page keeps its type.
THEOREM QuizClientTypeCorrect == Spec => []TypeOK
  <1>1. TypeInv => TypeOK
    BY DEF TypeInv
  <1> QED
    BY <1>1, TypeInvariance, PTL

\* The tally of a quiz is the number of right answers counted in it, however
\* late the replies come and whichever quiz is current by then
\* (quizarena.html:1784, 1830).
THEOREM TalliesStayOfTheirQuiz == Spec => []TalliesAreOfTheirQuiz
  <1>1. Init => TalliesAreOfTheirQuiz
    BY EmptySeq DEF Init, TalliesAreOfTheirQuiz, Quizzes
  <1> QED
    BY <1>1, TalliesStep, TypeInvariance, PTL DEF Spec

\* No question is answered more often than it has been unlocked, in any order
\* of clicks, time-outs and replies (quizarena.html:1686, 1781, 1805).
THEOREM NeverAnsweredTwice == Spec => []AnsweredOncePerUnlock
  <1>1. Init => UnlockInv
    <2> SUFFICES ASSUME Init PROVE UnlockInv
      OBVIOUS
    <2>1. shown = 0 /\ Current = 0
      BY EmptySeq DEF Init, Current
    <2>2. 1 .. shown = {}
      BY <2>1
    <2> QED
      BY <2>1, <2>2 DEF UnlockInv, AnsweredOncePerUnlock
  <1>2. UnlockInv => AnsweredOncePerUnlock
    BY DEF UnlockInv
  <1> QED
    BY <1>1, <1>2, UnlockStep, TypeInvariance, PTL DEF Spec

\* With every reply in, the quiz page leads on, whatever the order of clicks,
\* replies and errors, unless a subject was clicked twice and the quiz made
\* last never got a question (quizarena.html:1664, 1686, 1788, 1805, 1845).
THEOREM StrandedOnlyByDoubleStarts == Spec => []OnlyDoubleStartsStrand
  <1>1. Init => PageInv /\ OverlapInv
    BY EmptySeq DEF Init, PageInv, OverlapInv, Current
  <1>2. TypeInv /\ PageInv /\ OverlapInv => OnlyDoubleStartsStrand
    <2> SUFFICES ASSUME TypeInv, PageInv, OverlapInv, page = "quiz", NothingUnderWay
                 PROVE  CanGoOn \/ (overlapped /\ quizzes[Current].index = 0)
      BY DEF OnlyDoubleStartsStrand
    <2>1. Current > 0 /\ Current \in Quizzes
      BY Sequences DEF TypeInv, RangeInv, Quizzes, Current
    <2>2. quizzes[Current].index \in 0 .. MaxShowings
      BY <2>1, Sequences DEF TypeInv, Quiz
    <2>3. CASE Asked # 0
      <3>1. \A s \in DOMAIN submits : submits[s].state \notin Pending
        BY DEF NothingUnderWay, Pending
      <3>2. /\ options \in {"none", "enabled", "disabled"}
            /\ button \in {"none", "next", "finish"}
        BY DEF TypeInv, TypeOK
      <3>3. (options = "enabled" /\ ~ answered) \/ button # "none"
        BY <2>1, <2>3, <3>1, <3>2 DEF PageInv
      <3> QED
        BY <2>3, <3>2, <3>3 DEF CanGoOn, Asked
    <2>4. CASE Asked = 0 /\ quizzes[Current].index = 0
      BY <2>4 DEF OverlapInv
    <2>5. CASE Asked = 0 /\ quizzes[Current].index # 0
      BY <2>2, <2>5, Bounds DEF CanGoOn, Asked
    <2> QED
      BY <2>3, <2>4, <2>5
  <1> QED
    BY <1>1, <1>2, PageStep, OverlapStep, TypeInvariance, PTL DEF Spec

=============================================================================
