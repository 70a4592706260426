---------------------------- MODULE AnswerLedger ----------------------------
(***************************************************************************)
(* What the quiz path promises, without statements, locks, connections or  *)
(* transactions.  A submission is open until it is settled, at most once.  *)
(* Settling it either records the answer, which in one step adds a row to  *)
(* the log and folds the answer into the user's statistics, or leaves both *)
(* alone.  Only a recorded answer is acknowledged, and only an unrecorded  *)
(* one is refused; "unknown" commits to nothing.                           *)
(*                                                                         *)
(* The specification does not promise that the rating given to an answer   *)
(* was computed from the rating it replaces: QuizServer, which implements  *)
(* this module, does not keep that promise.                                *)
(***************************************************************************)
EXTENDS Integers

CONSTANTS Users, Questions, Requests, Times, MinUserElo, MaxUserElo, DefaultElo

VARIABLES
    status,    \* [Requests -> Statuses]
    profile,   \* [Users -> statistics of the user]
    log,       \* recorded answers: pairs of a request and its question
    visible,   \* those of them that a session's history still shows
    forgotten  \* questions that have been deleted

vars == <<status, profile, log, visible, forgotten>>

Statuses == {"new", "open", "acknowledged", "refused", "unknown"}

Init ==
    /\ status = [r \in Requests |-> "new"]
    /\ profile = [u \in Users |-> [current_elo |-> DefaultElo, peak_elo |-> DefaultElo,
                                   total |-> 0, accuracy_sum |-> 0, time_sum |-> 0]]
    /\ log = {}
    /\ visible = {}
    /\ forgotten = {}

\* A submission is taken in, or refused at the door.
Open(r) ==
    /\ status[r] = "new"
    /\ \E s \in {"open", "refused"} : status' = [status EXCEPT ![r] = s]
    /\ UNCHANGED <<profile, log, visible, forgotten>>

Folded(row, newElo, correct, time) ==
    [current_elo  |-> newElo,
     peak_elo     |-> IF newElo > row.peak_elo THEN newElo ELSE row.peak_elo,
     total        |-> row.total + 1,
     accuracy_sum |-> row.accuracy_sum + (IF correct THEN 100 ELSE 0),
     time_sum     |-> row.time_sum + time]

\* The rating is any rating: how it is computed is not the ledger's business.
Record(r) ==
    /\ status[r] = "open"
    /\ \E s \in {"acknowledged", "unknown"} : status' = [status EXCEPT ![r] = s]
    /\ \E q \in Questions \ forgotten :
          /\ log' = log \cup {<<r, q>>}
          /\ visible' = visible \cup {<<r, q>>}
    /\ \E u \in Users, newElo \in MinUserElo .. MaxUserElo,
         correct \in BOOLEAN, time \in Times :
          profile' = [profile EXCEPT ![u] = Folded(@, newElo, correct, time)]
    /\ UNCHANGED forgotten

Refuse(r) ==
    /\ status[r] = "open"
    /\ \E s \in {"refused", "unknown"} : status' = [status EXCEPT ![r] = s]
    /\ UNCHANGED <<profile, log, visible, forgotten>>

\* The server stops: no open submission will hear of its fate.
Restart ==
    /\ status' = [r \in Requests |-> IF status[r] = "open" THEN "unknown" ELSE status[r]]
    /\ UNCHANGED <<profile, log, visible, forgotten>>

\* Deleting a question hides the answers to it; it takes nothing back from
\* the users' statistics.
Forget(q) ==
    /\ q \in Questions \ forgotten
    /\ forgotten' = forgotten \cup {q}
    /\ visible' = {entry \in visible : entry[2] # q}
    /\ UNCHANGED <<status, profile, log>>

Next ==
    \/ \E r \in Requests : Open(r) \/ Record(r) \/ Refuse(r)
    \/ Restart
    \/ \E q \in Questions : Forget(q)

Spec == Init /\ [][Next]_vars

=============================================================================
