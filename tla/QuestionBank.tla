---------------------------- MODULE QuestionBank ----------------------------
(***************************************************************************)
(* The questions table, the admin routes that change it                    *)
(* (handlers/admin.go) and the adaptive choice of the next question that   *)
(* reads it (handlers/quiz.go, services/elo.go, database/postgres.go).     *)
(*                                                                         *)
(* GET /quiz/next-question takes two statements: the rating of the user,   *)
(* then the question; an answer of the same user or an administrator may   *)
(* come between them.  Requests of this kind change nothing, so one of     *)
(* them at a time is enough.  An admin request is one statement.           *)
(*                                                                         *)
(* Of a question the model keeps what the choice and the validation tell   *)
(* apart; "plain" says whether difficulty, text, option texts and expected *)
(* time are within their limits.                                           *)
(***************************************************************************)
EXTENDS Integers, Sequences, FiniteSets

CONSTANTS
    Ids,            \* ids of questions
    ValidSubjects,  \* names made of the characters a subject may have
    OtherSubjects,  \* other names
    Options,        \* texts of options
    Trim,           \* [Options -> text without the spaces around it]
    Seeds,          \* rows the table may be loaded with
    Bodies,         \* questions as administrators write them
    Emails,         \* addresses in tokens
    AdminEmails,    \* ADMIN_EMAILS
    Normal,         \* [Emails -> address trimmed and in lower case]
    MinUserElo, MaxUserElo,
    MinDelta, MaxDelta, \* least and greatest step of the target rating: 25, 75
    BandLimit,      \* rows a band holds: 25
    NoQuestion, NoRequest

AllSubjects == ""   \* no ?subject= given

Subjects == ValidSubjects \cup OtherSubjects

ASSUME SubjectsAssumption == AllSubjects \in ValidSubjects

ASSUME EloAssumption ==
    MinUserElo \in Int /\ MaxUserElo \in Int /\ MinUserElo =< MaxUserElo

ASSUME DeltaAssumption ==
    MinDelta \in Nat /\ MaxDelta \in Nat /\ MinDelta =< MaxDelta

ASSUME BandAssumption ==
    /\ BandLimit \in Nat \ {0}
    /\ IsFiniteSet(Ids) /\ Ids \subseteq Nat

Question == [subject : Subjects, type : STRING, options : Seq(Options),
             correct_answers : Seq(Options), question_elo : Int, plain : BOOLEAN]

ASSUME TrimAssumption ==
    Trim \in [Options -> Options] /\ \A text \in Options : Trim[Trim[text]] = Trim[text]

\* The map a validation collects: texts with the spaces around them taken off.
\* What is stored, sent to the page and graded are the texts as they came.
Trimmed(list) == {Trim[list[i]] : i \in DOMAIN list}

Distinct(list) == Cardinality(Trimmed(list)) = Len(list)

ASSUME SeedsAssumption ==
    /\ Seeds \subseteq Question /\ Bodies \subseteq Question
    /\ NoQuestion \notin Question

UserElos == MinUserElo .. MaxUserElo

\* The rows of database/clean_dataset/cleaned_dataset_formatted.json are rated 900 to 1600.
ASSUME SeedEloAssumption == \A q \in Seeds : q.question_elo \in UserElos

VARIABLES
    questions, \* the table: [Ids -> Question, or NoQuestion]
    elo,       \* current_elo of the user
    pending,   \* rating read and subject of the request under way, or NoRequest
    reply      \* the last reply

vars == <<questions, elo, pending, reply>>

Targets == (MinUserElo - MaxDelta) .. (MaxUserElo + MaxDelta)

NoReply == [status |-> 0]

Replies ==
    {NoReply}
    \cup [status : {200}, id : Ids, subject : Subjects, target : Targets]
    \cup [status : {400, 404}]
    \cup [route : {"POST", "PUT", "DELETE"}, status : {200, 201, 400, 403, 404, 500},
          body : Bodies \cup {NoQuestion}]

TypeOK ==
    /\ questions \in [Ids -> Question \cup {NoQuestion}]
    /\ elo \in UserElos
    /\ pending \in [elo : UserElos, subject : ValidSubjects] \cup {NoRequest}
    /\ reply \in Replies

Init ==
    /\ questions \in [Ids -> Seeds \cup {NoQuestion}]
    /\ elo \in UserElos
    /\ pending = NoRequest
    /\ reply = NoReply

-----------------------------------------------------------------------------
(* The choice of a question *)

Present == {id \in Ids : questions[id] # NoQuestion}

Matching(subject) ==
    {id \in Present : subject = AllSubjects \/ questions[id].subject = subject}

EloOf(id) == questions[id].question_elo

Distance(id, target) ==
    IF EloOf(id) < target THEN target - EloOf(id) ELSE EloOf(id) - target

\* ORDER BY question_elo ASC, id ASC.
Below(p, q) == EloOf(p) < EloOf(q) \/ (EloOf(p) = EloOf(q) /\ p < q)

\* ORDER BY question_elo DESC, id DESC.
Above(p, q) == Below(q, p)

\* ORDER BY question_elo ASC, id DESC.
BelowNewestFirst(p, q) == EloOf(p) < EloOf(q) \/ (EloOf(p) = EloOf(q) /\ p > q)

\* What LIMIT leaves of some ordered rows: there is one such set.
Limited(rows, Before(_, _)) ==
    {band \in SUBSET rows :
        /\ Cardinality(band) =< BandLimit
        /\ band # rows => Cardinality(band) = BandLimit
        /\ \A in \in band, out \in rows \ band : Before(in, out)}

AtMost(subject, target) == {id \in Matching(subject) : EloOf(id) =< target}

AtLeast(subject, target) == {id \in Matching(subject) : EloOf(id) >= target}

LowerBandAscending(subject, target) == Limited(AtMost(subject, target), Below)

LowerBand(subject, target) == Limited(AtMost(subject, target), Above)

UpperBandNewestFirst(subject, target) == Limited(AtLeast(subject, target), BelowNewestFirst)

UpperBand(subject, target) == Limited(AtLeast(subject, target), Below)

\* ORDER BY ABS(question_elo - target), random() LIMIT 1.
Choices(subject, target) ==
    {id \in Matching(subject) :
        \E lower \in LowerBand(subject, target), upper \in UpperBand(subject, target) :
            /\ id \in lower \cup upper
            /\ \A other \in lower \cup upper :
                  Distance(id, target) =< Distance(other, target)}

\* Twice the step where half of it is meant.
NextTargetEloDoubled(userElo) ==
    UNION {{userElo + 2 * delta, userElo - 2 * delta,
            userElo + delta, userElo - delta} : delta \in MinDelta .. MaxDelta}

\* Half a step either way, a step up, or a step down.
NextTargetElo(userElo) ==
    UNION {{userElo + delta \div 2, userElo - delta \div 2,
            userElo + delta, userElo - delta} : delta \in MinDelta .. MaxDelta}

\* NextQuestion up to its second statement: GetUserByID, ValidateSubject.
NextQuestion(subject) ==
    /\ pending = NoRequest
    /\ IF subject \in ValidSubjects
       THEN /\ pending' = [elo |-> elo, subject |-> subject]
            /\ reply' = NoReply
       ELSE /\ reply' = [status |-> 400]
            /\ UNCHANGED pending
    /\ UNCHANGED <<questions, elo>>

\* GetAdaptiveQuestion for a target around the rating that was read.
GetAdaptiveQuestion ==
    /\ pending # NoRequest
    /\ \E target \in NextTargetElo(pending.elo) :
          LET subject == pending.subject
          IN  IF Matching(subject) = {}
              THEN reply' = [status |-> 404]
              ELSE \E id \in Choices(subject, target) :
                      reply' = [status |-> 200, id |-> id,
                                subject |-> subject, target |-> target]
    /\ pending' = NoRequest
    /\ UNCHANGED <<questions, elo>>

\* Either statement fails; the client is told 404 then, too.
NextQuestionFails ==
    /\ pending # NoRequest
    /\ pending' = NoRequest
    /\ reply' = [status |-> 404]
    /\ UNCHANGED <<questions, elo>>

\* Another request of the user stores a rating: QuizServer's Commit.
RatingChanges ==
    /\ elo' \in UserElos \ {elo}
    /\ UNCHANGED <<questions, pending, reply>>

-----------------------------------------------------------------------------
(* The admin routes *)

IsAdmin(email) ==
    Normal[email] \in {Normal[admin] : admin \in AdminEmails} \ {""}

\* ShouldBindJSON into models.Question: correct_answers is tagged json:"-".
Decode(body) == [body EXCEPT !.correct_answers = <<>>]

\* A question without a correct answer is let through.
ValidateQuestionInputAnyAnswers(q) ==
    /\ q.subject \in ValidSubjects
    /\ q.type \in {"MCQ", "MSQ"}
    /\ q.plain
    /\ Len(q.options) \in 2 .. 10 /\ Distinct(q.options)
    /\ Trimmed(q.correct_answers) \subseteq Trimmed(q.options)
    /\ Distinct(q.correct_answers)
    /\ q.type = "MCQ" => Cardinality(Trimmed(q.correct_answers)) = 1
    /\ q.question_elo \in UserElos

ValidateQuestionInput(q) ==
    q.correct_answers # <<>> /\ ValidateQuestionInputAnyAnswers(q)

RespondAdmin(route, status, body) ==
    reply' = [route |-> route, status |-> status, body |-> body]

\* AddQuestion and UpsertQuestion without an id: a row of its own.
AddQuestion(email, body) ==
    /\ LET q == Decode(body)
       IN  CASE ~ IsAdmin(email) ->
                   RespondAdmin("POST", 403, body) /\ UNCHANGED questions
             [] IsAdmin(email) /\ ~ ValidateQuestionInput(q) ->
                   RespondAdmin("POST", 400, body) /\ UNCHANGED questions
             [] OTHER ->
                   \/ /\ \E id \in Ids \ Present : questions' = [questions EXCEPT ![id] = q]
                      /\ RespondAdmin("POST", 201, body)
                   \/ RespondAdmin("POST", 500, body) /\ UNCHANGED questions
    /\ UNCHANGED <<elo, pending>>

\* EditQuestion and UpsertQuestion with the id of the path.
EditQuestion(email, id, body) ==
    /\ LET q == Decode(body)
       IN  CASE ~ IsAdmin(email) ->
                   RespondAdmin("PUT", 403, body) /\ UNCHANGED questions
             [] IsAdmin(email) /\ ~ ValidateQuestionInput(q) ->
                   RespondAdmin("PUT", 400, body) /\ UNCHANGED questions
             [] OTHER ->
                   \/ /\ id \in Present
                      /\ questions' = [questions EXCEPT ![id] = q]
                      /\ RespondAdmin("PUT", 200, body)
                   \/ RespondAdmin("PUT", 500, body) /\ UNCHANGED questions
    /\ UNCHANGED <<elo, pending>>

\* Every error is answered with 404.
DeleteQuestion(email, id) ==
    /\ CASE ~ IsAdmin(email) ->
               RespondAdmin("DELETE", 403, NoQuestion) /\ UNCHANGED questions
         [] OTHER ->
               \/ /\ id \in Present
                  /\ questions' = [questions EXCEPT ![id] = NoQuestion]
                  /\ RespondAdmin("DELETE", 200, NoQuestion)
               \/ RespondAdmin("DELETE", 404, NoQuestion) /\ UNCHANGED questions
    /\ UNCHANGED <<elo, pending>>

Next ==
    \/ \E subject \in Subjects : NextQuestion(subject)
    \/ GetAdaptiveQuestion
    \/ NextQuestionFails
    \/ RatingChanges
    \/ \E email \in Emails :
          \/ \E body \in Bodies : AddQuestion(email, body)
          \/ \E id \in Ids, body \in Bodies : EditQuestion(email, id, body)
          \/ \E id \in Ids : DeleteQuestion(email, id)

Spec == Init /\ [][Next]_vars

-----------------------------------------------------------------------------
(* Properties *)

\* The question served is a nearest one to the target among all questions of
\* the subject that are in the table then, not only among those in the two
\* bands (postgres.go:190-212).
ServedIsNearest ==
    [][ pending # NoRequest /\ pending' = NoRequest /\ reply'.status = 200 =>
          \A id \in Matching(reply'.subject) :
             Distance(reply'.id, reply'.target) =< Distance(id, reply'.target) ]_vars

\* Of the questions of one rating in a subject, those can be served that have
\* one of the BandLimit greatest or least ids, and no others: the bands are cut
\* before random() chooses (postgres.go:194-202, 211).
OnlyEdgesAreServed ==
    \A subject \in ValidSubjects : \A id \in Matching(subject) :
        LET level == {other \in Matching(subject) : EloOf(other) = EloOf(id)}
        IN  (\E target \in Targets : id \in Choices(subject, target)) <=>
               \/ Cardinality({other \in level : other < id}) < BandLimit
               \/ Cardinality({other \in level : other > id}) < BandLimit

\* A question read by one statement is, at any later one, as it was or gone: no
\* request rewrites it.  An answer is stored after it was graded on a question
\* read before its transaction, and listed later beside the question as it is
\* then (quiz.go:124, 147, postgres.go:375).  It takes two parts of the code:
\* bodies decode without answers, and the validation of POST and PUT wants one
\* (question.go:18, validation.go:159).
QuestionsOnlyDisappear ==
    [][ \A id \in Ids : questions'[id] \in {questions[id], NoQuestion} ]_vars

\* API.md:33 and the admin page offer POST /admin/questions: a question that
\* passes the validation as its administrator wrote it is not refused as invalid.
CompleteQuestionIsAccepted ==
    reply # NoReply /\ "route" \in DOMAIN reply /\ reply.route = "POST"
        /\ ValidateQuestionInput(reply.body)
    => reply.status # 400

=============================================================================
