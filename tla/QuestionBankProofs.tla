------------------------- MODULE QuestionBankProofs -------------------------
(* The choice of a question is right for any table, bands of any length and *)
(* steps of any size; no request rewrites a question.                       *)
EXTENDS QuestionBank, FiniteSetTheorems, TLAPS

\* Every question is rated as users are, so that a target can meet its rating.
RatingsInRange == \A id \in Present : EloOf(id) \in UserElos

Inv == TypeOK /\ RatingsInRange

LEMMA Constants ==
    /\ MinUserElo \in Int /\ MaxUserElo \in Int
    /\ MinDelta \in Int /\ 0 =< MinDelta /\ MaxDelta \in Int
    /\ BandLimit \in Int /\ 0 < BandLimit
  BY EloAssumption, DeltaAssumption, BandAssumption

LEMMA RowTypes ==
    ASSUME TypeOK, NEW id \in Present
    PROVE  id \in Ids /\ questions[id] \in Question /\ EloOf(id) \in Int
  BY DEF TypeOK, Present, Question, EloOf

LEMMA RowNumbers ==
    ASSUME TypeOK
    PROVE  \A id \in Present : EloOf(id) \in Int /\ id \in Int
  <1> SUFFICES ASSUME NEW id \in Present PROVE EloOf(id) \in Int /\ id \in Int
    OBVIOUS
  <1>1. id \in Ids /\ EloOf(id) \in Int
    BY RowTypes
  <1>2. id \in Int
    BY <1>1, BandAssumption
  <1> QED
    BY <1>1, <1>2

\* No target is further from the rating than the greatest step.
LEMMA TargetsInRange ==
    ASSUME NEW e \in UserElos, NEW target \in NextTargetElo(e)
    PROVE  target \in Targets
  <1>1. PICK delta \in MinDelta .. MaxDelta :
           target \in {e + delta \div 2, e - delta \div 2, e + delta, e - delta}
    BY DEF NextTargetElo
  <1>2. delta \in Int /\ 0 =< delta /\ delta =< MaxDelta
    BY Constants
  <1>3. delta \div 2 \in Int /\ 0 =< delta \div 2 /\ delta \div 2 =< delta
    BY <1>2
  <1>4. e \in Int /\ MinUserElo =< e /\ e =< MaxUserElo
    BY Constants DEF UserElos
  <1> DEFINE half == delta \div 2
  <1>5. half \in Int /\ 0 =< half /\ half =< delta
    BY <1>3
  <1>6. target \in {e + half, e - half, e + delta, e - delta}
    BY <1>1
  <1> HIDE DEF half
  <1> QED
    BY <1>2, <1>4, <1>5, <1>6, Constants DEF Targets

\* What the decoder makes of a body is a question, if without answers.
LEMMA DecodeType ==
    ASSUME NEW body \in Bodies
    PROVE  Decode(body) \in Question
  <1>1. body \in Question
    BY SeedsAssumption
  <1>2. <<>> \in Seq(Options)
    OBVIOUS
  <1> QED
    BY <1>1, <1>2 DEF Decode, Question

\* It never is a valid one.
LEMMA DecodedIsRefused ==
    ASSUME NEW body \in Bodies
    PROVE  ~ ValidateQuestionInput(Decode(body))
  <1>1. body \in Question
    BY SeedsAssumption
  <1>2. Decode(body).correct_answers = <<>>
    BY <1>1 DEF Decode, Question
  <1> QED
    BY <1>2 DEF ValidateQuestionInput

-----------------------------------------------------------------------------
(* The choice *)

\* A band that leaves rows out holds some, and they come before those.
LEMMA BandIsNotEmpty ==
    ASSUME NEW rows, NEW band \in SUBSET rows,
           band # rows => Cardinality(band) = BandLimit, rows # {}
    PROVE  band # {}
  <1>1. Cardinality({}) = 0
    BY FS_EmptySet
  <1> QED
    BY <1>1, Constants

\* Between them the bands hold a question at least as near as any other.
LEMMA ChoiceIsNearest ==
    ASSUME TypeOK, NEW subject, NEW target \in Int,
           NEW id \in Choices(subject, target), NEW other \in Matching(subject)
    PROVE  Distance(id, target) =< Distance(other, target)
  <1>1. PICK lower \in LowerBand(subject, target), upper \in UpperBand(subject, target) :
           /\ id \in lower \cup upper
           /\ \A any \in lower \cup upper : Distance(id, target) =< Distance(any, target)
    BY DEF Choices
  <1>2. /\ id \in Matching(subject) /\ EloOf(id) \in Int
        /\ other \in Present /\ EloOf(other) \in Int
    BY RowTypes DEF Choices, Matching
  <1>3. \A any \in Matching(subject) : EloOf(any) \in Int /\ Distance(any, target) \in Int
    BY RowTypes DEF Matching, Distance
  <1>4. CASE EloOf(other) =< target
    <2> DEFINE rows == AtMost(subject, target)
    <2>1. other \in rows /\ rows \subseteq Matching(subject)
      BY <1>4 DEF AtMost
    <2>2. /\ lower \in SUBSET rows
          /\ lower # rows => Cardinality(lower) = BandLimit
          /\ \A in \in lower, out \in rows \ lower : Above(in, out)
      BY DEF LowerBand, Limited
    <2>3. CASE other \in lower
      BY <1>1, <2>3
    <2>4. CASE other \notin lower
      <3>1. PICK in : in \in lower
        BY <2>1, <2>2, BandIsNotEmpty
      <3>2. Above(in, other) /\ in \in Matching(subject) /\ EloOf(in) =< target
        BY <2>1, <2>2, <2>4, <3>1 DEF AtMost
      <3>3. Distance(in, target) =< Distance(other, target)
        BY <1>2, <1>3, <1>4, <3>2 DEF Above, Below, Distance
      <3>4. Distance(id, target) =< Distance(in, target)
        BY <1>1, <3>1
      <3> QED
        BY <1>2, <1>3, <3>2, <3>3, <3>4
    <2> QED
      BY <2>3, <2>4
  <1>5. CASE ~ (EloOf(other) =< target)
    <2> DEFINE rows == AtLeast(subject, target)
    <2>1. other \in rows /\ rows \subseteq Matching(subject)
      BY <1>2, <1>5 DEF AtLeast
    <2>2. /\ upper \in SUBSET rows
          /\ upper # rows => Cardinality(upper) = BandLimit
          /\ \A in \in upper, out \in rows \ upper : Below(in, out)
      BY DEF UpperBand, Limited
    <2>3. CASE other \in upper
      BY <1>1, <2>3
    <2>4. CASE other \notin upper
      <3>1. PICK in : in \in upper
        BY <2>1, <2>2, BandIsNotEmpty
      <3>2. Below(in, other) /\ in \in Matching(subject) /\ EloOf(in) >= target
        BY <2>1, <2>2, <2>4, <3>1 DEF AtLeast
      <3>3. Distance(in, target) =< Distance(other, target)
        BY <1>2, <1>3, <1>5, <3>2 DEF Below, Distance
      <3>4. Distance(id, target) =< Distance(in, target)
        BY <1>1, <3>1
      <3> QED
        BY <1>2, <1>3, <3>2, <3>3, <3>4
    <2> QED
      BY <2>3, <2>4
  <1> QED
    BY <1>4, <1>5

-----------------------------------------------------------------------------
(* The bands *)

\* R orders S, no two of its members alike.
StrictlyOrders(R, S) ==
    /\ \A x \in S : <<x, x>> \notin R
    /\ \A x, y, z \in S : <<x, y>> \in R /\ <<y, z>> \in R => <<x, z>> \in R
    /\ \A x, y \in S : x # y => <<x, y>> \in R \/ <<y, x>> \in R

\* The members of S that come after x.
After(x, R, S) == {y \in S : <<x, y>> \in R}

\* Among subsets of a finite set one includes no other.
LEMMA SmallestSet ==
    ASSUME NEW S, IsFiniteSet(S), NEW F, F \subseteq SUBSET S, F # {}
    PROVE  \E A \in F : \A B \in F : B \subseteq A => B = A
  <1> DEFINE R == StrictSubsetOrdering(S)
  <1>1. IsWellFoundedOn(R, SUBSET S)
    BY FS_StrictSubsetOrderingWellFounded, FS_FiniteSubsetsOfFinite
  <1> HIDE DEF R
  <1>2. PICK A \in F : \A B \in F : <<B, A>> \notin R
    BY <1>1, WFMin
  <1> USE DEF R
  <1> QED
    BY <1>2 DEF StrictSubsetOrdering

LEMMA LastExists ==
    ASSUME NEW S, IsFiniteSet(S), S # {}, NEW R, StrictlyOrders(R, S)
    PROVE  \E last \in S : \A x \in S \ {last} : <<x, last>> \in R
  <1> DEFINE F == {After(x, R, S) : x \in S}
  <1>1. PICK A \in F : \A B \in F : B \subseteq A => B = A
    <2>1. F \subseteq SUBSET S /\ F # {}
      BY DEF After
    <2> HIDE DEF F
    <2> QED
      BY <2>1, SmallestSet
  <1>2. PICK last \in S : A = After(last, R, S)
    BY <1>1
  <1>3. ASSUME NEW y \in A PROVE FALSE
    <2>1. y \in S /\ <<last, y>> \in R
      BY <1>2, <1>3 DEF After
    <2>2. After(y, R, S) \subseteq A /\ y \notin After(y, R, S)
      BY <1>2, <2>1 DEF After, StrictlyOrders
    <2> QED
      BY <1>1, <1>3, <2>1, <2>2
  <1> QED
    BY <1>2, <1>3 DEF After, StrictlyOrders

\* LIMIT finds rows to return, whatever the order.
LEMMA LimitExists ==
    ASSUME NEW rows, IsFiniteSet(rows), NEW R, StrictlyOrders(R, rows)
    PROVE  \E band \in SUBSET rows :
              /\ Cardinality(band) =< BandLimit
              /\ band # rows => Cardinality(band) = BandLimit
              /\ \A in \in band, out \in rows \ band : <<in, out>> \in R
  <1> DEFINE F == {band \in SUBSET rows :
                     /\ band # rows => Cardinality(band) >= BandLimit
                     /\ \A in \in band, out \in rows \ band : <<in, out>> \in R}
  <1>1. PICK band \in F : \A other \in F : other \subseteq band => other = band
    <2>1. F \subseteq SUBSET rows /\ rows \in F
      OBVIOUS
    <2> HIDE DEF F
    <2> QED
      BY <2>1, SmallestSet
  <1>2. /\ IsFiniteSet(band) /\ Cardinality(band) \in Nat
        /\ band \in SUBSET rows
    BY <1>1, FS_Subset, FS_CardinalityType
  <1>3. Cardinality(band) =< BandLimit
    <2> SUFFICES ASSUME Cardinality(band) > BandLimit PROVE FALSE
      BY <1>2, Constants
    <2>1. band # {}
      BY Constants, FS_EmptySet
    <2>2. StrictlyOrders(R, band)
      BY <1>2 DEF StrictlyOrders
    <2>3. PICK last \in band : \A x \in band \ {last} : <<x, last>> \in R
      BY <1>2, <2>1, <2>2, LastExists
    <2>4. Cardinality(band \ {last}) = Cardinality(band) - 1
      BY <1>2, <2>3, FS_RemoveElement
    <2>5. Cardinality(band \ {last}) >= BandLimit
      BY <1>2, <2>4, Constants
    <2>6. \A in \in band \ {last}, out \in rows \ (band \ {last}) : <<in, out>> \in R
      BY <1>1, <2>3
    <2>7. band \ {last} \in F
      BY <1>2, <2>5, <2>6
    <2> QED
      BY <1>1, <2>3, <2>7
  <1> QED
    BY <1>1, <1>2, <1>3, Constants

LEMMA MatchingFinite ==
    ASSUME NEW subject
    PROVE  \A rows \in SUBSET Matching(subject) :
              IsFiniteSet(rows) /\ Cardinality(rows) \in Nat
  <1>1. Matching(subject) \subseteq Ids
    BY DEF Matching, Present
  <1> QED
    BY <1>1, BandAssumption, FS_Subset, FS_CardinalityType

\* The ids break ties, so both orders are strict.
LEMMA IdsBreakTies ==
    ASSUME TypeOK, NEW rows \in SUBSET Present
    PROVE  /\ StrictlyOrders({p \in rows \X rows : Below(p[1], p[2])}, rows)
           /\ StrictlyOrders({p \in rows \X rows : Above(p[1], p[2])}, rows)
  <1>1. \A id \in rows : EloOf(id) \in Int /\ id \in Int
    BY RowNumbers
  <1>2. /\ \A x \in rows : ~ Below(x, x)
        /\ \A x, y, z \in rows : Below(x, y) /\ Below(y, z) => Below(x, z)
        /\ \A x, y \in rows : x # y => Below(x, y) \/ Below(y, x)
    BY <1>1 DEF Below
  <1> QED
    BY <1>2 DEF StrictlyOrders, Above

LEMMA BandsExist ==
    ASSUME TypeOK, NEW subject, NEW target
    PROVE  LowerBand(subject, target) # {} /\ UpperBand(subject, target) # {}
  <1> DEFINE low == AtMost(subject, target)
             high == AtLeast(subject, target)
  <1>1. /\ low \in SUBSET Matching(subject) /\ high \in SUBSET Matching(subject)
        /\ Matching(subject) \subseteq Present
    BY DEF AtMost, AtLeast, Matching
  <1>2. IsFiniteSet(low) /\ IsFiniteSet(high)
    BY <1>1, MatchingFinite
  <1>3. LowerBand(subject, target) # {}
    <2> DEFINE R == {p \in low \X low : Above(p[1], p[2])}
    <2>1. StrictlyOrders(R, low)
      BY <1>1, IdsBreakTies
    <2>2. PICK band \in SUBSET low :
             /\ Cardinality(band) =< BandLimit
             /\ band # low => Cardinality(band) = BandLimit
             /\ \A in \in band, out \in low \ band : <<in, out>> \in R
      <3> HIDE DEF R, low
      <3> QED
        BY <1>2, <2>1, LimitExists
    <2>3. \A in \in band, out \in low \ band : Above(in, out)
      BY <2>2
    <2> QED
      BY <2>2, <2>3 DEF LowerBand, Limited
  <1>4. UpperBand(subject, target) # {}
    <2> DEFINE R == {p \in high \X high : Below(p[1], p[2])}
    <2>1. StrictlyOrders(R, high)
      BY <1>1, IdsBreakTies
    <2>2. PICK band \in SUBSET high :
             /\ Cardinality(band) =< BandLimit
             /\ band # high => Cardinality(band) = BandLimit
             /\ \A in \in band, out \in high \ band : <<in, out>> \in R
      <3> HIDE DEF R, high
      <3> QED
        BY <1>2, <2>1, LimitExists
    <2>3. \A in \in band, out \in high \ band : Below(in, out)
      BY <2>2
    <2> QED
      BY <2>2, <2>3 DEF UpperBand, Limited
  <1> QED
    BY <1>3, <1>4

\* Rows of one rating: a row is in a band if few rows of that rating precede
\* it in the order of the band, and a band holds all of those with it.
LEMMA RoomInBand ==
    ASSUME NEW subject, NEW band \in SUBSET Matching(subject), NEW id \in Matching(subject),
           NEW before \in SUBSET Matching(subject), id \notin before
    PROVE  /\ band \subseteq before /\ Cardinality(band) = BandLimit
                => ~ (Cardinality(before) < BandLimit)
           /\ before \cup {id} \subseteq band /\ Cardinality(band) =< BandLimit
                => Cardinality(before) < BandLimit
  <1>1. /\ IsFiniteSet(before) /\ Cardinality(before) \in Nat
        /\ IsFiniteSet(band) /\ Cardinality(band) \in Nat
    BY MatchingFinite
  <1>2. band \subseteq before => Cardinality(band) =< Cardinality(before)
    BY <1>1, FS_Subset
  <1>3. Cardinality(before \cup {id}) = Cardinality(before) + 1
    BY <1>1, FS_AddElement
  <1>4. before \cup {id} \subseteq band => Cardinality(before \cup {id}) =< Cardinality(band)
    BY <1>1, FS_Subset
  <1> QED
    BY <1>1, <1>2, <1>3, <1>4, Constants

Level(subject, id) == {other \in Matching(subject) : EloOf(other) = EloOf(id)}

\* What a band can serve is among the ids at its end.
LEMMA ServedIsAtAnEdge ==
    ASSUME TypeOK, NEW subject, NEW target \in Int, NEW id \in Choices(subject, target)
    PROVE  \/ Cardinality({other \in Level(subject, id) : other < id}) < BandLimit
           \/ Cardinality({other \in Level(subject, id) : other > id}) < BandLimit
  <1> DEFINE less == {other \in Level(subject, id) : other < id}
             more == {other \in Level(subject, id) : other > id}
  <1>1. PICK lower \in LowerBand(subject, target), upper \in UpperBand(subject, target) :
           id \in lower \cup upper
    BY DEF Choices
  <1>2. \A other \in Matching(subject) : EloOf(other) \in Int /\ other \in Int
    BY RowNumbers DEF Matching
  <1>3. id \in Matching(subject) /\ id \notin less /\ id \notin more
    BY <1>2 DEF Choices
  <1>4. less \in SUBSET Matching(subject) /\ more \in SUBSET Matching(subject)
    BY DEF Level
  <1>5. CASE id \in lower
    <2>1. /\ lower \in SUBSET AtMost(subject, target)
          /\ Cardinality(lower) =< BandLimit
          /\ \A in \in lower, out \in AtMost(subject, target) \ lower : Above(in, out)
      BY DEF LowerBand, Limited
    <2>2. more \subseteq lower
      BY <1>2, <1>3, <1>5, <2>1 DEF Level, AtMost, Above, Below
    <2>3. lower \in SUBSET Matching(subject)
      BY <2>1 DEF AtMost
    <2> HIDE DEF more
    <2> QED
      BY <1>3, <1>4, <1>5, <2>1, <2>2, <2>3, RoomInBand DEF more
  <1>6. CASE id \in upper
    <2>1. /\ upper \in SUBSET AtLeast(subject, target)
          /\ Cardinality(upper) =< BandLimit
          /\ \A in \in upper, out \in AtLeast(subject, target) \ upper : Below(in, out)
      BY DEF UpperBand, Limited
    <2>2. less \subseteq upper
      BY <1>2, <1>3, <1>6, <2>1 DEF Level, AtLeast, Below
    <2>3. upper \in SUBSET Matching(subject)
      BY <2>1 DEF AtLeast
    <2> QED
      BY <1>3, <1>4, <1>6, <2>1, <2>2, <2>3, RoomInBand
  <1> QED
    BY <1>1, <1>5, <1>6

\* Aiming at its rating serves a question that is among those ids.
LEMMA EdgeIsServed ==
    ASSUME TypeOK, NEW subject, NEW id \in Matching(subject),
           \/ Cardinality({other \in Level(subject, id) : other < id}) < BandLimit
           \/ Cardinality({other \in Level(subject, id) : other > id}) < BandLimit
    PROVE  id \in Choices(subject, EloOf(id))
  <1> DEFINE target == EloOf(id)
             less == {other \in Level(subject, id) : other < id}
             more == {other \in Level(subject, id) : other > id}
  <1>1. PICK lower \in LowerBand(subject, target), upper \in UpperBand(subject, target) : TRUE
    BY BandsExist
  <1>2. \A other \in Matching(subject) : EloOf(other) \in Int /\ other \in Int
    BY RowNumbers DEF Matching
  <1>3. id \notin less /\ id \notin more
    BY <1>2
  <1>4. less \in SUBSET Matching(subject) /\ more \in SUBSET Matching(subject)
    BY DEF Level
  <1>5. /\ lower \in SUBSET AtMost(subject, target)
        /\ lower # AtMost(subject, target) => Cardinality(lower) = BandLimit
        /\ \A in \in lower, out \in AtMost(subject, target) \ lower : Above(in, out)
    BY DEF LowerBand, Limited
  <1>6. /\ upper \in SUBSET AtLeast(subject, target)
        /\ upper # AtLeast(subject, target) => Cardinality(upper) = BandLimit
        /\ \A in \in upper, out \in AtLeast(subject, target) \ upper : Below(in, out)
    BY DEF UpperBand, Limited
  <1>7. /\ AtMost(subject, target) \subseteq Matching(subject)
        /\ AtLeast(subject, target) \subseteq Matching(subject)
        /\ id \in AtMost(subject, target) /\ id \in AtLeast(subject, target)
    BY <1>2 DEF AtMost, AtLeast
  <1>8. Cardinality(more) < BandLimit => id \in lower
    <2> SUFFICES ASSUME Cardinality(more) < BandLimit, id \notin lower PROVE FALSE
      OBVIOUS
    <2>1. lower \subseteq more
      <3> SUFFICES ASSUME NEW in \in lower PROVE in \in more
        OBVIOUS
      <3>1. in \in Matching(subject) /\ EloOf(in) =< target /\ Above(in, id)
        BY <1>5, <1>7 DEF AtMost
      <3> QED
        BY <1>2, <3>1 DEF Above, Below, Level
    <2>2. Cardinality(lower) = BandLimit /\ lower \in SUBSET Matching(subject)
      BY <1>5, <1>7
    <2> HIDE DEF more
    <2> QED
      BY <1>3, <1>4, <2>1, <2>2, RoomInBand
  <1>9. Cardinality(less) < BandLimit => id \in upper
    <2> SUFFICES ASSUME Cardinality(less) < BandLimit, id \notin upper PROVE FALSE
      OBVIOUS
    <2>1. upper \subseteq less
      <3> SUFFICES ASSUME NEW in \in upper PROVE in \in less
        OBVIOUS
      <3>1. in \in Matching(subject) /\ EloOf(in) >= target /\ Below(in, id)
        BY <1>6, <1>7 DEF AtLeast
      <3> QED
        BY <1>2, <3>1 DEF Below, Level
    <2>2. Cardinality(upper) = BandLimit /\ upper \in SUBSET Matching(subject)
      BY <1>6, <1>7
    <2> HIDE DEF less
    <2> QED
      BY <1>3, <1>4, <2>1, <2>2, RoomInBand
  <1>10. id \in lower \cup upper
    BY <1>8, <1>9
  <1>11. \A other \in lower \cup upper : Distance(id, target) =< Distance(other, target)
    <2>1. \A other \in lower \cup upper : other \in Matching(subject)
      BY <1>5, <1>6, <1>7
    <2>2. \A other \in Matching(subject) : Distance(id, target) =< Distance(other, target)
      BY <1>2 DEF Distance
    <2> QED
      BY <2>1, <2>2
  <1> QED
    BY <1>10, <1>11 DEF Choices

LEMMA EdgesAreServed ==
    ASSUME TypeOK, RatingsInRange
    PROVE  OnlyEdgesAreServed
  <1> SUFFICES ASSUME NEW subject \in ValidSubjects, NEW id \in Matching(subject)
               PROVE  (\E target \in Targets : id \in Choices(subject, target)) <=>
                         \/ Cardinality({other \in Level(subject, id) : other < id}) < BandLimit
                         \/ Cardinality({other \in Level(subject, id) : other > id}) < BandLimit
    BY DEF OnlyEdgesAreServed, Level
  <1>1. EloOf(id) \in Targets
    <2> DEFINE e == EloOf(id)
    <2>1. e \in MinUserElo .. MaxUserElo
      BY DEF RatingsInRange, Matching, UserElos
    <2> HIDE DEF e
    <2>2. e \in MinUserElo - MaxDelta .. MaxUserElo + MaxDelta
      BY <2>1, Constants, DeltaAssumption
    <2> QED
      BY <2>2 DEF Targets, e
  <1>2. Targets \subseteq Int
    BY Constants DEF Targets
  <1> QED
    BY <1>1, <1>2, ServedIsAtAnEdge, EdgeIsServed

-----------------------------------------------------------------------------
(* The steps *)

\* Requests for a question leave the table alone.
LEMMA QuestionStep ==
    ASSUME Inv, \/ \E subject \in Subjects : NextQuestion(subject)
                \/ GetAdaptiveQuestion \/ NextQuestionFails \/ RatingChanges
    PROVE  Inv'
  <1> USE DEF Inv
  <1>1. questions' = questions
    BY DEF NextQuestion, GetAdaptiveQuestion, NextQuestionFails, RatingChanges
  <1>2. RatingsInRange'
    BY <1>1 DEF RatingsInRange, EloOf, Present
  <1>3. CASE \E subject \in Subjects : NextQuestion(subject)
    BY <1>2, <1>3 DEF NextQuestion, TypeOK, Replies, NoReply
  <1>4. CASE GetAdaptiveQuestion
    <2>1. pending.elo \in UserElos /\ pending.subject \in ValidSubjects
      BY <1>4 DEF GetAdaptiveQuestion, TypeOK
    <2>2. PICK target \in NextTargetElo(pending.elo) :
             \/ reply' = [status |-> 404]
             \/ \E id \in Choices(pending.subject, target) :
                   reply' = [status |-> 200, id |-> id,
                             subject |-> pending.subject, target |-> target]
      BY <1>4 DEF GetAdaptiveQuestion
    <2>3. target \in Targets
      BY <2>1, TargetsInRange
    <2>4. reply' \in Replies
      BY <2>1, <2>2, <2>3 DEF Replies, Choices, Matching, Present, Subjects
    <2> QED
      BY <1>2, <1>4, <2>4 DEF GetAdaptiveQuestion, TypeOK
  <1>5. CASE NextQuestionFails
    BY <1>2, <1>5 DEF NextQuestionFails, TypeOK, Replies
  <1>6. CASE RatingChanges
    BY <1>2, <1>6 DEF RatingChanges, TypeOK
  <1> QED
    BY <1>3, <1>4, <1>5, <1>6

\* An administrator removes a row, or changes none.
LEMMA AdminTable ==
    ASSUME NEW email \in Emails,
           \/ \E body \in Bodies : AddQuestion(email, body)
           \/ \E id \in Ids, body \in Bodies : EditQuestion(email, id, body)
           \/ \E id \in Ids : DeleteQuestion(email, id)
    PROVE  \/ UNCHANGED questions
           \/ \E id \in Ids : questions' = [questions EXCEPT ![id] = NoQuestion]
  <1>1. ASSUME NEW body \in Bodies, AddQuestion(email, body) PROVE UNCHANGED questions
    BY <1>1, DecodedIsRefused DEF AddQuestion
  <1>2. ASSUME NEW id \in Ids, NEW body \in Bodies, EditQuestion(email, id, body)
        PROVE  UNCHANGED questions
    BY <1>2, DecodedIsRefused DEF EditQuestion
  <1> QED
    BY <1>1, <1>2 DEF DeleteQuestion

LEMMA AdminReply ==
    ASSUME NEW route \in {"POST", "PUT", "DELETE"},
           NEW status \in {200, 201, 400, 403, 404, 500},
           NEW body \in Bodies \cup {NoQuestion},
           RespondAdmin(route, status, body)
    PROVE  reply' \in Replies
  BY DEF RespondAdmin, Replies

LEMMA AdminStep ==
    ASSUME Inv, NEW email \in Emails,
           \/ \E body \in Bodies : AddQuestion(email, body)
           \/ \E id \in Ids, body \in Bodies : EditQuestion(email, id, body)
           \/ \E id \in Ids : DeleteQuestion(email, id)
    PROVE  Inv'
  <1> USE DEF Inv
  <1>1. UNCHANGED <<elo, pending>>
    BY DEF AddQuestion, EditQuestion, DeleteQuestion
  <1>2. reply' \in Replies
    BY AdminReply DEF AddQuestion, EditQuestion, DeleteQuestion
  <1>3. CASE UNCHANGED questions
    BY <1>1, <1>2, <1>3 DEF TypeOK, RatingsInRange, EloOf, Present
  <1>4. ASSUME NEW id \in Ids, questions' = [questions EXCEPT ![id] = NoQuestion]
        PROVE  Inv'
    BY <1>1, <1>2, <1>4 DEF TypeOK, RatingsInRange, EloOf, Present
  <1> QED
    BY <1>3, <1>4, AdminTable

LEMMA Invariance == Spec => []Inv
  <1>1. Init => Inv
    <2> SUFFICES ASSUME Init PROVE Inv
      OBVIOUS
    <2>1. TypeOK
      BY SeedsAssumption DEF Init, TypeOK, Replies
    <2>2. RatingsInRange
      BY SeedEloAssumption DEF Init, RatingsInRange, EloOf, Present
    <2> QED
      BY <2>1, <2>2 DEF Inv
  <1>2. Inv /\ [Next]_vars => Inv'
    <2> SUFFICES ASSUME Inv, [Next]_vars PROVE Inv'
      OBVIOUS
    <2>1. CASE UNCHANGED vars
      BY <2>1 DEF vars, Inv, TypeOK, RatingsInRange, EloOf, Present
    <2> QED
      BY <2>1, QuestionStep, AdminStep DEF Next
  <1> QED
    BY <1>1, <1>2, PTL DEF Spec

-----------------------------------------------------------------------------
(* The theorems *)

\* Types, including the range of every target rating.
THEOREM QuestionBankTypeCorrect == Spec => []TypeOK
  <1>1. Inv => TypeOK
    BY DEF Inv
  <1> QED
    BY <1>1, Invariance, PTL

\* Whatever administrators send, a question stays as it was or disappears
\* (question.go:18, validation.go:159).
THEOREM QuestionsNeverRewritten == Spec => QuestionsOnlyDisappear
  <1>1. Inv /\ [Next]_vars =>
           [ \A id \in Ids : questions'[id] \in {questions[id], NoQuestion} ]_vars
    <2> SUFFICES ASSUME Inv, Next, NEW id \in Ids
                 PROVE  questions'[id] \in {questions[id], NoQuestion}
      OBVIOUS
    <2>1. \/ UNCHANGED questions
          \/ \E gone \in Ids : questions' = [questions EXCEPT ![gone] = NoQuestion]
      BY AdminTable DEF Next, NextQuestion, GetAdaptiveQuestion, NextQuestionFails, RatingChanges
    <2>2. DOMAIN questions = Ids
      BY DEF Inv, TypeOK
    <2> QED
      BY <2>1, <2>2
  <1> QED
    BY <1>1, Invariance, PTL DEF Spec, QuestionsOnlyDisappear

\* Of the questions of one rating in a subject, exactly those with one of the
\* BandLimit least or greatest ids can ever be served (postgres.go:194-202).
THEOREM OnlyEdgesEverServed == Spec => []OnlyEdgesAreServed
  <1>1. Inv => OnlyEdgesAreServed
    BY EdgesAreServed DEF Inv
  <1> QED
    BY <1>1, Invariance, PTL

\* Cutting the table down to two bands never hides the nearest question.
THEOREM ServedAlwaysNearest == Spec => ServedIsNearest
  <1>1. Inv /\ [Next]_vars =>
           [ pending # NoRequest /\ pending' = NoRequest /\ reply'.status = 200 =>
               \A id \in Matching(reply'.subject) :
                  Distance(reply'.id, reply'.target) =< Distance(id, reply'.target) ]_vars
    <2> SUFFICES ASSUME Inv, Next, pending # NoRequest, pending' = NoRequest,
                        reply'.status = 200, NEW id \in Matching(reply'.subject)
                 PROVE  Distance(reply'.id, reply'.target) =< Distance(id, reply'.target)
      OBVIOUS
    <2>1. GetAdaptiveQuestion
      <3>1. ~ NextQuestionFails
        BY DEF NextQuestionFails
      <3> QED
        BY <3>1 DEF Next, NextQuestion, RatingChanges, AddQuestion, EditQuestion, DeleteQuestion
    <2>2. PICK target \in NextTargetElo(pending.elo) :
             \E c \in Choices(pending.subject, target) :
                reply' = [status |-> 200, id |-> c,
                          subject |-> pending.subject, target |-> target]
      BY <2>1 DEF GetAdaptiveQuestion
    <2>3. target \in Int
      <3>1. pending.elo \in UserElos
        BY DEF Inv, TypeOK
      <3> QED
        BY <3>1, TargetsInRange, Constants DEF Targets
    <2> QED
      BY <2>2, <2>3, ChoiceIsNearest DEF Inv
  <1> QED
    BY <1>1, Invariance, PTL DEF Spec, ServedIsNearest

=============================================================================
