--------------------------- MODULE AccountsProofs ---------------------------
(* What sign-in promises, for any numbers of accounts, addresses and tokens. *)
EXTENDS Accounts, TLAPS

\* A token, and a login that has read its row, name an account by both keys.
NamesAccount(id, email) == id \in Rows /\ users[id].email = email

TokenInv ==
    /\ \A t \in tokens : NamesAccount(t.sub, t.email)
    /\ \A r \in Requests : login[r] # NoLogin => NamesAccount(login[r].id, login[r].email)

PasswordInv ==
    \A reg \in registered :
        \E i \in Rows : users[i].email = reg[1] /\ users[i].password_hash = reg[2]

\* Where the subject of a row comes from, and where a Google login has led.
GoogleInv ==
    /\ \A g \in googled : NamesAccount(g.id, g.email) /\ users[g.id].google_sub # NoSub
    /\ \A i \in Rows : users[i].google_sub # NoSub =>
          \E g \in googled : g.id = i /\ g.subject = users[i].google_sub

Inv == TypeOK /\ KeysAreUnique /\ TokenInv /\ PasswordInv /\ GoogleInv

\* What every step does to the rows that are there: the fields that name the
\* account and the password stay, and a subject that is there stays.
RowsKept ==
    \A i \in Rows :
        /\ users'[i] # NoRow
        /\ users'[i].email = users[i].email
        /\ users'[i].password_hash = users[i].password_hash
        /\ users[i].google_sub # NoSub => users'[i].google_sub = users[i].google_sub
        /\ users[i].picture # NoPicture => users'[i].picture # NoPicture

LEMMA RowType ==
    ASSUME TypeOK, NEW i \in Rows
    PROVE  i \in Ids /\ users[i] \in UserRow
  BY DEF TypeOK, Rows

-----------------------------------------------------------------------------
(* The three ways table users changes *)

\* A new row: its keys were free.
LEMMA InsertFacts ==
    ASSUME TypeOK, NEW i \in Ids \ Rows, NEW row \in UserRow,
           users' = [users EXCEPT ![i] = row]
    PROVE  /\ Rows' = Rows \cup {i} /\ users'[i] = row
           /\ \A j \in Rows : users'[j] = users[j]
           /\ users' \in [Ids -> UserRow \cup {NoRow}]
  BY NoRowAssumption DEF TypeOK, Rows

\* A row rewritten in place.
LEMMA RewriteFacts ==
    ASSUME TypeOK, NEW i \in Rows, NEW row \in UserRow,
           users' = [users EXCEPT ![i] = row]
    PROVE  /\ Rows' = Rows /\ users'[i] = row
           /\ \A j \in Rows \ {i} : users'[j] = users[j]
           /\ users' \in [Ids -> UserRow \cup {NoRow}]
  BY NoRowAssumption DEF TypeOK, Rows

\* The upsert's conflict clause as one new row.
LEMMA LinkFacts ==
    ASSUME TypeOK, NEW sub \in Subjects, NEW email \in Emails, NEW picture \in Pictures,
           LinkGoogleUser(sub, email, picture)
    PROVE  \E i \in Rows, row \in UserRow :
              /\ users[i].email = email
              /\ users' = [users EXCEPT ![i] = row]
              /\ row.email = email /\ row.password_hash = users[i].password_hash
              /\ row.google_sub # NoSub
              /\ row.google_sub = IF users[i].google_sub = NoSub THEN sub
                                  ELSE users[i].google_sub
              /\ WithSub(row.google_sub) \subseteq {i}
              /\ row.picture # NoPicture
              /\ MayIssue(i, email)
              /\ googled' = googled \cup {[subject |-> sub, email |-> email, id |-> i]}
  <1>1. PICK i \in GetUserByEmail(email) :
           LET newSub == Coalesce(users[i].google_sub, NoSub, sub)
           IN  /\ WithSub(newSub) \subseteq {i}
               /\ users' = [users EXCEPT ![i].google_sub = newSub,
                                         ![i].picture = Coalesce(@, NoPicture, picture)]
               /\ MayIssue(i, email)
               /\ googled' = googled \cup {[subject |-> sub, email |-> email, id |-> i]}
    BY DEF LinkGoogleUser
  <1>2. i \in Rows /\ users[i] \in UserRow /\ users[i].email = email
    BY <1>1, RowType DEF GetUserByEmail
  <1> DEFINE newSub == Coalesce(users[i].google_sub, NoSub, sub)
             row == [users[i] EXCEPT !.google_sub = newSub,
                                     !.picture = Coalesce(@, NoPicture, picture)]
  <1>3. /\ newSub \in Subjects /\ newSub # NoSub
        /\ newSub = IF users[i].google_sub = NoSub THEN sub ELSE users[i].google_sub
    BY <1>2, NullAssumption DEF Coalesce, UserRow
  <1>4. /\ Coalesce(users[i].picture, NoPicture, picture) \in Pictures
        /\ Coalesce(users[i].picture, NoPicture, picture) # NoPicture
    BY <1>2, NullAssumption DEF Coalesce, UserRow
  <1>5. /\ row \in UserRow /\ row.google_sub = newSub /\ row.email = email
        /\ row.password_hash = users[i].password_hash /\ row.picture # NoPicture
    BY <1>2, <1>3, <1>4 DEF UserRow
  <1>6. users' = [users EXCEPT ![i] = row]
    BY <1>1, <1>2 DEF TypeOK
  <1> QED
    BY <1>1, <1>2, <1>3, <1>5, <1>6

\* The profile's update as one new row.
LEMMA ProfileFacts ==
    ASSUME TypeOK, NEW token \in Token, NEW picture \in Pictures,
           UpdateProfile(token, picture)
    PROVE  \E i \in Rows, row \in UserRow :
              /\ users' = [users EXCEPT ![i] = row]
              /\ row.email = users[i].email /\ row.password_hash = users[i].password_hash
              /\ row.google_sub = users[i].google_sub
              /\ row.picture # NoPicture
  <1> DEFINE i == JWTAuth(token)
             row == [users[i] EXCEPT !.picture = picture]
  <1>1. i \in Rows /\ users[i] \in UserRow
    BY RowType DEF UpdateProfile
  <1>2. /\ row \in UserRow /\ row.email = users[i].email
        /\ row.password_hash = users[i].password_hash
        /\ row.google_sub = users[i].google_sub /\ row.picture = picture
    BY <1>1 DEF UserRow
  <1>3. users' = [users EXCEPT ![i] = row]
    BY <1>1 DEF UpdateProfile, TypeOK
  <1> QED
    BY <1>1, <1>2, <1>3, NullAssumption

-----------------------------------------------------------------------------
(* The invariant *)

\* What must be shown of a step, once it is known to keep the rows.
LEMMA KeptInv ==
    ASSUME Inv, TypeOK', KeysAreUnique', RowsKept,
           \A t \in tokens' \ tokens : NamesAccount(t.sub, t.email)',
           \A r \in Requests : login'[r] \in {login[r], NoLogin}
                                \/ NamesAccount(login[r].id, login[r].email)',
           \A reg \in registered' \ registered :
              \E i \in Rows' : users'[i].email = reg[1] /\ users'[i].password_hash = reg[2],
           googled \subseteq googled',
           \A g \in googled' \ googled : NamesAccount(g.id, g.email)' /\ users'[g.id].google_sub # NoSub,
           \A i \in Rows' : (i \in Rows /\ users'[i].google_sub = users[i].google_sub)
                            \/ users'[i].google_sub = NoSub
                            \/ \E g \in googled' : g.id = i /\ g.subject = users'[i].google_sub
    PROVE  Inv'
  <1> USE DEF Inv
  <1>1. \A i \in Rows : i \in Rows'
    BY DEF RowsKept, Rows
  <1>2. \A id, email : NamesAccount(id, email) => NamesAccount(id, email)'
    BY <1>1 DEF RowsKept, NamesAccount
  <1>3. TokenInv'
    <2>1. \A t \in tokens' : NamesAccount(t.sub, t.email)'
      BY <1>2 DEF TokenInv
    <2>2. ASSUME NEW r \in Requests, login'[r] # NoLogin
          PROVE  NamesAccount(login[r].id, login[r].email)'
      <3>1. CASE login'[r] = login[r]
        <4>1. NamesAccount(login[r].id, login[r].email)
          BY <2>2, <3>1 DEF TokenInv
        <4>2. login[r].id \in Rows' /\ users'[login[r].id].email = login[r].email
          BY <1>1, <4>1 DEF RowsKept, NamesAccount
        <4> QED
          BY <3>1, <4>2 DEF NamesAccount
      <3> QED
        BY <2>2, <3>1
    <2> QED
      BY <2>1, <2>2 DEF TokenInv
  <1>4. PasswordInv'
    <2> SUFFICES ASSUME NEW reg \in registered'
                 PROVE  \E i \in Rows' : users'[i].email = reg[1] /\ users'[i].password_hash = reg[2]
      BY DEF PasswordInv
    <2>1. CASE reg \in registered
      <3>1. PICK i \in Rows : users[i].email = reg[1] /\ users[i].password_hash = reg[2]
        BY <2>1 DEF PasswordInv
      <3> QED
        BY <1>1, <3>1 DEF RowsKept
    <2> QED
      BY <2>1
  <1>5. GoogleInv'
    <2>1. ASSUME NEW g \in googled'
          PROVE  NamesAccount(g.id, g.email)' /\ users'[g.id].google_sub # NoSub
      <3>1. CASE g \in googled
        <4>1. NamesAccount(g.id, g.email) /\ users[g.id].google_sub # NoSub
          BY <3>1 DEF GoogleInv
        <4> QED
          BY <1>2, <4>1 DEF RowsKept, NamesAccount
      <3> QED
        BY <3>1
    <2>2. ASSUME NEW i \in Rows', users'[i].google_sub # NoSub
          PROVE  \E g \in googled' : g.id = i /\ g.subject = users'[i].google_sub
      <3>1. CASE i \in Rows /\ users'[i].google_sub = users[i].google_sub
        BY <2>2, <3>1 DEF GoogleInv
      <3> QED
        BY <2>2, <3>1
    <2> QED
      BY <2>1, <2>2 DEF GoogleInv
  <1> QED
    BY <1>3, <1>4, <1>5

LEMMA InvInit == Init => Inv
  BY DEF Init, Inv, TypeOK, KeysAreUnique, TokenInv, PasswordInv, GoogleInv, Rows

\* Tokens after an action that may have issued one.
LEMMA IssueFacts ==
    ASSUME TypeOK, NEW i \in Ids, NEW email \in Emails, MayIssue(i, email)
    PROVE  /\ tokens' \subseteq Token
           /\ \A t \in tokens' \ tokens : t.sub = i /\ t.email = email
  BY DEF TypeOK, MayIssue, GenerateToken, Token

LEMMA RegisterStep ==
    ASSUME Inv, NEW email \in Emails, NEW password \in Passwords, Register(email, password)
    PROVE  Inv' /\ RowsKept
  <1> USE DEF Inv
  <1>1. PICK i \in Ids \ Rows : CreateUser(i, email, password) /\ MayIssue(i, email)
    BY DEF Register
  <1> DEFINE row == [google_sub |-> NoSub, email |-> email,
                     password_hash |-> password, picture |-> NoPicture]
  <1>2. row \in UserRow
    BY DEF UserRow
  <1>3. /\ Rows' = Rows \cup {i} /\ users'[i] = row
        /\ \A j \in Rows : users'[j] = users[j]
        /\ users' \in [Ids -> UserRow \cup {NoRow}]
    BY <1>1, <1>2, InsertFacts DEF CreateUser
  <1>4. \A j \in Rows : users[j].email # email
    BY DEF Register, GetUserByEmail
  <1>5. KeysAreUnique'
    BY <1>3, <1>4 DEF KeysAreUnique
  <1>6. TypeOK'
    BY <1>1, <1>3, IssueFacts DEF Register, TypeOK
  <1>7. RowsKept
    BY <1>3 DEF RowsKept, Rows
  <1>8. NamesAccount(i, email)'
    BY <1>3 DEF NamesAccount
  <1>9. \A t \in tokens' \ tokens : NamesAccount(t.sub, t.email)'
    BY <1>1, <1>8, IssueFacts
  <1>10. /\ UNCHANGED <<login, googled>>
         /\ registered' = registered \cup {<<email, password>>}
    BY DEF Register
  <1>11. \A j \in Rows' : \/ j \in Rows /\ users'[j].google_sub = users[j].google_sub
                          \/ users'[j].google_sub = NoSub
    BY <1>3
  <1>12. \A reg \in registered' \ registered :
            \E j \in Rows' : users'[j].email = reg[1] /\ users'[j].password_hash = reg[2]
    BY <1>3, <1>10
  <1> QED
    BY <1>5, <1>6, <1>7, <1>9, <1>10, <1>11, <1>12, KeptInv

LEMMA InsertGoogleStep ==
    ASSUME Inv, NEW sub \in Subjects, NEW email \in Emails, NEW picture \in Pictures,
           InsertGoogleUser(sub, email, picture), UNCHANGED <<login, registered>>
    PROVE  Inv' /\ RowsKept
  <1> USE DEF Inv
  <1> DEFINE row == [google_sub |-> sub, email |-> email,
                     password_hash |-> NoHash, picture |-> picture]
  <1>1. PICK i \in Ids \ Rows :
           /\ users' = [users EXCEPT ![i] = row]
           /\ MayIssue(i, email)
           /\ googled' = googled \cup {[subject |-> sub, email |-> email, id |-> i]}
    BY DEF InsertGoogleUser
  <1>2. row \in UserRow /\ sub # NoSub
    BY NullAssumption DEF UserRow
  <1>3. /\ Rows' = Rows \cup {i} /\ users'[i] = row
        /\ \A j \in Rows : users'[j] = users[j]
        /\ users' \in [Ids -> UserRow \cup {NoRow}]
    BY <1>1, <1>2, InsertFacts
  <1>4. \A j \in Rows : users[j].email # email /\ users[j].google_sub # sub
    BY DEF InsertGoogleUser, GetUserByEmail, WithSub
  <1>5. KeysAreUnique'
    BY <1>3, <1>4 DEF KeysAreUnique
  <1>6. TypeOK'
    BY <1>1, <1>3, IssueFacts DEF TypeOK, Google
  <1>7. RowsKept
    BY <1>3 DEF RowsKept, Rows
  <1>8. NamesAccount(i, email)'
    BY <1>3 DEF NamesAccount
  <1>9. \A t \in tokens' \ tokens : NamesAccount(t.sub, t.email)'
    BY <1>1, <1>8, IssueFacts
  <1>10. \A g \in googled' \ googled : NamesAccount(g.id, g.email)' /\ users'[g.id].google_sub # NoSub
    BY <1>1, <1>2, <1>3, <1>8
  <1>11. \A j \in Rows' : \/ j \in Rows /\ users'[j].google_sub = users[j].google_sub
                          \/ \E g \in googled' : g.id = j /\ g.subject = users'[j].google_sub
    <2> DEFINE new == [subject |-> sub, email |-> email, id |-> i]
    <2>1. new \in googled' /\ new.id = i /\ new.subject = users'[i].google_sub
      BY <1>1, <1>3
    <2> QED
      BY <1>3, <2>1
  <1> QED
    BY <1>1, <1>5, <1>6, <1>7, <1>9, <1>10, <1>11, KeptInv

LEMMA LinkGoogleStep ==
    ASSUME Inv, NEW sub \in Subjects, NEW email \in Emails, NEW picture \in Pictures,
           LinkGoogleUser(sub, email, picture), UNCHANGED <<login, registered>>
    PROVE  Inv' /\ RowsKept
  <1> USE DEF Inv
  <1>1. PICK i \in Rows, row \in UserRow :
              /\ users[i].email = email
              /\ users' = [users EXCEPT ![i] = row]
              /\ row.email = email /\ row.password_hash = users[i].password_hash
              /\ row.google_sub # NoSub
              /\ row.google_sub = IF users[i].google_sub = NoSub THEN sub
                                  ELSE users[i].google_sub
              /\ WithSub(row.google_sub) \subseteq {i}
              /\ row.picture # NoPicture
              /\ MayIssue(i, email)
              /\ googled' = googled \cup {[subject |-> sub, email |-> email, id |-> i]}
    BY LinkFacts
  <1>2. /\ Rows' = Rows /\ users'[i] = row /\ i \in Ids
        /\ \A j \in Rows \ {i} : users'[j] = users[j]
        /\ users' \in [Ids -> UserRow \cup {NoRow}]
    BY <1>1, RewriteFacts DEF Rows
  <1>3. \A j \in Rows \ {i} : users[j].google_sub # row.google_sub
    BY <1>1 DEF WithSub
  <1>4. KeysAreUnique'
    BY <1>1, <1>2, <1>3 DEF KeysAreUnique
  <1>5. TypeOK'
    BY <1>1, <1>2, IssueFacts DEF TypeOK, Google
  <1>6. RowsKept
    <2>1. /\ row # NoRow
          /\ users[i].google_sub # NoSub => row.google_sub = users[i].google_sub
      BY <1>1, NoRowAssumption
    <2>2. \A j \in Rows : users[j] # NoRow
      BY DEF Rows
    <2> QED
      BY <1>1, <1>2, <2>1, <2>2 DEF RowsKept
  <1>7. NamesAccount(i, email)'
    BY <1>1, <1>2 DEF NamesAccount
  <1>8. \A t \in tokens' \ tokens : NamesAccount(t.sub, t.email)'
    BY <1>1, <1>2, <1>7, IssueFacts
  <1>9. \A g \in googled' \ googled : NamesAccount(g.id, g.email)' /\ users'[g.id].google_sub # NoSub
    BY <1>1, <1>2, <1>7
  <1>10. \A j \in Rows' : \/ j \in Rows /\ users'[j].google_sub = users[j].google_sub
                          \/ \E g \in googled' : g.id = j /\ g.subject = users'[j].google_sub
    <2> DEFINE new == [subject |-> sub, email |-> email, id |-> i]
    <2>1. new \in googled' /\ new.id = i /\ new.subject = sub
      BY <1>1
    <2>2. users'[i].google_sub \in {sub, users[i].google_sub}
      BY <1>1, <1>2
    <2> QED
      BY <1>2, <2>1, <2>2
  <1> QED
    BY <1>1, <1>4, <1>5, <1>6, <1>8, <1>9, <1>10, KeptInv

LEMMA ProfileStep ==
    ASSUME Inv, NEW token \in Token, NEW picture \in Pictures, UpdateProfile(token, picture)
    PROVE  Inv' /\ RowsKept
  <1> USE DEF Inv
  <1>1. PICK i \in Rows, row \in UserRow :
              /\ users' = [users EXCEPT ![i] = row]
              /\ row.email = users[i].email /\ row.password_hash = users[i].password_hash
              /\ row.google_sub = users[i].google_sub
              /\ row.picture # NoPicture
    BY ProfileFacts
  <1>2. /\ Rows' = Rows /\ users'[i] = row
        /\ \A j \in Rows \ {i} : users'[j] = users[j]
        /\ users' \in [Ids -> UserRow \cup {NoRow}]
    BY <1>1, RewriteFacts
  <1>3. UNCHANGED <<tokens, login, registered, googled>>
    BY DEF UpdateProfile
  <1>4. \A j \in Rows : /\ users'[j].email = users[j].email
                        /\ users'[j].google_sub = users[j].google_sub
                        /\ users'[j].password_hash = users[j].password_hash
    BY <1>1, <1>2
  <1>5. KeysAreUnique'
    BY <1>2, <1>4 DEF KeysAreUnique
  <1>6. TypeOK'
    BY <1>2, <1>3 DEF TypeOK
  <1>7. RowsKept
    BY <1>1, <1>2, <1>4, NoRowAssumption DEF RowsKept, Rows
  <1>8. \A j \in Rows' : j \in Rows /\ users'[j].google_sub = users[j].google_sub
    BY <1>2, <1>4
  <1> QED
    BY <1>3, <1>5, <1>6, <1>7, <1>8, KeptInv

\* A password login reads the table only.
LEMMA LoginStep ==
    ASSUME Inv, NEW r \in Requests,
           \/ ComparePassword(r)
           \/ \E email \in Emails, password \in Passwords : FindAccount(r, email, password)
    PROVE  Inv' /\ RowsKept
  <1> USE DEF Inv
  <1>1. CASE ComparePassword(r)
    <2>1. /\ UNCHANGED <<users, registered, googled>> /\ login[r] \in Login
          /\ login' = [login EXCEPT ![r] = NoLogin]
          /\ NamesAccount(login[r].id, login[r].email)
      BY <1>1 DEF ComparePassword, TypeOK, TokenInv
    <2>2. login[r].id \in Ids /\ login[r].email \in Emails
      BY <2>1 DEF Login
    <2>3. /\ tokens' \subseteq Token
          /\ \A t \in tokens' \ tokens : t.sub = login[r].id /\ t.email = login[r].email
      BY <1>1, <2>2, IssueFacts DEF ComparePassword, TypeOK
    <2>4. TypeOK'
      BY <2>1, <2>3 DEF TypeOK
    <2>5. RowsKept /\ Rows' = Rows /\ KeysAreUnique'
      BY <2>1 DEF RowsKept, Rows, KeysAreUnique
    <2>6. \A t \in tokens' \ tokens : NamesAccount(t.sub, t.email)'
      BY <2>1, <2>3, <2>5 DEF NamesAccount
    <2>7. \A q \in Requests : login'[q] \in {login[q], NoLogin}
      BY <2>1 DEF TypeOK
    <2> QED
      BY <2>1, <2>4, <2>5, <2>6, <2>7, KeptInv
  <1>2. ASSUME NEW email \in Emails, NEW password \in Passwords, FindAccount(r, email, password)
        PROVE  Inv' /\ RowsKept
    <2>1. PICK i \in GetUserByEmail(email) :
             login' = [login EXCEPT ![r] =
                [id |-> i, email |-> users[i].email,
                 hash |-> users[i].password_hash, password |-> password]]
      BY <1>2 DEF FindAccount
    <2>2. i \in Rows /\ i \in Ids /\ users[i] \in UserRow
      BY <2>1, RowType DEF GetUserByEmail
    <2> DEFINE found == [id |-> i, email |-> users[i].email,
                         hash |-> users[i].password_hash, password |-> password]
    <2>3. found \in Login
      BY <2>2 DEF UserRow, Login
    <2>4. UNCHANGED <<users, tokens, registered, googled>>
      BY <1>2 DEF FindAccount
    <2>5. login'[r] = found /\ \A q \in Requests \ {r} : login'[q] = login[q]
      BY <2>1 DEF TypeOK
    <2>6. TypeOK'
      BY <2>1, <2>3, <2>4 DEF TypeOK
    <2>7. RowsKept /\ Rows' = Rows /\ KeysAreUnique'
      BY <2>4 DEF RowsKept, Rows, KeysAreUnique
    <2>8. NamesAccount(login[r].id, login[r].email)'
      BY <2>2, <2>4, <2>5, <2>7 DEF NamesAccount
    <2>9. \A q \in Requests : login'[q] \in {login[q], NoLogin}
                              \/ NamesAccount(login[q].id, login[q].email)'
      BY <2>5, <2>8
    <2> QED
      BY <2>4, <2>6, <2>7, <2>9, KeptInv
  <1> QED
    BY <1>1, <1>2

LEMMA InvStep == Inv /\ [Next]_vars => Inv' /\ RowsKept
  <1> SUFFICES ASSUME Inv, [Next]_vars PROVE Inv' /\ RowsKept
    OBVIOUS
  <1>1. ASSUME NEW email \in Emails, NEW password \in Passwords, Register(email, password)
        PROVE  Inv' /\ RowsKept
    BY <1>1, RegisterStep
  <1>2. ASSUME NEW r \in Requests,
               \/ ComparePassword(r)
               \/ \E email \in Emails, password \in Passwords : FindAccount(r, email, password)
        PROVE  Inv' /\ RowsKept
    BY <1>2, LoginStep
  <1>3. ASSUME NEW sub \in Subjects, NEW email \in Emails, NEW picture \in Pictures,
               GoogleAuth(sub, email, picture)
        PROVE  Inv' /\ RowsKept
    BY <1>3, InsertGoogleStep, LinkGoogleStep DEF GoogleAuth
  <1>4. ASSUME NEW token \in Token, NEW picture \in Pictures, UpdateProfile(token, picture)
        PROVE  Inv' /\ RowsKept
    BY <1>4, ProfileStep
  <1>5. CASE UNCHANGED vars
    BY <1>5 DEF vars, Inv, TypeOK, KeysAreUnique, TokenInv, PasswordInv, GoogleInv,
                NamesAccount, Rows, RowsKept
  <1> QED
    BY <1>1, <1>2, <1>3, <1>4, <1>5 DEF Next

LEMMA Invariance == Spec => []Inv
  <1> QED
    BY InvInit, InvStep, PTL DEF Spec

-----------------------------------------------------------------------------
(* The theorems *)

\* Every variable of the accounts keeps its type.
THEOREM AccountsTypeCorrect == Spec => []TypeOK
  <1>1. Inv => TypeOK
    BY DEF Inv
  <1> QED
    BY <1>1, Invariance, PTL

\* An address and a Google subject each name one row at most.
THEOREM OneAccountPerKey == Spec => []KeysAreUnique
  <1>1. Inv => KeysAreUnique
    BY DEF Inv
  <1> QED
    BY <1>1, Invariance, PTL

\* No step takes an address, a password or a subject away from an account.
THEOREM CredentialsKept == Spec => AccountsKeepCredentials
  <1>1. Inv /\ [Next]_vars => [RowsKept]_vars
    BY InvStep
  <1> QED
    BY <1>1, Invariance, PTL DEF Spec, AccountsKeepCredentials, RowsKept

\* A registered password opens its account for ever.
THEOREM PasswordNeverLost == Spec => []RegisteredPasswordWorks
  <1>1. Inv => RegisteredPasswordWorks
    BY DEF Inv, PasswordInv, RegisteredPasswordWorks, GetUserByEmail
  <1> QED
    BY <1>1, Invariance, PTL

\* The two names in a token stay names of one account.
THEOREM TokensStayTrue == Spec => []TokensNameTheirAccount
  <1>1. Inv => TokensNameTheirAccount
    BY DEF Inv, TokenInv, NamesAccount, TokensNameTheirAccount, Me, GetUserByID, JWTAuth
  <1> QED
    BY <1>1, Invariance, PTL

\* Unless two Google accounts share an address, each has one account here.
THEOREM SubjectsKeepTheirAccount == Spec => []SubjectReachesOneAccount
  <1>1. Inv => SubjectReachesOneAccount
    <2> SUFFICES ASSUME Inv,
                        \A g, h \in googled : g.email = h.email => g.subject = h.subject,
                        NEW g \in googled, NEW h \in googled, g.subject = h.subject
                 PROVE  g.id = h.id
      BY DEF SubjectReachesOneAccount
    <2>1. ASSUME NEW x \in googled
          PROVE  x.id \in Rows /\ users[x.id].google_sub = x.subject /\ x.subject # NoSub
      <3>1. x.id \in Rows /\ users[x.id].email = x.email /\ users[x.id].google_sub # NoSub
        BY DEF Inv, GoogleInv, NamesAccount
      <3>2. PICK y \in googled : y.id = x.id /\ y.subject = users[x.id].google_sub
        BY <3>1 DEF Inv, GoogleInv
      <3>3. y.email = x.email
        BY <3>1, <3>2 DEF Inv, GoogleInv, NamesAccount
      <3> QED
        BY <3>1, <3>2, <3>3
    <2> QED
      BY <2>1 DEF Inv, KeysAreUnique
  <1> QED
    BY <1>1, Invariance, PTL

=============================================================================
