------------------------------ MODULE Accounts ------------------------------
(***************************************************************************)
(* Accounts and sign-in: registration and password login, Google login,    *)
(* and the profile's picture (handlers/auth.go, handlers/user.go, the      *)
(* users statements of database/postgres.go, utils/jwt.go and              *)
(* middleware/auth.go).                                                    *)
(*                                                                         *)
(* The rows of table users are shared by two ways to sign in that know     *)
(* nothing of each other.  A password account is found by its e-mail       *)
(* address; a Google login upserts by address too, although Google's name  *)
(* for a person is the subject, and people change addresses.  Tokens carry *)
(* the id and the address of a row and are never revoked: logout only      *)
(* checks that there is one.                                               *)
(*                                                                         *)
(* External: bcrypt is a one-to-one function of at most 72 bytes (a hash   *)
(* is named by the password it was made from); a JWT is accepted until it  *)
(* expires, at a time nobody controls; Google vouches for the payload it   *)
(* signs.  A row's name is left out: nothing reads it but replies.         *)
(***************************************************************************)
EXTENDS Naturals, FiniteSets

CONSTANTS
    Ids,         \* ids table users can hand out
    Emails,      \* addresses clients send
    ValidEmails, \* those ValidateEmail accepts
    Passwords,   \* passwords of at least 6 characters clients send
    Hashable,    \* those bcrypt agrees to hash (at most 72 bytes)
    BcryptKey,   \* the part of a password bcrypt compares (the first 72 bytes)
    Subjects,    \* subjects of Google accounts
    Pictures,    \* picture claims and picture fields; one that is missing is ""
    Requests,    \* logins that can be in flight at a time
    NoRow, NoSub, NoHash, NoPicture, NoLogin

ASSUME SetsAssumption ==
    /\ ValidEmails \subseteq Emails
    /\ Hashable \subseteq Passwords
    /\ BcryptKey \in [Passwords -> Hashable]
    /\ \A p \in Hashable : BcryptKey[p] = p

ASSUME NullAssumption ==
    NoSub \notin Subjects /\ NoHash \notin Passwords /\ NoPicture \notin Pictures

VARIABLES
    users,      \* table users: the row of each id
    tokens,     \* the tokens clients hold
    login,      \* a password login between its SELECT and the comparison
    \* History variables: no action reads them.
    registered, \* <<email, password>> of every registration that committed
    googled     \* subject, address and row of every upsert that committed

vars == <<users, tokens, login, registered, googled>>

UserRow == [google_sub : Subjects \cup {NoSub}, email : Emails,
            password_hash : Passwords \cup {NoHash}, picture : Pictures \cup {NoPicture}]

Token == [sub : Ids, email : Emails]

Login == [id : Ids, email : Emails, hash : Passwords \cup {NoHash}, password : Passwords]

Google == [subject : Subjects, email : Emails, id : Ids]

ASSUME NoRowAssumption == NoRow \notin UserRow /\ NoLogin \notin Login

TypeOK ==
    /\ users \in [Ids -> UserRow \cup {NoRow}]
    /\ tokens \subseteq Token
    /\ login \in [Requests -> Login \cup {NoLogin}]
    /\ registered \subseteq Emails \X Passwords
    /\ googled \subseteq Google

Init ==
    /\ users = [i \in Ids |-> NoRow]
    /\ tokens = {}
    /\ login = [r \in Requests |-> NoLogin]
    /\ registered = {}
    /\ googled = {}

-----------------------------------------------------------------------------
(* Table users *)

Rows == {i \in Ids : users[i] # NoRow}

\* The rows of an address; there is one at most (UNIQUE).
GetUserByEmail(email) == {i \in Rows : users[i].email = email}

GetUserByID(id) == {i \in Rows : i = id}

WithSub(sub) == {i \in Rows : users[i].google_sub = sub}

\* COALESCE(a, b) for a null value of its own.
Coalesce(a, null, b) == IF a = null THEN b ELSE a

\* INSERT INTO users: the columns not named are NULL.
CreateUser(i, email, hash) ==
    users' = [users EXCEPT ![i] =
                [google_sub |-> NoSub, email |-> email,
                 password_hash |-> hash, picture |-> NoPicture]]

GenerateTokenSwapped(id, email) == [sub |-> email, email |-> id]

\* The claims a token carries besides its times.
GenerateToken(id, email) == [sub |-> id, email |-> email]

\* The client receives a token, or not: the reply may be lost, or signing may
\* fail, after the row was written.
MayIssue(id, email) ==
    \/ tokens' = tokens \cup {GenerateToken(id, email)}
    \/ UNCHANGED tokens

\* JWTAuth: the token's subject is the user a request acts for, if the token
\* has not expired (else 401).
JWTAuth(token) == token.sub

-----------------------------------------------------------------------------
(* POST /auth/register *)

\* The address is taken over by whoever registers it last.
RegisterOrReplace(email, password) ==
    /\ email \in ValidEmails
    /\ password \in Hashable
    /\ \E i \in Ids :
          /\ IF GetUserByEmail(email) = {} THEN i \notin Rows ELSE i \in GetUserByEmail(email)
          /\ CreateUser(i, email, password)
          /\ MayIssue(i, email)
    /\ registered' = registered \cup {<<email, password>>}
    /\ UNCHANGED <<login, googled>>

\* The refusals change nothing: 400 (address, password or name), 500 (bcrypt
\* refuses the password) and 409 (UNIQUE (email)).
Register(email, password) ==
    /\ email \in ValidEmails
    /\ password \in Hashable
    /\ GetUserByEmail(email) = {}
    /\ \E i \in Ids \ Rows :
          /\ CreateUser(i, email, password)
          /\ MayIssue(i, email)
    /\ registered' = registered \cup {<<email, password>>}
    /\ UNCHANGED <<login, googled>>

-----------------------------------------------------------------------------
(* POST /auth/login *)

\* GetUserByEmail; 401 if there is no such row.
FindAccount(r, email, password) ==
    /\ login[r] = NoLogin
    /\ email \in ValidEmails
    /\ \E i \in GetUserByEmail(email) :
          login' = [login EXCEPT ![r] =
             [id |-> i, email |-> users[i].email,
              hash |-> users[i].password_hash, password |-> password]]
    /\ UNCHANGED <<users, tokens, registered, googled>>

\* 401 for an account without a password or another password than the
\* row's, else the token of the row that was read.
ComparePassword(r) ==
    /\ login[r] # NoLogin
    /\ IF login[r].hash # NoHash /\ login[r].hash = BcryptKey[login[r].password]
       THEN MayIssue(login[r].id, login[r].email)
       ELSE UNCHANGED tokens
    /\ login' = [login EXCEPT ![r] = NoLogin]
    /\ UNCHANGED <<users, registered, googled>>

-----------------------------------------------------------------------------
(* POST /auth/google, with a payload Google has signed *)

InsertGoogleUser(sub, email, picture) ==
    /\ GetUserByEmail(email) = {}
    /\ WithSub(sub) = {}
    /\ \E i \in Ids \ Rows :
          /\ users' = [users EXCEPT ![i] =
                [google_sub |-> sub, email |-> email,
                 password_hash |-> NoHash, picture |-> picture]]
          /\ MayIssue(i, email)
          /\ googled' = googled \cup {[subject |-> sub, email |-> email, id |-> i]}

\* The login that comes last names the subject.
LinkGoogleUserLastWins(sub, email, picture) ==
    \E i \in GetUserByEmail(email) :
       /\ WithSub(sub) \subseteq {i}
       /\ users' = [users EXCEPT ![i].google_sub = sub,
                                 ![i].picture = Coalesce(@, NoPicture, picture)]
       /\ MayIssue(i, email)
       /\ googled' = googled \cup {[subject |-> sub, email |-> email, id |-> i]}

\* UNIQUE (google_sub) is not there.
LinkGoogleUserSubNotUnique(sub, email, picture) ==
    \E i \in GetUserByEmail(email) :
       /\ users' = [users EXCEPT ![i].google_sub = Coalesce(@, NoSub, sub),
                                 ![i].picture = Coalesce(@, NoPicture, picture)]
       /\ MayIssue(i, email)
       /\ googled' = googled \cup {[subject |-> sub, email |-> email, id |-> i]}

\* The upsert looks the account up by its subject and follows the address.
LinkGoogleUserBySubject(sub, email, picture) ==
    \E i \in Rows :
       /\ i \in IF WithSub(sub) # {} THEN WithSub(sub) ELSE GetUserByEmail(email)
       /\ GetUserByEmail(email) \subseteq {i}
       /\ users' = [users EXCEPT ![i].google_sub = Coalesce(@, NoSub, sub),
                                 ![i].email = email,
                                 ![i].picture = Coalesce(@, NoPicture, picture)]
       /\ MayIssue(i, email)
       /\ googled' = googled \cup {[subject |-> sub, email |-> email, id |-> i]}

\* ON CONFLICT (email) DO UPDATE: an account that has a subject keeps it, and
\* one that has none gets this one, unless another row has it (500).
LinkGoogleUser(sub, email, picture) ==
    \E i \in GetUserByEmail(email) :
       LET newSub == Coalesce(users[i].google_sub, NoSub, sub)
       IN  /\ WithSub(newSub) \subseteq {i}
           /\ users' = [users EXCEPT ![i].google_sub = newSub,
                                     ![i].picture = Coalesce(@, NoPicture, picture)]
           /\ MayIssue(i, email)
           /\ googled' = googled \cup {[subject |-> sub, email |-> email, id |-> i]}

\* The refusals change nothing: 401 for a token that does not verify or a
\* payload without a subject or a usable address, 500 when a unique column
\* objects: the conflict clause names the address only.
GoogleAuth(sub, email, picture) ==
    /\ email \in ValidEmails
    /\ \/ InsertGoogleUser(sub, email, picture)
       \/ LinkGoogleUser(sub, email, picture)
    /\ UNCHANGED <<login, registered>>

-----------------------------------------------------------------------------
(* Routes behind JWTAuth *)

\* PUT /user/profile, with a token that has not expired: the picture of the
\* token's row is assigned (a missing field is "", never NULL); a SELECT
\* then fills the reply.
UpdateProfile(token, picture) ==
    /\ token \in tokens
    /\ JWTAuth(token) \in Rows
    /\ users' = [users EXCEPT ![JWTAuth(token)].picture = picture]
    /\ UNCHANGED <<tokens, login, registered, googled>>

\* GET /auth/me, /user/profile and /user/dashboard: the row the reply shows.
Me(token) == GetUserByID(JWTAuth(token))

Next ==
    \/ \E email \in Emails, password \in Passwords :
          \/ Register(email, password)
          \/ \E r \in Requests : FindAccount(r, email, password)
    \/ \E r \in Requests : ComparePassword(r)
    \/ \E sub \in Subjects, email \in Emails, picture \in Pictures :
          GoogleAuth(sub, email, picture)
    \/ \E token \in Token, picture \in Pictures : UpdateProfile(token, picture)

Spec == Init /\ [][Next]_vars

-----------------------------------------------------------------------------
(* Properties *)

\* The row found by address or by subject is the only one (the upsert names
\* one unique column and must not break the other, postgres.go:71).
KeysAreUnique ==
    \A i, j \in Rows :
        \/ users[i].email = users[j].email
        \/ users[i].google_sub # NoSub /\ users[i].google_sub = users[j].google_sub
        => i = j

\* No sign-in takes over or damages an account: an address, a password and a
\* Google subject, once there, stay; no account that came from Google gets a
\* password; and a picture is never lost to NULL (the COALESCEs of the upsert,
\* and the INSERT of CreateUser, which has no conflict clause).
AccountsKeepCredentials ==
    [][\A i \in Rows :
          /\ users'[i] # NoRow
          /\ users'[i].email = users[i].email
          /\ users'[i].password_hash = users[i].password_hash
          /\ users[i].google_sub # NoSub => users'[i].google_sub = users[i].google_sub
          /\ users[i].picture # NoPicture => users'[i].picture # NoPicture]_vars

\* Whoever registered can log in with that password for ever, Google logins
\* with the same address notwithstanding, even if the reply to the
\* registration was lost and its retry was refused with 409.
RegisteredPasswordWorks ==
    \A reg \in registered :
        \E i \in GetUserByEmail(reg[1]) : users[i].password_hash = reg[2]

\* A token, which is never revoked, names an account by id and by address, and
\* the middleware and the admin check each believe one of the two: they stay
\* the same account (auth.go:83, jwt.go:19).
TokensNameTheirAccount ==
    \A token \in tokens :
        \E i \in Me(token) : users[i].email = token.email

\* As long as no address has been used by two Google accounts, a Google account
\* always reaches the same row, also after its address has changed (then the
\* login may be refused, but never leads to another account).
SubjectReachesOneAccount ==
    (\A g, h \in googled : g.email = h.email => g.subject = h.subject) =>
        \A g, h \in googled : g.subject = h.subject => g.id = h.id

=============================================================================
