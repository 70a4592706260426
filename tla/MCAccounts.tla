----------------------------- MODULE MCAccounts -----------------------------
(* Values of the constants of Accounts for TLC. *)
EXTENDS Accounts, TLC

CONSTANTS i1, i2, i3, ann, bob, eve, bad, secret, other, long, s1, s2, own, r1

ThreeIds == {i1, i2, i3}
AllEmails == {ann, bob, eve, bad}
GoodEmails == {ann, bob, eve}
AllPasswords == {secret, other, long}
GoodPasswords == {secret, other}
\* A password of more than 72 bytes that starts like another one.
First72 == [p \in AllPasswords |-> IF p = long THEN other ELSE p]
TwoSubjects == {s1, s2}
AllPictures == {own, ""}
OneRequest == {r1}

Symmetry == Permutations(ThreeIds) \cup Permutations(GoodEmails)
            \cup Permutations(TwoSubjects)

=============================================================================
