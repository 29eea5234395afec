----------------------------- MODULE MCAccounts -----------------------------
(***************************************************************************)
(* Accounts for TLC: usernames in two spellings, seed files, symmetry.     *)
(***************************************************************************)
EXTENDS Accounts, TLC

CONSTANTS n1, N1, n2, s1

\* n1 is the lower-case form of N1.
TwoSpellings == [n \in Usernames |-> IF n = N1 THEN n1 ELSE n]

\* Every name has the lower-case form of one UUID.
SpellingsOfSub == [n \in Usernames |-> s1]

\* The server draws the usernames; both triggers.
WithEmailUsernames ==
  {[emailUsernames |-> TRUE, caseSensitive |-> FALSE, triggers |-> {"preSignUp", "userMigration"},
    namesSubs |-> FALSE, seeds |-> Empty]}

\* The same, with a seed user and migrations that choose the username.
WithMigratedNames ==
  {[emailUsernames |-> TRUE, caseSensitive |-> FALSE, triggers |-> {"preSignUp", "userMigration"},
    namesSubs |-> TRUE, seeds |-> [n \in {n1} |-> e]] : e \in Emails}

\* Callers choose usernames, letter case does not matter, one seed user with
\* any of the addresses, whose name may have another spelling.
WithNames ==
  {[emailUsernames |-> FALSE, caseSensitive |-> FALSE, triggers |-> {}, namesSubs |-> FALSE,
    seeds |-> [n \in {seed} |-> e]] : seed \in {n1, n2}, e \in Emails}

EmailsOrNames == WithEmailUsernames \cup WithNames

\* Callers choose usernames and sign-ups wait for preSignUp.
WithNamesAndTrigger ==
  {[emailUsernames |-> FALSE, caseSensitive |-> FALSE, triggers |-> {"preSignUp"}, namesSubs |-> FALSE,
    seeds |-> Empty]}

\* Every set of configurations above is closed under permutations of Emails.
Symmetry == Permutations(Emails) \cup Permutations(Codes) \cup Permutations(Calls)

SymmetryAndSubs == Symmetry \cup Permutations(Subs)
=============================================================================
