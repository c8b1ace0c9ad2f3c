----------------------- MODULE MCDirectoryProvisioning -----------------------
(***************************************************************************)
(* Two shells, two accounts (one of them spelled in two ways), two groups. *)
(***************************************************************************)
EXTENDS DirectoryProvisioning

CONSTANTS ann, ANN, bob, annAccount, bobAccount, g1, g2

MCAccountOf == [l \in {ann, ANN, bob} |-> IF l = bob THEN bobAccount ELSE annAccount]

User(login, gs) == [login |-> login, form |-> "user", groups |-> gs]
Refused == [login |-> ann, form |-> "bad", groups |-> {}]

\* Two users, and a last row that is refused if it is read, but has no newline; one
\* account under two spellings; a second row that is refused.
MCCsvFiles ==
  { [rows |-> <<User(ann, {g1, g2}), User(bob, {g1}), Refused>>, terminated |-> FALSE],
    [rows |-> <<User(ANN, {g2}), User(ann, {g1})>>, terminated |-> TRUE],
    [rows |-> <<User(bob, {g2}), Refused>>, terminated |-> TRUE] }
=============================================================================
