-------------------- MODULE DirectoryProvisioningProofs --------------------
(***************************************************************************)
(* Proofs about DirectoryProvisioning for any number of shells, logins,    *)
(* accounts, groups and files, and any number of faults.                   *)
(***************************************************************************)
EXTENDS DirectoryProvisioning, WellFoundedInduction, TLAPS

Second == {"show", "create", "members", "add"}

\* Row i of the file a run q was given, and what the script has found out about the
\* lines before n.
Row(q, i) == Lines(q.file)[i]

CheckedTo(q, n) ==
  /\ \A i \in DOMAIN Lines(q.file) : i < n => Row(q, i).form # "bad"
  /\ \A i \in UserLines(q.file) : i < n => Row(q, i).groups \subseteq q.checked
  /\ \A i, j \in UserLines(q.file) : i < j /\ j < n => Row(q, i).login # Row(q, j).login

AllChecked(q) ==
  /\ Accepted(q.file)
  /\ \A i \in UserLines(q.file) : Row(q, i).groups \subseteq q.checked

\* Where a run is in its file.
PlaceInv(q) ==
  /\ q.pc \in {"check", "groups"} =>
       /\ q.pos \in 1..Len(Lines(q.file)) + 1
       /\ CheckedTo(q, q.pos)
  /\ q.pc = "groups" =>
       /\ q.pos \in UserLines(q.file)
       /\ \A i \in UserLines(q.file) : i < q.pos => Row(q, i).login # Row(q, q.pos).login
       /\ Row(q, q.pos).groups \subseteq q.checked \cup q.todo
  /\ q.pc \in Second => AllChecked(q)
  /\ q.pc \in {"create", "members", "add"} =>
       q.pos \in UserLines(q.file) /\ q.todo \subseteq Row(q, q.pos).groups
  /\ q.pc \in {"create", "add"} => q.apply
  /\ q.pc = "create" => q.todo = Row(q, q.pos).groups
  /\ q.pc = "add" => q.next \subseteq Row(q, q.pos).groups

\* A row is provisioned in a directory of spellings s, groups gs and members ms.
RowDone(row, s, gs, ms) ==
  /\ s[AccountOf[row.login]] # NoLogin
  /\ \A g \in row.groups \cap gs : <<g, AccountOf[row.login]>> \in ms

\* What a run with --apply has got done.
DoneInv(q, s, gs, ms) ==
  q.apply =>
    /\ q.pc \in Second =>
         \A i \in UserLines(q.file) : i < q.pos => RowDone(Row(q, i), s, gs, ms)
    /\ q.pc \in {"members", "add"} =>
         LET row == Row(q, q.pos)
         IN  /\ s[AccountOf[row.login]] # NoLogin
             /\ \A g \in row.groups \cap gs :
                  \/ g \in q.todo
                  \/ q.pc = "add" /\ g \in q.next
                  \/ <<g, AccountOf[row.login]>> \in ms
    /\ q.pc = "done" =>
         \A i \in UserLines(q.file) : RowDone(Row(q, i), s, gs, ms)

RunsInv == \A r \in Operators : /\ PlaceInv(run[r])
                                /\ DoneInv(run[r], spelling, groups, members)

ProvInv == TypeOK /\ RunsInv

\* Accounts stay, groups go for good, members go with their group only.
DirectoryGrows ==
  /\ \A a \in Accounts : spelling[a] # NoLogin => spelling'[a] # NoLogin
  /\ groups' \subseteq groups
  /\ \A m \in members : m[1] \in groups' => m \in members'

-----------------------------------------------------------------------------
LEMMA FileFacts ==
  ASSUME NEW f \in CsvFiles
  PROVE  /\ Lines(f) \in Seq(Rows) /\ Len(Lines(f)) \in Nat
         /\ DOMAIN Lines(f) = 1..Len(Lines(f))
         /\ UserLines(f) \subseteq 1..Len(Lines(f))
         /\ \A i \in DOMAIN Lines(f) :
              /\ Lines(f)[i] \in Rows /\ Lines(f)[i].login \in Logins
              /\ Lines(f)[i].form \in {"user", "skipped", "bad"}
              /\ Lines(f)[i].groups \subseteq Groups
              /\ AccountOf[Lines(f)[i].login] \in Accounts
              /\ i \in UserLines(f) <=> Lines(f)[i].form = "user"
<1>1. f.rows \in Seq(Rows) /\ Len(f.rows) \in Nat /\ Len(f.rows) > 0
  BY ProvisioningAssumption
<1>2. SubSeq(f.rows, 1, Len(f.rows) - 1) \in Seq(Rows)
  BY <1>1
<1>3. Lines(f) \in Seq(Rows)
  BY <1>1, <1>2 DEF Lines
<1>4. Len(Lines(f)) \in Nat /\ DOMAIN Lines(f) = 1..Len(Lines(f))
  BY <1>3
<1>5. ASSUME NEW i \in DOMAIN Lines(f)
      PROVE  /\ Lines(f)[i] \in Rows /\ Lines(f)[i].login \in Logins
             /\ Lines(f)[i].form \in {"user", "skipped", "bad"}
             /\ Lines(f)[i].groups \subseteq Groups
             /\ AccountOf[Lines(f)[i].login] \in Accounts
             /\ i \in UserLines(f) <=> Lines(f)[i].form = "user"
  <2>1. Lines(f)[i] \in Rows
    BY <1>3, <1>4
  <2>2. /\ Lines(f)[i].login \in Logins /\ Lines(f)[i].form \in {"user", "skipped", "bad"}
        /\ Lines(f)[i].groups \subseteq Groups
    BY <2>1 DEF Rows
  <2>3. AccountOf[Lines(f)[i].login] \in Accounts
    BY <2>2, ProvisioningAssumption
  <2>4. QED
    BY <2>1, <2>2, <2>3 DEF UserLines
<1>6. UserLines(f) \subseteq 1..Len(Lines(f))
  BY <1>4 DEF UserLines
<1>7. QED
  BY <1>3, <1>4, <1>5, <1>6

LEMMA RunFields ==
  ASSUME NEW q \in Runs
  PROVE  /\ q.pc \in Phases /\ q.file \in CsvFiles /\ q.apply \in BOOLEAN /\ q.pos \in Nat
         /\ q.checked \subseteq Groups /\ q.todo \subseteq Groups /\ q.next \subseteq Groups
  BY DEF Runs

LEMMA RunType ==
  ASSUME TypeOK, NEW r \in Operators
  PROVE  run[r] \in Runs
  BY DEF TypeOK

LEMMA SetFacts ==
  ASSUME TypeOK, NEW r \in Operators, NEW q \in Runs, Set(r, q)
  PROVE  /\ run' \in [Operators -> Runs] /\ run'[r] = q
         /\ \A o \in Operators : o # r => run'[o] = run[o]
  BY DEF TypeOK, Set

LEMMA BegunFacts ==
  ASSUME NEW file \in CsvFiles, NEW apply \in BOOLEAN
  PROVE  /\ Begun(file, apply) \in Runs
         /\ PlaceInv(Begun(file, apply))
         /\ \A s, gs, ms : DoneInv(Begun(file, apply), s, gs, ms)
<1>. DEFINE q == Begun(file, apply)
<1>1. /\ q \in Runs /\ q.pc = "check" /\ q.file = file /\ q.pos = 1 /\ q.apply = apply
      /\ q.checked = {} /\ q.todo = {} /\ q.next = {}
  BY DEF Begun, Runs, Phases, Ended
<1>. HIDE DEF q
<1>2. 1 \in 1..Len(Lines(file)) + 1
  BY FileFacts
<1>3. CheckedTo(q, 1)
  BY <1>1, FileFacts DEF CheckedTo
<1>4. PlaceInv(q)
  BY <1>1, <1>2, <1>3 DEF PlaceInv, Second
<1>5. \A s, gs, ms : DoneInv(q, s, gs, ms)
  BY <1>1 DEF DoneInv, Second
<1>6. QED
  BY <1>1, <1>4, <1>5 DEF q

LEMMA StoppedFacts ==
  /\ Stopped \in Runs /\ PlaceInv(Stopped)
  /\ \A s, gs, ms : DoneInv(Stopped, s, gs, ms)
<1>. DEFINE f == CHOOSE f \in CsvFiles : TRUE
<1>1. f \in CsvFiles
  BY ProvisioningAssumption
<1>2. Stopped \in Runs /\ Stopped.pc = "stopped"
  BY <1>1 DEF Stopped, Begun, Runs, Phases, Ended
<1>3. QED
  BY <1>2 DEF PlaceInv, DoneInv, Second

LEMMA LeastNatural ==
  ASSUME NEW T, T \subseteq Nat, T # {}
  PROVE  \E n \in T : \A m \in T : n <= m
<1>1. IsWellFoundedOn(OpToRel(<, Nat), Nat)
  BY NatLessThanWellFounded
<1>2. PICK n \in T : \A m \in T : ~(<<m, n>> \in OpToRel(<, Nat))
  BY <1>1, WFMin
<1>3. ASSUME NEW m \in T PROVE n <= m
  <2>1. m \in Nat /\ n \in Nat
    OBVIOUS
  <2>2. ~(m < n)
    BY <1>2, <2>1 DEF OpToRel
  <2>3. QED
    BY <2>1, <2>2
<1>4. QED
  BY <1>3

\* The line the second pass comes to.
LEMMA NextLineFacts ==
  ASSUME TypeOK, NEW r \in Operators, LinesLeft(r) # {}
  PROVE  /\ NextLine(r) \in UserLines(run[r].file) /\ NextLine(r) >= run[r].pos
         /\ NextLine(r) \in Nat
         /\ \A i \in UserLines(run[r].file) : i < NextLine(r) => i < run[r].pos
<1>1. run[r].pos \in Nat /\ run[r].file \in CsvFiles
  BY RunType, RunFields
<1>2. LinesLeft(r) \subseteq Nat
  BY <1>1, FileFacts DEF LinesLeft
<1>3. \E n \in LinesLeft(r) : \A m \in LinesLeft(r) : n <= m
  BY <1>2, LeastNatural
<1>4. NextLine(r) \in LinesLeft(r) /\ \A m \in LinesLeft(r) : NextLine(r) <= m
  BY <1>3 DEF NextLine
<1>5. UserLines(run[r].file) \subseteq Nat
  BY <1>1, FileFacts
<1>6. QED
  BY <1>1, <1>2, <1>4, <1>5 DEF LinesLeft

LEMMA GrowsOrSame ==
  ASSUME UNCHANGED <<spelling, groups, members>>
  PROVE  DirectoryGrows
  BY DEF DirectoryGrows

\* What is done stays done.
LEMMA DoneStable ==
  ASSUME TypeOK, DirectoryGrows
  PROVE  \A q \in Runs :
           PlaceInv(q) /\ DoneInv(q, spelling, groups, members) =>
             DoneInv(q, spelling', groups', members')
<1>. SUFFICES ASSUME NEW q \in Runs, PlaceInv(q), DoneInv(q, spelling, groups, members),
                     q.apply
              PROVE  DoneInv(q, spelling', groups', members')
  BY DEF DoneInv
<1>1. q.file \in CsvFiles
  BY RunFields
<1>2. ASSUME NEW i \in UserLines(q.file)
      PROVE  /\ AccountOf[Row(q, i).login] \in Accounts
             /\ RowDone(Row(q, i), spelling, groups, members) =>
                  RowDone(Row(q, i), spelling', groups', members')
  <2>1. AccountOf[Row(q, i).login] \in Accounts
    BY <1>1, FileFacts DEF Row
  <2>2. ASSUME NEW g \in groups', <<g, AccountOf[Row(q, i).login]>> \in members
        PROVE  <<g, AccountOf[Row(q, i).login]>> \in members'
    BY <2>2 DEF DirectoryGrows
  <2>3. QED
    BY <2>1, <2>2 DEF RowDone, DirectoryGrows
<1>3. ASSUME q.pc \in {"members", "add"}
      PROVE  LET row == Row(q, q.pos)
             IN  /\ spelling'[AccountOf[row.login]] # NoLogin
                 /\ \A g \in row.groups \cap groups' :
                      \/ g \in q.todo
                      \/ q.pc = "add" /\ g \in q.next
                      \/ <<g, AccountOf[row.login]>> \in members'
  <2>1. q.pos \in UserLines(q.file)
    BY <1>3 DEF PlaceInv
  <2>2. AccountOf[Row(q, q.pos).login] \in Accounts
    BY <1>2, <2>1
  <2>3. ASSUME NEW g \in groups', <<g, AccountOf[Row(q, q.pos).login]>> \in members
        PROVE  <<g, AccountOf[Row(q, q.pos).login]>> \in members'
    BY <2>3 DEF DirectoryGrows
  <2>4. QED
    BY <1>3, <2>2, <2>3 DEF DoneInv, DirectoryGrows
<1>4. QED
  BY <1>2, <1>3 DEF DoneInv

\* One run moves, the directory grows, everyone is where the invariant says.
LEMMA OneMoves ==
  ASSUME ProvInv, DirectoryGrows, NEW r \in Operators, NEW q \in Runs, Set(r, q),
         PlaceInv(q), DoneInv(q, spelling', groups', members')
  PROVE  run' \in [Operators -> Runs] /\ RunsInv'
<1>1. /\ run' \in [Operators -> Runs] /\ run'[r] = q
      /\ \A o \in Operators : o # r => run'[o] = run[o]
  BY SetFacts DEF ProvInv
<1>2. ASSUME NEW o \in Operators
      PROVE  PlaceInv(run'[o]) /\ DoneInv(run'[o], spelling', groups', members')
  <2>1. CASE o = r
    BY <1>1, <2>1
  <2>2. CASE o # r
    <3>1. run[o] \in Runs /\ PlaceInv(run[o]) /\ DoneInv(run[o], spelling, groups, members)
      BY RunType DEF ProvInv, RunsInv
    <3>2. DoneInv(run[o], spelling', groups', members')
      BY <3>1, DoneStable DEF ProvInv
    <3>3. QED
      BY <1>1, <2>2, <3>1, <3>2
  <2>3. QED
    BY <2>1, <2>2
<1>3. QED
  BY <1>1, <1>2 DEF RunsInv

\* A run that stops leaves the others alone.
LEMMA OneStops ==
  ASSUME ProvInv, DirectoryGrows, NEW r \in Operators, Set(r, Stopped)
  PROVE  run' \in [Operators -> Runs] /\ RunsInv'
  BY StoppedFacts, OneMoves

LEMMA FaultType ==
  ASSUME TypeOK, Fault
  PROVE  faults' \in 0..MaxFaults
  BY ProvisioningAssumption DEF TypeOK, Fault

-----------------------------------------------------------------------------
(***************************************************************************)
(* The first pass.                                                         *)
(***************************************************************************)

LEMMA CheckLineKeeps ==
  ASSUME ProvInv, NEW r \in Operators, CheckLine(r)
  PROVE  ProvInv'
<1>. DEFINE p == run[r]
            ls == Lines(p.file)
<1>1. p \in Runs /\ p.file \in CsvFiles /\ p.pos \in Nat /\ PlaceInv(p)
  BY RunType, RunFields DEF ProvInv, RunsInv
<1>2. /\ p.pc = "check" /\ p.pos <= Len(ls) /\ UNCHANGED <<spelling, groups, members, faults>>
  BY DEF CheckLine, directory
<1>3. p.pos \in 1..Len(ls) /\ CheckedTo(p, p.pos) /\ p.pos + 1 \in 1..Len(ls) + 1
  BY <1>1, <1>2, FileFacts DEF PlaceInv
<1>4. Line(r) = Row(p, p.pos)
  BY DEF Line, Row
<1>5. CASE Line(r).form = "skipped"
  <2>. DEFINE q == [p EXCEPT !.pos = @ + 1]
  <2>1. Set(r, q)
    BY <1>2, <1>5 DEF CheckLine
  <2>2. /\ q \in Runs /\ q.pc = "check" /\ q.file = p.file /\ q.pos = p.pos + 1
        /\ q.checked = p.checked
    BY <1>1, <1>2 DEF Runs
  <2>. HIDE DEF q
  <2>3. CheckedTo(q, q.pos)
    BY <1>1, <1>3, <1>4, <1>5, <2>2, FileFacts DEF CheckedTo, Row
  <2>4. PlaceInv(q)
    BY <1>3, <2>2, <2>3 DEF PlaceInv, Second
  <2>5. DoneInv(q, spelling', groups', members')
    BY <2>2 DEF DoneInv, Second
  <2>6. run' \in [Operators -> Runs] /\ RunsInv'
    BY <1>2, <2>1, <2>2, <2>4, <2>5, OneMoves, GrowsOrSame
  <2>7. QED
    BY <1>2, <2>6 DEF ProvInv, TypeOK
<1>6. CASE Set(r, Stopped)
  <2>1. run' \in [Operators -> Runs] /\ RunsInv'
    BY <1>2, <1>6, OneStops, GrowsOrSame
  <2>2. QED
    BY <1>2, <2>1 DEF ProvInv, TypeOK
<1>7. CASE /\ Line(r).form = "user" /\ Line(r).login \notin Seen(r)
           /\ Set(r, [p EXCEPT !.pc = "groups", !.todo = Line(r).groups \ p.checked])
  <2>. DEFINE q == [p EXCEPT !.pc = "groups", !.todo = Line(r).groups \ p.checked]
  <2>0. Line(r).groups \subseteq Groups /\ p.pos \in UserLines(p.file)
    BY <1>1, <1>3, <1>4, <1>7, FileFacts DEF Row
  <2>1. /\ q \in Runs /\ q.pc = "groups" /\ q.file = p.file /\ q.pos = p.pos
        /\ q.checked = p.checked /\ q.todo = Line(r).groups \ p.checked
    BY <1>1, <2>0 DEF Runs, Phases
  <2>2. Set(r, q)
    BY <1>7
  <2>. HIDE DEF q
  <2>3. CheckedTo(q, q.pos)
    BY <1>3, <2>1 DEF CheckedTo, Row
  <2>4. ASSUME NEW i \in UserLines(p.file), i < p.pos
        PROVE  Row(p, i).login # Row(p, p.pos).login
    <3>1. i \in 1..p.pos - 1 /\ ls[i].form = "user"
      BY <1>1, <2>4, FileFacts
    <3>2. ls[i].login \in Seen(r)
      BY <3>1 DEF Seen
    <3>3. QED
      BY <3>2, <1>7, <1>4 DEF Row
  <2>5. PlaceInv(q)
    BY <1>3, <1>4, <2>0, <2>1, <2>3, <2>4 DEF PlaceInv, Second, Row
  <2>6. DoneInv(q, spelling', groups', members')
    BY <2>1 DEF DoneInv, Second
  <2>7. run' \in [Operators -> Runs] /\ RunsInv'
    BY <1>2, <2>1, <2>2, <2>5, <2>6, OneMoves, GrowsOrSame
  <2>8. QED
    BY <1>2, <2>7 DEF ProvInv, TypeOK
<1>8. Line(r).form \in {"user", "skipped", "bad"}
  BY <1>1, <1>3, <1>4, FileFacts DEF Row
<1>9. QED
  BY <1>5, <1>6, <1>7, <1>8 DEF CheckLine

LEMMA CheckGroupKeeps ==
  ASSUME ProvInv, NEW r \in Operators, CheckGroup(r)
  PROVE  ProvInv'
<1>. DEFINE p == run[r]
            ls == Lines(p.file)
<1>1. /\ p \in Runs /\ p.file \in CsvFiles /\ p.pos \in Nat /\ PlaceInv(p)
      /\ p.todo \subseteq Groups /\ p.checked \subseteq Groups
  BY RunType, RunFields DEF ProvInv, RunsInv
<1>2. p.pc = "groups" /\ UNCHANGED <<spelling, groups, members>>
  BY DEF CheckGroup, directory
<1>3. /\ p.pos \in 1..Len(ls) + 1 /\ CheckedTo(p, p.pos) /\ p.pos \in UserLines(p.file)
      /\ \A i \in UserLines(p.file) : i < p.pos => Row(p, i).login # Row(p, p.pos).login
      /\ Row(p, p.pos).groups \subseteq p.checked \cup p.todo
  BY <1>1, <1>2 DEF PlaceInv
<1>4. ASSUME NEW q \in Runs, Set(r, q), PlaceInv(q), q.pc \in {"check", "groups"},
             faults' \in 0..MaxFaults
      PROVE  ProvInv'
  <2>1. DoneInv(q, spelling', groups', members')
    BY <1>4 DEF DoneInv, Second
  <2>2. run' \in [Operators -> Runs] /\ RunsInv'
    BY <1>2, <1>4, <2>1, OneMoves, GrowsOrSame
  <2>3. QED
    BY <1>2, <1>4, <2>2 DEF ProvInv, TypeOK
<1>5. CASE /\ p.todo = {} /\ UNCHANGED faults
           /\ Set(r, [p EXCEPT !.pc = "check", !.pos = @ + 1])
  <2>. DEFINE q == [p EXCEPT !.pc = "check", !.pos = @ + 1]
  <2>0. p.pos + 1 \in Nat /\ "check" \in Phases
    BY <1>1 DEF Phases
  <2>1. /\ q \in Runs /\ q.pc = "check" /\ q.file = p.file /\ q.pos = p.pos + 1
        /\ q.checked = p.checked
    BY <1>1, <2>0 DEF Runs
  <2>2. Set(r, q)
    BY <1>5
  <2>. HIDE DEF q
  <2>3. p.pos \in 1..Len(ls) /\ UserLines(p.file) \subseteq Nat /\ DOMAIN ls \subseteq Nat
    BY <1>1, <1>3, FileFacts
  <2>4. q.pos \in 1..Len(Lines(q.file)) + 1
    BY <2>1, <2>3, <1>1, FileFacts
  <2>5. \A i \in DOMAIN ls : i < p.pos + 1 => ls[i].form # "bad"
    <3> SUFFICES ASSUME NEW i \in DOMAIN ls, i < p.pos + 1 PROVE ls[i].form # "bad"
      OBVIOUS
    <3>1. CASE i = p.pos
      BY <3>1, <1>1, <1>3, FileFacts
    <3>2. CASE i < p.pos
      BY <3>2, <1>3 DEF CheckedTo, Row
    <3>3. QED
      BY <3>1, <3>2, <2>3, <1>1
  <2>6. \A i \in UserLines(p.file) : i < p.pos + 1 => ls[i].groups \subseteq p.checked
    <3> SUFFICES ASSUME NEW i \in UserLines(p.file), i < p.pos + 1
                 PROVE  ls[i].groups \subseteq p.checked
      OBVIOUS
    <3>1. CASE i = p.pos
      BY <3>1, <1>3, <1>5 DEF Row
    <3>2. CASE i < p.pos
      BY <3>2, <1>3 DEF CheckedTo, Row
    <3>3. QED
      BY <3>1, <3>2, <2>3, <1>1
  <2>7. \A i, j \in UserLines(p.file) : i < j /\ j < p.pos + 1 => ls[i].login # ls[j].login
    <3> SUFFICES ASSUME NEW i \in UserLines(p.file), NEW j \in UserLines(p.file),
                        i < j, j < p.pos + 1
                 PROVE  ls[i].login # ls[j].login
      OBVIOUS
    <3>1. CASE j = p.pos
      BY <3>1, <1>3 DEF Row
    <3>2. CASE j < p.pos
      BY <3>2, <1>3 DEF CheckedTo, Row
    <3>3. QED
      BY <3>1, <3>2, <2>3, <1>1
  <2>8. CheckedTo(q, q.pos)
    BY <2>1, <2>5, <2>6, <2>7 DEF CheckedTo, Row
  <2>9. PlaceInv(q)
    BY <2>1, <2>4, <2>8 DEF PlaceInv, Second
  <2>10. faults' \in 0..MaxFaults
    BY <1>5 DEF ProvInv, TypeOK
  <2>11. QED
    BY <1>4, <2>1, <2>2, <2>9, <2>10
<1>6. ASSUME NEW g \in p.todo, UNCHANGED faults,
             Set(r, [p EXCEPT !.checked = @ \cup {g}, !.todo = @ \ {g}])
      PROVE  ProvInv'
  <2>. DEFINE q == [p EXCEPT !.checked = @ \cup {g}, !.todo = @ \ {g}]
  <2>1. /\ q \in Runs /\ q.pc = "groups" /\ q.file = p.file /\ q.pos = p.pos
        /\ q.checked = p.checked \cup {g} /\ q.todo = p.todo \ {g}
    BY <1>1, <1>2, <1>6 DEF Runs
  <2>2. Set(r, q)
    BY <1>6
  <2>. HIDE DEF q
  <2>3. CheckedTo(q, q.pos)
    BY <1>3, <2>1 DEF CheckedTo, Row
  <2>4. PlaceInv(q)
    BY <1>3, <2>1, <2>3 DEF PlaceInv, Second, Row
  <2>5. faults' \in 0..MaxFaults
    BY <1>6 DEF ProvInv, TypeOK
  <2>6. QED
    BY <1>4, <2>1, <2>2, <2>4, <2>5
<1>7. CASE Set(r, Stopped) /\ faults' \in 0..MaxFaults
  <2>1. run' \in [Operators -> Runs] /\ RunsInv'
    BY <1>2, <1>7, OneStops, GrowsOrSame
  <2>2. QED
    BY <1>2, <1>7, <2>1 DEF ProvInv, TypeOK
<1>8. UNCHANGED faults \/ Fault => faults' \in 0..MaxFaults
  BY FaultType DEF ProvInv, TypeOK
<1>9. QED
  BY <1>5, <1>6, <1>7, <1>8 DEF CheckGroup

LEMMA ReadPasswordKeeps ==
  ASSUME ProvInv, NEW r \in Operators, ReadPassword(r)
  PROVE  ProvInv'
<1>. DEFINE p == run[r]
            ls == Lines(p.file)
<1>1. /\ p \in Runs /\ p.file \in CsvFiles /\ p.pos \in Nat /\ PlaceInv(p)
  BY RunType, RunFields DEF ProvInv, RunsInv
<1>2. p.pc = "check" /\ p.pos > Len(ls) /\ UNCHANGED <<spelling, groups, members>>
  BY DEF ReadPassword, directory
<1>3. p.pos \in 1..Len(ls) + 1 /\ CheckedTo(p, p.pos)
  BY <1>1, <1>2 DEF PlaceInv
<1>4. faults' \in 0..MaxFaults
  BY FaultType DEF ReadPassword, ProvInv, TypeOK
<1>5. CASE Set(r, [p EXCEPT !.pc = "show", !.pos = 1])
  <2>. DEFINE q == [p EXCEPT !.pc = "show", !.pos = 1]
  <2>1. /\ q \in Runs /\ q.pc = "show" /\ q.file = p.file /\ q.pos = 1
        /\ q.checked = p.checked
    BY <1>1 DEF Runs, Phases
  <2>2. Set(r, q)
    BY <1>5
  <2>. HIDE DEF q
  <2>3. \A i \in DOMAIN ls : i \in Nat /\ i < p.pos
    BY <1>1, <1>2, FileFacts
  <2>4. UserLines(p.file) \subseteq DOMAIN ls
    BY <1>1, FileFacts
  <2>5. Accepted(p.file)
    <3>1. \A i \in DOMAIN ls : ls[i].form # "bad"
      BY <1>3, <2>3 DEF CheckedTo, Row
    <3>2. ASSUME NEW i \in UserLines(p.file), NEW j \in UserLines(p.file), i # j
          PROVE  ls[i].login # ls[j].login
      <4>1. CASE i < j
        BY <4>1, <1>3, <2>3, <2>4 DEF CheckedTo, Row
      <4>2. CASE j < i
        BY <4>2, <1>3, <2>3, <2>4 DEF CheckedTo, Row
      <4>3. QED
        BY <4>1, <4>2, <3>2, <2>3, <2>4
    <3>3. QED
      BY <3>1, <3>2 DEF Accepted
  <2>6. AllChecked(q)
    BY <1>3, <2>1, <2>3, <2>4, <2>5 DEF AllChecked, CheckedTo, Row
  <2>7. PlaceInv(q)
    BY <2>1, <2>6 DEF PlaceInv
  <2>8. DoneInv(q, spelling', groups', members')
    BY <1>1, <2>1, FileFacts DEF DoneInv
  <2>9. run' \in [Operators -> Runs] /\ RunsInv'
    BY <1>2, <2>1, <2>2, <2>7, <2>8, OneMoves, GrowsOrSame
  <2>10. QED
    BY <1>2, <1>4, <2>9 DEF ProvInv, TypeOK
<1>6. CASE Set(r, Stopped)
  <2>1. run' \in [Operators -> Runs] /\ RunsInv'
    BY <1>2, <1>6, OneStops, GrowsOrSame
  <2>2. QED
    BY <1>2, <1>4, <2>1 DEF ProvInv, TypeOK
<1>7. QED
  BY <1>5, <1>6 DEF ReadPassword

-----------------------------------------------------------------------------
(***************************************************************************)
(* The second pass.                                                        *)
(***************************************************************************)

\* A move of a run that leaves the directory as it is, or a run that stops.
LEMMA QuietMove ==
  ASSUME ProvInv, UNCHANGED <<spelling, groups, members>>, faults' \in 0..MaxFaults,
         NEW r \in Operators, NEW q \in Runs, Set(r, q),
         PlaceInv(q), DoneInv(q, spelling, groups, members)
  PROVE  ProvInv'
<1>1. run' \in [Operators -> Runs] /\ RunsInv'
  BY OneMoves, GrowsOrSame
<1>2. QED
  BY <1>1 DEF ProvInv, TypeOK

\* What the invariant says of a run in the second pass.
LEMMA SecondFacts ==
  ASSUME ProvInv, NEW r \in Operators, run[r].pc \in Second
  PROVE  /\ run[r] \in Runs /\ run[r].file \in CsvFiles /\ run[r].pos \in Nat
         /\ run[r].todo \subseteq Groups
         /\ AllChecked(run[r]) /\ PlaceInv(run[r])
         /\ DoneInv(run[r], spelling, groups, members)
         /\ run[r].pc \in {"create", "members", "add"} =>
              /\ run[r].pos \in UserLines(run[r].file)
              /\ Line(r) = Row(run[r], run[r].pos)
              /\ Line(r).login \in Logins /\ Account(r) \in Accounts
              /\ Account(r) = AccountOf[Line(r).login]
              /\ run[r].todo \subseteq Line(r).groups
<1>1. /\ run[r] \in Runs /\ run[r].file \in CsvFiles /\ run[r].pos \in Nat
      /\ run[r].todo \subseteq Groups
      /\ PlaceInv(run[r]) /\ DoneInv(run[r], spelling, groups, members)
  BY RunType, RunFields DEF ProvInv, RunsInv
<1>2. AllChecked(run[r])
  BY <1>1 DEF PlaceInv
<1>3. ASSUME run[r].pc \in {"create", "members", "add"}
      PROVE  /\ run[r].pos \in UserLines(run[r].file)
             /\ run[r].todo \subseteq Row(run[r], run[r].pos).groups
  BY <1>1, <1>3 DEF PlaceInv
<1>4. Line(r) = Row(run[r], run[r].pos)
  BY DEF Line, Row
<1>5. QED
  BY <1>1, <1>2, <1>3, <1>4, FileFacts DEF Account, Row

LEMMA ShowUserKeeps ==
  ASSUME ProvInv, NEW r \in Operators, ShowUser(r)
  PROVE  ProvInv'
<1>. DEFINE p == run[r]
            n == NextLine(r)
            row == Lines(p.file)[n]
<1>1. p.pc = "show" /\ LinesLeft(r) # {} /\ UNCHANGED <<spelling, groups, members>>
  BY DEF ShowUser, directory
<1>2. /\ p \in Runs /\ p.file \in CsvFiles /\ p.pos \in Nat /\ AllChecked(p)
      /\ DoneInv(p, spelling, groups, members)
  BY <1>1, SecondFacts DEF Second
<1>3. /\ n \in UserLines(p.file) /\ n \in Nat
      /\ \A i \in UserLines(p.file) : i < n => i < p.pos
  BY <1>1, NextLineFacts DEF ProvInv
<1>4. row.groups \subseteq Groups
  BY <1>2, <1>3, FileFacts
<1>5. faults' \in 0..MaxFaults
  BY FaultType DEF ShowUser, ProvInv, TypeOK
<1>. HIDE DEF n
<1>6. ASSUME NEW pc \in {"create", "members"}, pc = "create" => p.apply,
             pc = "members" => spelling[AccountOf[row.login]] # NoLogin \/ ~p.apply,
             Set(r, [p EXCEPT !.pos = n, !.todo = row.groups, !.pc = pc])
      PROVE  ProvInv'
  <2>. DEFINE q == [p EXCEPT !.pos = n, !.todo = row.groups, !.pc = pc]
  <2>0. pc \in Phases
    BY DEF Phases
  <2>1. /\ q \in Runs /\ q.pc = pc /\ q.file = p.file /\ q.pos = n /\ q.apply = p.apply
        /\ q.checked = p.checked /\ q.todo = row.groups
    BY <1>2, <1>3, <1>4, <2>0 DEF Runs
  <2>2. Set(r, q)
    BY <1>6
  <2>. HIDE DEF q
  <2>3. AllChecked(q)
    BY <1>2, <2>1 DEF AllChecked, Row
  <2>4. PlaceInv(q)
    BY <1>3, <1>6, <2>1, <2>3 DEF PlaceInv, Row
  <2>5. p.apply => \A i \in UserLines(p.file) : i < n => RowDone(Row(p, i), spelling, groups, members)
    BY <1>1, <1>2, <1>3 DEF DoneInv, Second
  <2>6. DoneInv(q, spelling, groups, members)
    BY <1>6, <2>1, <2>5 DEF DoneInv, Row
  <2>7. QED
    BY <1>1, <1>5, <2>1, <2>2, <2>4, <2>6, QuietMove
<1>7. PICK pc \in {"create", "members"} :
        /\ pc = "create" => p.apply
        /\ pc = "members" => spelling[AccountOf[row.login]] # NoLogin \/ ~p.apply
        /\ Set(r, [p EXCEPT !.pos = n, !.todo = row.groups, !.pc = pc])
  <2>1. CASE Set(r, [[p EXCEPT !.pos = n, !.todo = row.groups] EXCEPT !.pc = "members"])
             /\ spelling[AccountOf[row.login]] # NoLogin
    <3>1. [[p EXCEPT !.pos = n, !.todo = row.groups] EXCEPT !.pc = "members"]
            = [p EXCEPT !.pos = n, !.todo = row.groups, !.pc = "members"]
      BY <1>2 DEF Runs
    <3>2. QED
      BY <2>1, <3>1
  <2>2. CASE Set(r, [[p EXCEPT !.pos = n, !.todo = row.groups] EXCEPT
                       !.pc = IF p.apply THEN "create" ELSE "members"])
    <3>. DEFINE pc == IF p.apply THEN "create" ELSE "members"
    <3>1. [[p EXCEPT !.pos = n, !.todo = row.groups] EXCEPT !.pc = pc]
            = [p EXCEPT !.pos = n, !.todo = row.groups, !.pc = pc]
      BY <1>2 DEF Runs
    <3>2. QED
      BY <2>2, <3>1
  <2>3. QED
    BY <2>1, <2>2 DEF ShowUser, n
<1>8. QED
  BY <1>6, <1>7

\* The create call: an account is created with the row's login, or nothing is.
LEMMA CreateUserFacts ==
  ASSUME ProvInv, NEW r \in Operators, CreateUser(r)
  PROVE  /\ run[r].pc = "create" /\ UNCHANGED <<groups, members>>
         /\ faults' \in 0..MaxFaults
         /\ spelling' \in [Accounts -> Logins \cup {NoLogin}]
         /\ \A a \in Accounts : spelling'[a] # spelling[a] =>
              /\ spelling[a] = NoLogin /\ a = Account(r)
              /\ spelling'[a] = Line(r).login /\ spelling'[a] # NoLogin
         /\ \/ Set(r, Stopped)
            \/ /\ Set(r, [run[r] EXCEPT !.pc = "members"])
               /\ spelling'[Account(r)] # NoLogin
<1>1. run[r].pc = "create" /\ UNCHANGED <<groups, members>>
  BY DEF CreateUser
<1>2. Account(r) \in Accounts /\ Line(r).login \in Logins /\ Line(r).login # NoLogin
  BY <1>1, SecondFacts, ProvisioningAssumption DEF Second
<1>3. faults' \in 0..MaxFaults
  BY FaultType DEF CreateUser, ProvInv, TypeOK
<1>4. spelling \in [Accounts -> Logins \cup {NoLogin}]
  BY DEF ProvInv, TypeOK
<1>5. \/ UNCHANGED spelling /\ Set(r, Stopped)
      \/ /\ spelling[Account(r)] = NoLogin
         /\ spelling' = [spelling EXCEPT ![Account(r)] = Line(r).login]
         /\ Set(r, Stopped) \/ Set(r, [run[r] EXCEPT !.pc = "members"])
  BY DEF CreateUser
<1>6. QED
  BY <1>1, <1>2, <1>3, <1>4, <1>5

LEMMA CreateUserKeeps ==
  ASSUME ProvInv, NEW r \in Operators, CreateUser(r)
  PROVE  ProvInv'
<1>. DEFINE p == run[r]
<1>1. p.pc = "create" /\ UNCHANGED <<groups, members>> /\ faults' \in 0..MaxFaults
  BY CreateUserFacts
<1>2. DirectoryGrows
  BY CreateUserFacts DEF DirectoryGrows
<1>3. /\ spelling' \in [Accounts -> Logins \cup {NoLogin}]
      /\ groups' \subseteq Groups
      /\ members' \subseteq {m \in groups' \X Accounts : spelling'[m[2]] # NoLogin}
  <2>1. groups' \subseteq Groups /\ spelling' \in [Accounts -> Logins \cup {NoLogin}]
    BY <1>1, CreateUserFacts DEF ProvInv, TypeOK
  <2>2. ASSUME NEW m \in members PROVE m \in groups \X Accounts /\ spelling'[m[2]] # NoLogin
    <3>1. m \in groups \X Accounts /\ spelling[m[2]] # NoLogin /\ m[2] \in Accounts
      BY DEF ProvInv, TypeOK
    <3>2. QED
      BY <1>2, <3>1 DEF DirectoryGrows
  <2>3. QED
    BY <1>1, <2>1, <2>2
<1>4. run' \in [Operators -> Runs] /\ RunsInv'
  <2>1. CASE Set(r, Stopped)
    BY <1>2, <2>1, OneStops
  <2>2. CASE Set(r, [p EXCEPT !.pc = "members"]) /\ spelling'[Account(r)] # NoLogin
    <3>. DEFINE q == [p EXCEPT !.pc = "members"]
    <3>0. "members" \in Phases
      BY DEF Phases
    <3>1. /\ p \in Runs /\ AllChecked(p) /\ PlaceInv(p)
          /\ DoneInv(p, spelling, groups, members)
          /\ Line(r) = Row(p, p.pos) /\ Account(r) = AccountOf[Line(r).login]
          /\ p.apply
      BY <1>1, SecondFacts DEF Second, PlaceInv
    <3>2. /\ q \in Runs /\ q.pc = "members" /\ q.file = p.file /\ q.pos = p.pos
          /\ q.apply = p.apply /\ q.checked = p.checked /\ q.todo = p.todo
      BY <3>0, <3>1 DEF Runs
    <3>3. Set(r, q)
      BY <2>2
    <3>. HIDE DEF q
    <3>4. PlaceInv(q)
      BY <1>1, <3>1, <3>2 DEF PlaceInv, AllChecked, Row
    <3>5. DoneInv(p, spelling', groups', members')
      BY <1>2, <3>1, DoneStable DEF ProvInv
    <3>6. q.todo = Row(p, p.pos).groups
      BY <1>1, <3>1, <3>2 DEF PlaceInv
    <3>7. DoneInv(q, spelling', groups', members')
      BY <1>1, <2>2, <3>1, <3>2, <3>5, <3>6 DEF DoneInv, Second, Row
    <3>8. QED
      BY <1>2, <3>2, <3>3, <3>4, <3>7, OneMoves
  <2>3. QED
    BY <2>1, <2>2, CreateUserFacts
<1>5. QED
  BY <1>1, <1>3, <1>4 DEF ProvInv, TypeOK

LEMMA ListMembersKeeps ==
  ASSUME ProvInv, NEW r \in Operators, ListMembers(r)
  PROVE  ProvInv'
<1>. DEFINE p == run[r]
<1>1. p.pc = "members" /\ UNCHANGED <<spelling, groups, members, faults>>
  BY DEF ListMembers, directory
<1>2. /\ p \in Runs /\ p.pos \in Nat /\ p.file \in CsvFiles /\ p.todo \subseteq Groups
      /\ AllChecked(p) /\ DoneInv(p, spelling, groups, members)
      /\ p.pos \in UserLines(p.file) /\ Line(r) = Row(p, p.pos)
      /\ p.todo \subseteq Row(p, p.pos).groups
  BY <1>1, SecondFacts DEF Second
<1>3. faults' \in 0..MaxFaults
  BY <1>1 DEF ProvInv, TypeOK
<1>4. p.apply =>
        /\ \A i \in UserLines(p.file) : i < p.pos => RowDone(Row(p, i), spelling, groups, members)
        /\ spelling[AccountOf[Line(r).login]] # NoLogin
        /\ \A g \in Line(r).groups \cap groups :
             g \in p.todo \/ <<g, AccountOf[Line(r).login]>> \in members
  BY <1>1, <1>2 DEF DoneInv, Second
<1>5. CASE p.todo = {} /\ Set(r, [p EXCEPT !.pc = "show", !.pos = @ + 1])
  <2>. DEFINE q == [p EXCEPT !.pc = "show", !.pos = @ + 1]
  <2>0. p.pos + 1 \in Nat /\ "show" \in Phases
    BY <1>2 DEF Phases
  <2>1. /\ q \in Runs /\ q.pc = "show" /\ q.file = p.file /\ q.pos = p.pos + 1
        /\ q.apply = p.apply /\ q.checked = p.checked
    BY <1>2, <2>0 DEF Runs
  <2>2. Set(r, q)
    BY <1>5
  <2>. HIDE DEF q
  <2>3. PlaceInv(q)
    BY <1>2, <2>1 DEF PlaceInv, AllChecked, Row
  <2>4. p.apply => RowDone(Row(p, p.pos), spelling, groups, members)
    BY <1>2, <1>4, <1>5 DEF RowDone
  <2>5. ASSUME p.apply, NEW i \in UserLines(p.file), i < p.pos + 1
        PROVE  RowDone(Row(p, i), spelling, groups, members)
    <3>1. i \in Nat
      BY <1>2, FileFacts
    <3>2. i < p.pos \/ i = p.pos
      BY <1>2, <2>5, <3>1
    <3>3. QED
      BY <1>4, <2>4, <2>5, <3>2
  <2>6. DoneInv(q, spelling, groups, members)
    BY <2>1, <2>5 DEF DoneInv, Row
  <2>7. QED
    BY <1>1, <1>3, <2>1, <2>2, <2>3, <2>6, QuietMove
<1>6. ASSUME NEW g \in p.todo, Set(r, [p EXCEPT !.todo = @ \ {g}]),
             p.apply => Listed(g, Line(r).login)
      PROVE  ProvInv'
  <2>. DEFINE q == [p EXCEPT !.todo = @ \ {g}]
  <2>1. /\ q \in Runs /\ q.pc = "members" /\ q.file = p.file /\ q.pos = p.pos
        /\ q.apply = p.apply /\ q.checked = p.checked /\ q.todo = p.todo \ {g}
    BY <1>1, <1>2 DEF Runs
  <2>2. Set(r, q)
    BY <1>6
  <2>. HIDE DEF q
  <2>3. PlaceInv(q)
    BY <1>2, <2>1 DEF PlaceInv, AllChecked, Row
  <2>4. p.apply => \A h \in Line(r).groups \cap groups :
                     h \in q.todo \/ <<h, AccountOf[Line(r).login]>> \in members
    BY <1>4, <1>6, <2>1 DEF Listed
  <2>5. DoneInv(q, spelling, groups, members)
    BY <1>2, <1>4, <2>1, <2>4 DEF DoneInv, Row
  <2>6. QED
    BY <1>1, <1>3, <2>1, <2>2, <2>3, <2>5, QuietMove
<1>7. ASSUME NEW g \in p.todo, p.apply,
             Set(r, [p EXCEPT !.todo = p.todo \ {g}, !.pc = "add", !.next = {g}])
      PROVE  ProvInv'
  <2>. DEFINE q == [p EXCEPT !.todo = p.todo \ {g}, !.pc = "add", !.next = {g}]
  <2>0. "add" \in Phases /\ {g} \subseteq Groups
    BY <1>2 DEF Phases
  <2>1. /\ q \in Runs /\ q.pc = "add" /\ q.file = p.file /\ q.pos = p.pos
        /\ q.apply = p.apply /\ q.checked = p.checked /\ q.todo = p.todo \ {g}
        /\ q.next = {g}
    BY <1>2, <2>0 DEF Runs
  <2>2. Set(r, q)
    BY <1>7
  <2>. HIDE DEF q
  <2>3. PlaceInv(q)
    BY <1>2, <1>7, <2>1 DEF PlaceInv, AllChecked, Row
  <2>4. \A h \in Line(r).groups \cap groups :
          h \in q.todo \/ h \in q.next \/ <<h, AccountOf[Line(r).login]>> \in members
    BY <1>4, <1>7, <2>1
  <2>5. DoneInv(q, spelling, groups, members)
    BY <1>2, <1>4, <1>7, <2>1, <2>4 DEF DoneInv, Row
  <2>6. QED
    BY <1>1, <1>3, <2>1, <2>2, <2>3, <2>5, QuietMove
<1>8. ASSUME NEW g \in p.todo
      PROVE  /\ [[p EXCEPT !.todo = @ \ {g}] EXCEPT !.pc = "add", !.next = {g}]
                  = [p EXCEPT !.todo = p.todo \ {g}, !.pc = "add", !.next = {g}]
  BY <1>2 DEF Runs
<1>9. \/ p.todo = {} /\ Set(r, [p EXCEPT !.pc = "show", !.pos = @ + 1])
      \/ \E g \in p.todo :
           \/ Set(r, [p EXCEPT !.todo = @ \ {g}]) /\ (p.apply => Listed(g, Line(r).login))
           \/ /\ p.apply
              /\ Set(r, [[p EXCEPT !.todo = @ \ {g}] EXCEPT !.pc = "add", !.next = {g}])
  BY DEF ListMembers
<1>10. QED
  BY <1>5, <1>6, <1>7, <1>8, <1>9

\* The addmembers call: the member is there, or the run stops.
LEMMA AddMemberFacts ==
  ASSUME ProvInv, NEW r \in Operators, AddMember(r)
  PROVE  /\ run[r].pc = "add" /\ UNCHANGED <<spelling, groups>>
         /\ faults' \in 0..MaxFaults
         /\ members \subseteq members'
         /\ \A m \in members' \ members :
              m[1] \in run[r].next \cap groups /\ m = <<m[1], Account(r)>>
         /\ \/ Set(r, Stopped)
            \/ /\ Set(r, [run[r] EXCEPT !.pc = "members", !.next = {}])
               /\ \A g \in run[r].next : <<g, Account(r)>> \in members'
<1>. DEFINE added == members \cup {<<g, Account(r)>> : g \in run[r].next \cap groups}
<1>1. run[r].pc = "add" /\ UNCHANGED <<spelling, groups>>
  BY DEF AddMember
<1>2. faults' \in 0..MaxFaults
  BY FaultType DEF AddMember, ProvInv, TypeOK
<1>3. \/ /\ run[r].next \subseteq groups /\ members' = added
         /\ Set(r, [run[r] EXCEPT !.pc = "members", !.next = {}])
      \/ Set(r, Stopped) /\ members' \in {members, added}
  BY DEF AddMember
<1>4. members' \in {members, added}
  BY <1>3
<1>5. \A m \in added \ members : m[1] \in run[r].next \cap groups /\ m = <<m[1], Account(r)>>
  OBVIOUS
<1>6. run[r].next \subseteq groups => \A g \in run[r].next : <<g, Account(r)>> \in added
  OBVIOUS
<1>. HIDE DEF added
<1>7. members \subseteq added
  BY DEF added
<1>8. QED
  BY <1>1, <1>2, <1>3, <1>4, <1>5, <1>6, <1>7

LEMMA AddMemberKeeps ==
  ASSUME ProvInv, NEW r \in Operators, AddMember(r)
  PROVE  ProvInv'
<1>. DEFINE p == run[r]
<1>1. p.pc = "add" /\ UNCHANGED <<spelling, groups>> /\ faults' \in 0..MaxFaults
  BY AddMemberFacts
<1>2. DirectoryGrows
  BY AddMemberFacts DEF DirectoryGrows
<1>3. /\ p \in Runs /\ AllChecked(p) /\ PlaceInv(p) /\ DoneInv(p, spelling, groups, members)
      /\ Line(r) = Row(p, p.pos) /\ Account(r) = AccountOf[Line(r).login]
      /\ Account(r) \in Accounts /\ p.apply
  BY <1>1, SecondFacts DEF Second, PlaceInv
<1>4. spelling[Account(r)] # NoLogin
  BY <1>1, <1>3 DEF DoneInv
<1>5. members' \subseteq {m \in groups' \X Accounts : spelling'[m[2]] # NoLogin}
  <2> SUFFICES ASSUME NEW m \in members'
               PROVE  m \in {x \in groups \X Accounts : spelling[x[2]] # NoLogin}
    BY <1>1
  <2>1. CASE m \in members
    BY <2>1 DEF ProvInv, TypeOK
  <2>2. CASE m \notin members
    <3>1. m[1] \in groups /\ m = <<m[1], Account(r)>>
      BY <2>2, AddMemberFacts
    <3>2. m[2] = Account(r)
      BY <3>1
    <3>3. QED
      BY <1>3, <1>4, <3>1, <3>2
  <2>3. QED
    BY <2>1, <2>2
<1>6. run' \in [Operators -> Runs] /\ RunsInv'
  <2>1. CASE Set(r, Stopped)
    BY <1>2, <2>1, OneStops
  <2>2. CASE /\ Set(r, [p EXCEPT !.pc = "members", !.next = {}])
             /\ \A g \in p.next : <<g, Account(r)>> \in members'
    <3>. DEFINE q == [p EXCEPT !.pc = "members", !.next = {}]
    <3>0. "members" \in Phases
      BY DEF Phases
    <3>1. /\ q \in Runs /\ q.pc = "members" /\ q.file = p.file /\ q.pos = p.pos
          /\ q.apply = p.apply /\ q.checked = p.checked /\ q.todo = p.todo
      BY <3>0, <1>3 DEF Runs
    <3>2. Set(r, q)
      BY <2>2
    <3>. HIDE DEF q
    <3>3. PlaceInv(q)
      BY <1>1, <1>3, <3>1 DEF PlaceInv, AllChecked, Row
    <3>4. DoneInv(p, spelling', groups', members')
      BY <1>2, <1>3, DoneStable DEF ProvInv
    <3>5. DoneInv(q, spelling', groups', members')
      BY <1>1, <1>3, <2>2, <3>1, <3>4 DEF DoneInv, Second, Row
    <3>6. QED
      BY <1>2, <3>1, <3>2, <3>3, <3>5, OneMoves
  <2>3. QED
    BY <2>1, <2>2, AddMemberFacts
<1>7. QED
  BY <1>1, <1>5, <1>6 DEF ProvInv, TypeOK

LEMMA FinishKeeps ==
  ASSUME ProvInv, NEW r \in Operators, Finish(r)
  PROVE  ProvInv'
<1>. DEFINE p == run[r]
            q == [Begun(p.file, p.apply) EXCEPT !.pc = "done"]
<1>1. /\ p.pc = "show" /\ LinesLeft(r) = {} /\ Set(r, q)
      /\ UNCHANGED <<spelling, groups, members, faults>>
  BY DEF Finish, directory
<1>2. /\ p \in Runs /\ p.file \in CsvFiles /\ p.pos \in Nat /\ p.apply \in BOOLEAN
      /\ DoneInv(p, spelling, groups, members)
  BY <1>1, SecondFacts, RunFields DEF Second
<1>3. q \in Runs /\ q.pc = "done" /\ q.file = p.file /\ q.apply = p.apply
  BY <1>2 DEF Begun, Runs, Phases, Ended
<1>. HIDE DEF q
<1>4. \A i \in UserLines(p.file) : i < p.pos
  BY <1>1, <1>2, FileFacts DEF LinesLeft
<1>5. PlaceInv(q)
  BY <1>3 DEF PlaceInv, Second
<1>6. DoneInv(q, spelling, groups, members)
  BY <1>1, <1>2, <1>3, <1>4 DEF DoneInv, Second, Row
<1>7. faults' \in 0..MaxFaults
  BY <1>1 DEF ProvInv, TypeOK
<1>8. QED
  BY <1>1, <1>3, <1>5, <1>6, <1>7, QuietMove

LEMMA DeleteGroupKeeps ==
  ASSUME ProvInv, NEW g \in Groups, DeleteGroup(g)
  PROVE  ProvInv'
<1>1. /\ groups' = groups \ {g} /\ members' = {m \in members : m[1] # g}
      /\ UNCHANGED <<spelling, run>> /\ faults' \in 0..MaxFaults
  BY FaultType DEF DeleteGroup, ProvInv
<1>2. DirectoryGrows
  BY <1>1 DEF DirectoryGrows
<1>3. ASSUME NEW o \in Operators
      PROVE  PlaceInv(run[o]) /\ DoneInv(run[o], spelling', groups', members')
  BY <1>2, DoneStable, RunType DEF ProvInv, RunsInv
<1>4. RunsInv'
  BY <1>1, <1>3 DEF RunsInv
<1>5. TypeOK'
  BY <1>1 DEF ProvInv, TypeOK
<1>6. QED
  BY <1>4, <1>5 DEF ProvInv

-----------------------------------------------------------------------------
LEMMA ProvInit == Init => ProvInv
<1>. SUFFICES ASSUME Init PROVE ProvInv
  OBVIOUS
<1>1. run = [r \in Operators |-> Stopped]
  BY DEF Init
<1>2. TypeOK
  BY <1>1, StoppedFacts, ProvisioningAssumption DEF Init, TypeOK
<1>3. RunsInv
  BY <1>1, StoppedFacts DEF RunsInv
<1>4. QED
  BY <1>2, <1>3 DEF ProvInv

LEMMA ProvStep == ProvInv /\ [Next]_vars => ProvInv'
<1>. SUFFICES ASSUME ProvInv, [Next]_vars PROVE ProvInv'
  OBVIOUS
<1>1. ASSUME NEW r \in Operators, NEW f \in CsvFiles, NEW a \in BOOLEAN, Start(r, f, a)
      PROVE  ProvInv'
  <2>1. UNCHANGED <<spelling, groups, members>> /\ faults' \in 0..MaxFaults
    BY <1>1 DEF Start, directory, ProvInv, TypeOK
  <2>2. QED
    BY <1>1, <2>1, BegunFacts, QuietMove DEF Start
<1>2. ASSUME NEW r \in Operators, RunStep(r) PROVE ProvInv'
  BY <1>2, CheckLineKeeps, CheckGroupKeeps, ReadPasswordKeeps, ShowUserKeeps, CreateUserKeeps,
     ListMembersKeeps, AddMemberKeeps, FinishKeeps DEF RunStep
<1>3. ASSUME NEW r \in Operators, Crash(r) PROVE ProvInv'
  <2>1. UNCHANGED <<spelling, groups, members>> /\ faults' \in 0..MaxFaults
    BY <1>3, FaultType DEF Crash, directory, ProvInv
  <2>2. QED
    BY <1>3, <2>1, StoppedFacts, QuietMove DEF Crash
<1>4. ASSUME NEW g \in Groups, DeleteGroup(g) PROVE ProvInv'
  BY <1>4, DeleteGroupKeeps
<1>5. CASE UNCHANGED vars
  BY <1>5 DEF vars, directory, ProvInv, RunsInv, TypeOK
<1>6. QED
  BY <1>1, <1>2, <1>3, <1>4, <1>5 DEF Next

LEMMA ProvAlways == Spec => []ProvInv
  BY ProvInit, ProvStep, PTL DEF Spec

\* Every variable keeps its type, only existing accounts are members of existing groups,
\* for any number of shells and faults.
THEOREM TypeCorrect == Spec => []TypeOK
<1>1. ProvInv => TypeOK
  BY DEF ProvInv
<1>2. QED
  BY <1>1, ProvAlways, PTL

\* However many runs overlap, fail and die: one that ends with success has provisioned
\* every row it read, as far as the groups still exist.
THEOREM SuccessIsProvisioned == Spec => []DoneMeansProvisioned
<1>1. ProvInv => DoneMeansProvisioned
  <2> SUFFICES ASSUME ProvInv, NEW r \in Operators, run[r].pc = "done", run[r].apply
               PROVE  Provisioned(run[r].file)
    BY DEF DoneMeansProvisioned
  <2>1. \A i \in UserLines(run[r].file) : RowDone(Row(run[r], i), spelling, groups, members)
    BY DEF ProvInv, RunsInv, DoneInv
  <2>2. QED
    BY <2>1 DEF Provisioned, RowDone, Row
<1>2. QED
  BY <1>1, ProvAlways, PTL

\* A run touches the directory only after all of its file was accepted and every group
\* found, and only as one of its rows says, whatever other runs do and calls fail.
THEOREM OnlyAcceptedRows == Spec => OnlyWhatTheRowsReadSay
<1>. DEFINE Warranted(r) ==
       run'[r] # run[r] /\ <<spelling, members>>' # <<spelling, members>> =>
         LET file == run[r].file
             rows == {Lines(file)[i] : i \in UserLines(file)}
         IN  /\ run[r].apply
             /\ Accepted(file)
             /\ \A row \in rows : row.groups \subseteq run[r].checked
             /\ \A a \in Accounts : spelling'[a] # spelling[a] =>
                  spelling[a] = NoLogin /\ \E row \in rows : row.login = spelling'[a]
             /\ members \subseteq members'
             /\ \A m \in members' \ members :
                  \E row \in rows : m[1] \in row.groups /\ m[2] = AccountOf[row.login]
<1>1. ASSUME ProvInv, [Next]_vars, NEW r \in Operators PROVE Warranted(r)
  <2>0. ASSUME UNCHANGED <<spelling, members>> PROVE Warranted(r)
    BY <2>0
  <2>1. ASSUME NEW o \in Operators, CreateUser(o) \/ AddMember(o) PROVE Warranted(r)
    <3> SUFFICES ASSUME run'[r] # run[r] PROVE Warranted(r)
      OBVIOUS
    <3>0. o = r
      <4>1. ASSUME NEW q \in Runs, Set(o, q) PROVE o = r
        BY <1>1, <4>1, SetFacts DEF ProvInv
      <4>2. run[o] \in Runs /\ "members" \in Phases
        BY <1>1, RunType DEF ProvInv, Phases
      <4>3. /\ [run[o] EXCEPT !.pc = "members"] \in Runs
            /\ [run[o] EXCEPT !.pc = "members", !.next = {}] \in Runs
        BY <4>2 DEF Runs
      <4>4. \/ Set(o, Stopped) \/ Set(o, [run[o] EXCEPT !.pc = "members"])
            \/ Set(o, [run[o] EXCEPT !.pc = "members", !.next = {}])
        BY <1>1, <2>1, CreateUserFacts, AddMemberFacts
      <4>5. QED
        BY <4>1, <4>3, <4>4, StoppedFacts
    <3>. DEFINE rows == {Lines(run[r].file)[i] : i \in UserLines(run[r].file)}
    <3>1. run[r].pc \in {"create", "add"}
      BY <1>1, <2>1, <3>0, CreateUserFacts, AddMemberFacts
    <3>2. /\ run[r].apply /\ AllChecked(run[r]) /\ Line(r) \in rows
          /\ Account(r) = AccountOf[Line(r).login]
          /\ run[r].pc = "add" => run[r].next \subseteq Line(r).groups
      BY <1>1, <3>1, SecondFacts DEF Second, PlaceInv, Row
    <3>3. Accepted(run[r].file) /\ \A row \in rows : row.groups \subseteq run[r].checked
      BY <3>2 DEF AllChecked, Row
    <3>. HIDE DEF rows
    <3>4. CASE CreateUser(r)
      BY <1>1, <3>2, <3>3, <3>4, CreateUserFacts DEF rows
    <3>5. CASE AddMember(r)
      <4>1. ASSUME NEW m \in members' \ members
            PROVE  m[1] \in Line(r).groups /\ m[2] = AccountOf[Line(r).login]
        <5>1. m[1] \in run[r].next /\ m = <<m[1], Account(r)>> /\ run[r].pc = "add"
          BY <1>1, <3>5, <4>1, AddMemberFacts
        <5>2. m[2] = Account(r)
          BY <5>1
        <5>3. QED
          BY <3>2, <5>1, <5>2
      <4>2. members \subseteq members' /\ UNCHANGED spelling
        BY <1>1, <3>5, AddMemberFacts
      <4>3. QED
        BY <3>2, <3>3, <4>1, <4>2 DEF rows
    <3>6. QED
      BY <2>1, <3>0, <3>4, <3>5
  <2>2. ASSUME NEW o \in Operators, RunStep(o) PROVE Warranted(r)
    BY <2>0, <2>1, <2>2
       DEF RunStep, CheckLine, CheckGroup, ReadPassword, ShowUser, ListMembers, Finish, directory
  <2>3. ASSUME NEW g \in Groups, DeleteGroup(g) PROVE Warranted(r)
    BY <2>3 DEF DeleteGroup
  <2>4. ASSUME NEW o \in Operators, NEW f \in CsvFiles, NEW a \in BOOLEAN, Start(o, f, a)
        PROVE  Warranted(r)
    BY <2>0, <2>4 DEF Start, directory
  <2>5. ASSUME NEW o \in Operators, Crash(o) PROVE Warranted(r)
    BY <2>0, <2>5 DEF Crash, directory
  <2>6. QED
    BY <1>1, <2>0, <2>2, <2>3, <2>4, <2>5 DEF Next, vars, directory
<1>. HIDE DEF Warranted
<1>2. ProvInv /\ [Next]_vars => [\A r \in Operators : Warranted(r)]_vars
  BY <1>1
<1>3. [][\A r \in Operators : Warranted(r)]_vars => OnlyWhatTheRowsReadSay
  BY PTL DEF OnlyWhatTheRowsReadSay, Warranted
<1>4. QED
  BY <1>2, <1>3, ProvAlways, PTL DEF Spec
=============================================================================
