----------------------- MODULE DirectoryProvisioning -----------------------
(***************************************************************************)
(* Runs of scripts/provision-samba-ad-users.sh against one Samba AD.       *)
(*                                                                         *)
(* A run reads the CSV file first, except a last row without a newline,    *)
(* checking every row and every group that row names, and only then goes   *)
(* through the rows again: create the account if `user show` does not find it, add it to each group whose     *)
(* member list does not name it.  Each samba-tool call is a step of its    *)
(* own, any of them may fail, a run may die anywhere, runs may overlap,    *)
(* and an administrator may delete a group in the meantime.                *)
(*                                                                         *)
(* The script compares logins as texts; the directory ignores their case.  *)
(***************************************************************************)
EXTENDS Integers, Sequences, FiniteSets

CONSTANTS
  Operators,   \* the shells in which the script is run
  Logins,      \* logins as spelled in the files
  Accounts,    \* accounts as the directory tells them apart
  AccountOf,   \* Logins -> Accounts
  NoLogin,     \* the account does not exist
  Groups,
  CsvFiles,    \* the files given to the script
  MaxFaults    \* bound on failing calls, deaths and deletions

\* A line is a user's row, one the script passes over (the header, an empty line),
\* or one it refuses (fields missing or too many, an unsafe login or group).
Rows == [login: Logins, form: {"user", "skipped", "bad"}, groups: SUBSET Groups]

ASSUME ProvisioningAssumption ==
  /\ AccountOf \in [Logins -> Accounts]
  /\ NoLogin \notin Logins
  /\ CsvFiles \subseteq [rows: Seq(Rows), terminated: BOOLEAN]
  /\ CsvFiles # {} /\ \A f \in CsvFiles : Len(f.rows) > 0
  /\ MaxFaults \in Nat

VARIABLES
  spelling,   \* the directory: Accounts -> the login it was created with, or NoLogin
  groups,     \* the directory: the groups that exist
  members,    \* the directory: <<group, account>> pairs
  run,        \* Operators -> the run in that shell
  faults      \* faults still allowed

vars == <<spelling, groups, members, run, faults>>
directory == <<spelling, groups, members>>

\* "stopped": no run, or one that was refused, failed or died.
Ended == {"stopped", "done"}
Phases == Ended \cup {"check", "groups", "show", "create", "members", "add"}

Runs == [pc: Phases, file: CsvFiles, apply: BOOLEAN, pos: Nat,
         checked: SUBSET Groups,   \* checked_groups
         todo: SUBSET Groups,      \* groups of the present row not dealt with
         next: SUBSET Groups]      \* the one of them to be added to, if any

Begun(file, apply) == [pc |-> "check", file |-> file, apply |-> apply, pos |-> 1,
                       checked |-> {}, todo |-> {}, next |-> {}]
Stopped == [Begun(CHOOSE f \in CsvFiles : TRUE, FALSE) EXCEPT !.pc = "stopped"]

-----------------------------------------------------------------------------
\* `while read` drops a last line that does not end in a newline.
Lines(file) == IF file.terminated THEN file.rows
               ELSE SubSeq(file.rows, 1, Len(file.rows) - 1)

Line(r) == Lines(run[r].file)[run[r].pos]

\* seen_logins
Seen(r) == {Lines(run[r].file)[i].login :
              i \in {j \in 1..run[r].pos - 1 : Lines(run[r].file)[j].form = "user"}}

\* The lines whose rows are in the arrays of the second pass, and the next of them.
UserLines(file) == {i \in DOMAIN Lines(file) : Lines(file)[i].form = "user"}
LinesLeft(r) == {i \in UserLines(run[r].file) : i >= run[r].pos}
NextLine(r) == CHOOSE i \in LinesLeft(r) : \A j \in LinesLeft(r) : i <= j

Account(r) == AccountOf[Line(r).login]

\* grep -Fxq: the member list shows accounts by the spelling they were created with.
Listed(group, login) == /\ <<group, AccountOf[login]>> \in members
                        /\ spelling[AccountOf[login]] = login

Set(r, local) == run' = [run EXCEPT ![r] = local]

Fault == faults > 0 /\ faults' = faults - 1

-----------------------------------------------------------------------------
Init ==
  /\ spelling \in {s \in [Accounts -> Logins \cup {NoLogin}] :
                     \A a \in Accounts : s[a] # NoLogin => AccountOf[s[a]] = a}
  /\ groups = Groups
  /\ members = {}
  /\ run = [r \in Operators |-> Stopped]
  /\ faults = MaxFaults

\* The script is called with valid arguments: a file, and --apply or not.
Start(r, file, apply) ==
  /\ run[r].pc \in Ended
  /\ Set(r, Begun(file, apply))
  /\ UNCHANGED <<directory, faults>>

\* Mutant of CheckLine: a row the script refuses is passed over.
CheckLineLeniently(r) ==
  /\ run[r].pc = "check" /\ run[r].pos <= Len(Lines(run[r].file))
  /\ CASE Line(r).form # "user" -> Set(r, [run[r] EXCEPT !.pos = @ + 1])
       [] Line(r).form = "user" ->
            Set(r, [run[r] EXCEPT !.pc = "groups", !.todo = Line(r).groups \ run[r].checked])
  /\ UNCHANGED <<directory, faults>>

\* First pass, one line: pass over it, refuse the file, or go on with its groups.
CheckLine(r) ==
  /\ run[r].pc = "check" /\ run[r].pos <= Len(Lines(run[r].file))
  /\ CASE Line(r).form = "skipped" -> Set(r, [run[r] EXCEPT !.pos = @ + 1])
       [] Line(r).form = "bad" \/ (Line(r).form = "user" /\ Line(r).login \in Seen(r)) ->
            Set(r, Stopped)
       [] OTHER -> Set(r, [run[r] EXCEPT !.pc = "groups",
                                         !.todo = Line(r).groups \ run[r].checked])
  /\ UNCHANGED <<directory, faults>>

\* samba-tool group show: a group that is missing, or cannot be asked about, ends the
\* run before the second pass.
CheckGroup(r) ==
  /\ run[r].pc = "groups"
  /\ \/ /\ run[r].todo = {}
        /\ Set(r, [run[r] EXCEPT !.pc = "check", !.pos = @ + 1])
        /\ UNCHANGED faults
     \/ \E g \in run[r].todo :
          \/ /\ g \in groups
             /\ Set(r, [run[r] EXCEPT !.checked = @ \cup {g}, !.todo = @ \ {g}])
             /\ UNCHANGED faults
          \/ g \notin groups /\ Set(r, Stopped) /\ UNCHANGED faults
          \/ Fault /\ Set(r, Stopped)
  /\ UNCHANGED directory

\* The end of the first pass: a file without users, or an apply run given an empty
\* password (the operator's error), ends the run.
ReadPassword(r) ==
  /\ run[r].pc = "check" /\ run[r].pos > Len(Lines(run[r].file))
  /\ \/ /\ UserLines(run[r].file) # {}
        /\ Set(r, [run[r] EXCEPT !.pc = "show", !.pos = 1])
        /\ UNCHANGED faults
     \/ UserLines(run[r].file) = {} /\ Set(r, Stopped) /\ UNCHANGED faults
     \/ run[r].apply /\ Fault /\ Set(r, Stopped)
  /\ UNCHANGED directory

\* Mutant of ShowUser: an existing account is taken for a finished one.
ShowUserAndSkip(r) ==
  /\ run[r].pc = "show" /\ LinesLeft(r) # {}
  /\ LET row == Lines(run[r].file)[NextLine(r)]
         here == [run[r] EXCEPT !.pos = NextLine(r), !.todo = row.groups]
         exists == spelling[AccountOf[row.login]] # NoLogin
     IN  \/ exists /\ Set(r, [here EXCEPT !.pc = "members", !.todo = {}]) /\ UNCHANGED faults
         \/ /\ \/ ~exists /\ UNCHANGED faults
               \/ Fault
            /\ Set(r, [here EXCEPT !.pc = IF run[r].apply THEN "create" ELSE "members"])
  /\ UNCHANGED directory

\* Mutant of ShowUser: an account spelled differently is not recognised.
ShowUserBySpelling(r) ==
  /\ run[r].pc = "show" /\ LinesLeft(r) # {}
  /\ LET row == Lines(run[r].file)[NextLine(r)]
         here == [run[r] EXCEPT !.pos = NextLine(r), !.todo = row.groups]
         exists == spelling[AccountOf[row.login]] = row.login
     IN  \/ exists /\ Set(r, [here EXCEPT !.pc = "members"]) /\ UNCHANGED faults
         \/ /\ \/ ~exists /\ UNCHANGED faults
               \/ Fault
            /\ Set(r, [here EXCEPT !.pc = IF run[r].apply THEN "create" ELSE "members"])
  /\ UNCHANGED directory

\* ensure_user: samba-tool user show.  Any failure of it counts as "no such user".
ShowUser(r) ==
  /\ run[r].pc = "show" /\ LinesLeft(r) # {}
  /\ LET row == Lines(run[r].file)[NextLine(r)]
         here == [run[r] EXCEPT !.pos = NextLine(r), !.todo = row.groups]
         exists == spelling[AccountOf[row.login]] # NoLogin
     IN  \/ exists /\ Set(r, [here EXCEPT !.pc = "members"]) /\ UNCHANGED faults
         \/ /\ \/ ~exists /\ UNCHANGED faults
               \/ Fault
            /\ Set(r, [here EXCEPT !.pc = IF run[r].apply THEN "create" ELSE "members"])
  /\ UNCHANGED directory

\* Mutant of CreateUser: a failing create does not end the run.
CreateUserOrGoOn(r) ==
  LET create == spelling' = [spelling EXCEPT ![Account(r)] = Line(r).login]
      absent == spelling[Account(r)] = NoLogin
  IN  /\ run[r].pc = "create"
      /\ Set(r, [run[r] EXCEPT !.pc = "members"])
      /\ \/ absent /\ create /\ UNCHANGED faults
         \/ ~absent /\ UNCHANGED <<spelling, faults>>
         \/ Fault /\ (UNCHANGED spelling \/ (absent /\ create))
      /\ UNCHANGED <<groups, members>>

\* samba-tool user create.  The directory refuses an account that exists, and a
\* failure, after which the account may be there, ends the run.
CreateUser(r) ==
  LET create == spelling' = [spelling EXCEPT ![Account(r)] = Line(r).login]
      absent == spelling[Account(r)] = NoLogin
  IN  /\ run[r].pc = "create"
      /\ \/ absent /\ create /\ Set(r, [run[r] EXCEPT !.pc = "members"]) /\ UNCHANGED faults
         \/ ~absent /\ Set(r, Stopped) /\ UNCHANGED <<spelling, faults>>
         \/ /\ Fault
            /\ Set(r, Stopped)
            /\ UNCHANGED spelling \/ (absent /\ create)
      /\ UNCHANGED <<groups, members>>

\* ensure_member: group listmembers | grep.  With pipefail a listing that fails, or is
\* cut short by grep's early exit, counts as "not a member" as well.
ListMembers(r) ==
  /\ run[r].pc = "members"
  /\ \/ run[r].todo = {} /\ Set(r, [run[r] EXCEPT !.pc = "show", !.pos = @ + 1])
     \/ \E g \in run[r].todo :
          LET here == [run[r] EXCEPT !.todo = @ \ {g}]
          IN  \/ Listed(g, Line(r).login) /\ Set(r, here)
              \/ run[r].apply /\ Set(r, [here EXCEPT !.pc = "add", !.next = {g}])
              \/ ~run[r].apply /\ Set(r, here)
  /\ UNCHANGED <<directory, faults>>

\* samba-tool group addmembers, which has no effect on a member.  It fails when the
\* group is gone; a failure, after which the member may be there, ends the run.
AddMember(r) ==
  LET added == members \cup {<<g, Account(r)>> : g \in run[r].next \cap groups}
  IN  /\ run[r].pc = "add"
      /\ \/ /\ run[r].next \subseteq groups
            /\ members' = added
            /\ Set(r, [run[r] EXCEPT !.pc = "members", !.next = {}])
            /\ UNCHANGED faults
         \/ ~(run[r].next \subseteq groups) /\ Set(r, Stopped) /\ UNCHANGED <<members, faults>>
         \/ Fault /\ Set(r, Stopped) /\ members' \in {members, added}
      /\ UNCHANGED <<spelling, groups>>

\* Every row is dealt with.
Finish(r) ==
  /\ run[r].pc = "show" /\ LinesLeft(r) = {}
  /\ Set(r, [Begun(run[r].file, run[r].apply) EXCEPT !.pc = "done"])
  /\ UNCHANGED <<directory, faults>>

\* The shell dies between two calls.
Crash(r) ==
  /\ run[r].pc \notin Ended
  /\ Fault
  /\ Set(r, Stopped)
  /\ UNCHANGED directory

\* An administrator deletes a group.
DeleteGroup(g) ==
  /\ g \in groups
  /\ Fault
  /\ groups' = groups \ {g}
  /\ members' = {m \in members : m[1] # g}
  /\ UNCHANGED <<spelling, run>>

RunStep(r) == \/ CheckLine(r) \/ CheckGroup(r) \/ ReadPassword(r) \/ ShowUser(r)
              \/ CreateUser(r) \/ ListMembers(r) \/ AddMember(r) \/ Finish(r)

Next == \/ \E r \in Operators : \/ \E f \in CsvFiles, a \in BOOLEAN : Start(r, f, a)
                                \/ RunStep(r)
                                \/ Crash(r)
        \/ \E g \in Groups : DeleteGroup(g)

Spec == Init /\ [][Next]_vars

\* A call of samba-tool returns, and every file is run again and again.
FairSpec == /\ Spec
            /\ \A r \in Operators : WF_vars(RunStep(r))
            /\ \A f \in CsvFiles : SF_vars(\E r \in Operators : Start(r, f, TRUE))

-----------------------------------------------------------------------------
\* The model's variables keep their shapes; only existing groups have members, and only
\* existing accounts are members.
TypeOK ==
  /\ spelling \in [Accounts -> Logins \cup {NoLogin}]
  /\ groups \subseteq Groups
  /\ members \subseteq {m \in groups \X Accounts : spelling[m[2]] # NoLogin}
  /\ run \in [Operators -> Runs]
  /\ faults \in 0..MaxFaults

\* The script accepts every row it reads, and none has the login of another.  A last row
\* without a newline is not among them, whatever it says.
Accepted(file) ==
  /\ \A i \in DOMAIN Lines(file) : Lines(file)[i].form # "bad"
  /\ \A i, j \in UserLines(file) : i # j => Lines(file)[i].login # Lines(file)[j].login

\* A step of the run in r that touches the directory has read every row it will ever read
\* and accepted them all, with --apply, has found every group these rows name, and does
\* what one of them says: the checks of lines 154-213 come before the calls of lines
\* 233-249, whatever the file, other runs and failing calls.  A last row that the loop
\* does not read is not checked: see MalformedRowStopsAll.
OnlyWhatTheRowsReadSay ==
  [][\A r \in Operators :
       run'[r] # run[r] /\ <<spelling, members>>' # <<spelling, members>> =>
         LET file == run[r].file
             rows == {Lines(file)[i] : i \in UserLines(file)}
         IN  /\ run[r].apply
             /\ Accepted(file)
             /\ \A row \in rows : row.groups \subseteq run[r].checked
             /\ \A a \in Accounts : spelling'[a] # spelling[a] =>
                  spelling[a] = NoLogin /\ \E row \in rows : row.login = spelling'[a]
             /\ members \subseteq members'
             /\ \A m \in members' \ members :
                  \E row \in rows : m[1] \in row.groups /\ m[2] = AccountOf[row.login]]_vars

\* docs/runbooks/samba-ad-user-provisioning-runbook.md:34-36: "Before creating the first
\* user, the helper validates the entire CSV [...] A later malformed row must therefore
\* not cause an earlier row to be applied."  `while read` (line 155) ends before a last
\* row that has no newline, and the loop never checks it.
MalformedRowStopsAll ==
  [][\A r \in Operators :
       run'[r] # run[r] /\ <<spelling, members>>' # <<spelling, members>> =>
         \A i \in DOMAIN run[r].file.rows : run[r].file.rows[i].form # "bad"]_vars

\* What the rows the script reads ask for, in the groups that still exist.
Provisioned(file) ==
  \A i \in UserLines(file) :
    LET row == Lines(file)[i]
    IN  /\ spelling[AccountOf[row.login]] # NoLogin
        /\ \A g \in row.groups \cap groups : <<g, AccountOf[row.login]>> \in members

\* A run with --apply that exits 0 leaves every row it read provisioned, even where the
\* account was there before, was left half-made by a run that died, or is being made by
\* an overlapping run (ensure_user and ensure_member, lines 103-144, set -euo pipefail).
DoneMeansProvisioned ==
  \A r \in Operators : run[r].pc = "done" /\ run[r].apply => Provisioned(run[r].file)

\* However runs die, overlap and fail half-way, running the file again gets there: in
\* the end everything the rows it reads say is in the directory, unless it refuses one of
\* them or a group they name is gone.  Nothing a run leaves behind makes the next one fail for ever.
RerunsConverge ==
  \A f \in CsvFiles :
    <>[](\/ Provisioned(f)
         \/ ~Accepted(f)
         \/ \E i \in UserLines(f) : ~(Lines(f)[i].groups \subseteq groups))
=============================================================================
