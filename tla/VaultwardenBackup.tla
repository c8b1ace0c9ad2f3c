------------------------- MODULE VaultwardenBackup --------------------------
(***************************************************************************)
(* Runs of scripts/vaultwarden-app-backup.sh over a live Vaultwarden.      *)
(*                                                                         *)
(* A run copies the database, then the other files (attachments) of a      *)
(* service that goes on storing and deleting them, in whatever order it    *)
(* writes the file and the row that refers to it, packs both, writes a     *)
(* manifest with the archive's checksum and moves the two links            *)
(* latest.tar.gz and latest.manifest.txt.  Its id is the second it began   *)
(* in, nothing locks out a second run, and any command may fail or the     *)
(* run be killed: what it wrote into the backup directory stays.           *)
(***************************************************************************)
EXTENDS Integers, FiniteSets

CONSTANTS
  Calls,       \* the runs of the script
  Files,       \* attachments
  LastSecond,  \* bound on the clock
  MaxAtOnce,   \* bound on the runs under way at a time
  MaxStops,    \* bound on the runs that fail or are killed
  NoFile,      \* nothing of that name
  Broken       \* a file being written, left half-written, or written by two runs at once

ASSUME BackupAssumption == LastSecond \in Nat \ {0} /\ MaxAtOnce \in Nat /\ MaxStops \in Nat

VARIABLES
  stage,       \* the live data: how far each attachment's life has got
  clock,       \* the present second
  run,         \* Calls -> the run's place and what is in its work directory
  archives,    \* dest: id -> <id>.tar.gz
  manifests,   \* dest: id -> <id>.manifest.txt
  latest,      \* dest: what latest.tar.gz and latest.manifest.txt point to
  stops

vars == <<stage, clock, run, archives, manifests, latest, stops>>
dest == <<archives, manifests, latest>>

\* The service is not in the repository, and nothing there says in which order it writes
\* an attachment's file and its row, or removes them.  A "stored" or "forgotten" one has a
\* file only, an "announced" or "dangling" one a row only, a "referenced" one both.
Stages == {"absent", "stored", "announced", "referenced", "forgotten", "dangling", "deleted"}
Referenced == {f \in Files : stage[f] \in {"announced", "referenced", "dangling"}}
Stored == {f \in Files : stage[f] \in {"stored", "referenced", "forgotten"}}
Removed == {f \in Files : stage[f] \in {"dangling", "deleted"}}

Ids == 1..LastSecond
NoId == 0

Contents == [by: Calls, whole: SUBSET Files, data: SUBSET Files]
ArchiveFiles == {NoFile, Broken} \cup Contents
Sums == {NoFile, Broken} \cup Contents     \* a checksum stands for what was summed
ManifestFiles == {NoFile, Broken} \cup [sum: Sums]

ASSUME NamesAssumption == {NoFile, Broken} \cap (Contents \cup [sum: Sums]) = {}

UnderWay == {"copy", "tar", "untar", "pack", "packing", "sum", "describe", "describing",
             "link", "pair"}
Phases == {"new", "ended"} \cup UnderWay

Runs == [pc: Phases, id: Ids \cup {NoId}, alone: BOOLEAN,
         whole: SUBSET Files,  \* what the copied database refers to and was there when it
                               \* was copied
         seen: SUBSET Files,   \* the files there were when tar began
         data: SUBSET Files,   \* the files copied
         sum: Sums]            \* archive_sha256

NotBegun == [pc |-> "new", id |-> NoId, alone |-> TRUE, whole |-> {}, seen |-> {},
             data |-> {}, sum |-> NoFile]

Active == {c \in Calls : run[c].pc \in UnderWay}
Others(c) == {o \in Calls \ {c} : run[o].id = run[c].id}

Content(c) == [by |-> c, whole |-> run[c].whole, data |-> run[c].data]

\* Call c, at `from`, goes on to `to`.
Step(c, from, to) == run[c].pc = from /\ run' = [run EXCEPT ![c].pc = to]

\* cleanup: the run exits and its work directory is gone.
Exit(c) == run' = [run EXCEPT ![c] = [NotBegun EXCEPT !.pc = "ended", !.id = run[c].id]]

-----------------------------------------------------------------------------
Init ==
  /\ stage \in [Files -> {"absent", "referenced"}]
  /\ clock = 1
  /\ run = [c \in Calls |-> NotBegun]
  /\ archives = [i \in Ids |-> NoFile]
  /\ manifests = [i \in Ids |-> NoFile]
  /\ latest = [archive |-> NoId, manifest |-> NoId]
  /\ stops = MaxStops

Tick == /\ clock < LastSecond
        /\ clock' = clock + 1
        /\ UNCHANGED <<stage, run, dest, stops>>

\* The service writes or removes an attachment's file or its row, in either order.
Live(f) ==
  /\ \E s \in {<<"absent", "stored">>, <<"stored", "referenced">>,
               <<"absent", "announced">>, <<"announced", "referenced">>,
               <<"referenced", "forgotten">>, <<"forgotten", "deleted">>,
               <<"referenced", "dangling">>, <<"dangling", "deleted">>} :
       stage[f] = s[1] /\ stage' = [stage EXCEPT ![f] = s[2]]
  /\ UNCHANGED <<clock, run, dest, stops>>

\* Mutant of Start: the second is rounded up.
StartRoundedUp(c) ==
  /\ run[c].pc = "new"
  /\ Cardinality(Active) < MaxAtOnce
  /\ run' = [o \in Calls |->
               IF o = c THEN [NotBegun EXCEPT !.pc = "copy", !.id = clock + 1,
                                              !.alone = Active = {}]
               ELSE IF o \in Active THEN [run[o] EXCEPT !.alone = FALSE]
               ELSE run[o]]
  /\ UNCHANGED <<stage, clock, dest, stops>>

\* The run takes the second as its id; `alone` records that no other is ever under way
\* with it.
Start(c) ==
  /\ run[c].pc = "new"
  /\ Cardinality(Active) < MaxAtOnce
  /\ run' = [o \in Calls |->
               IF o = c THEN [NotBegun EXCEPT !.pc = "copy", !.id = clock,
                                              !.alone = Active = {}]
               ELSE IF o \in Active THEN [run[o] EXCEPT !.alone = FALSE]
               ELSE run[o]]
  /\ UNCHANGED <<stage, clock, dest, stops>>

\* sqlite3 .backup: a consistent copy of the database (or quick_check ends the run).
CopyDatabase(c) ==
  /\ run[c].pc = "copy"
  /\ run' = [run EXCEPT ![c].pc = "tar", ![c].whole = Referenced \cap Stored]
  /\ UNCHANGED <<stage, clock, dest, stops>>

\* tar begins to read the data directory...
BeginTar(c) ==
  /\ run[c].pc = "tar"
  /\ run' = [run EXCEPT ![c].pc = "untar", ![c].seen = Stored]
  /\ UNCHANGED <<stage, clock, dest, stops>>

\* ... and has read it: all that stayed, and any of what came or went in the meantime.
EndTar(c) ==
  /\ run[c].pc = "untar"
  /\ \E some \in SUBSET (run[c].seen \cup Stored) :
       run' = [run EXCEPT ![c].pc = "pack", ![c].seen = {},
                          ![c].data = (run[c].seen \cap Stored) \cup some]
  /\ UNCHANGED <<stage, clock, dest, stops>>

\* Mutant of BeginArchive: the database is copied after the other files.
BeginArchiveCopyingLate(c) ==
  /\ run[c].pc = "pack"
  /\ run' = [run EXCEPT ![c].pc = "packing", ![c].whole = Referenced \cap Stored]
  /\ archives' = [archives EXCEPT ![run[c].id] = Broken]
  /\ UNCHANGED <<stage, clock, manifests, latest, stops>>

\* Mutant of BeginArchive: the link is moved when the archive is opened.
BeginArchiveLinked(c) ==
  /\ Step(c, "pack", "packing")
  /\ archives' = [archives EXCEPT ![run[c].id] = Broken]
  /\ latest' = [latest EXCEPT !.archive = run[c].id]
  /\ UNCHANGED <<stage, clock, manifests, stops>>

\* tar -czf opens the archive, emptying one of that name, ...
BeginArchive(c) ==
  /\ Step(c, "pack", "packing")
  /\ archives' = [archives EXCEPT ![run[c].id] = Broken]
  /\ UNCHANGED <<stage, clock, manifests, latest, stops>>

\* ... and closes it; another run that used the name meanwhile may have spoilt it.
EndArchive(c) ==
  /\ Step(c, "packing", "sum")
  /\ \E a \in {Content(c)} \cup {b \in {Broken} : ~run[c].alone /\ Others(c) # {}} :
       archives' = [archives EXCEPT ![run[c].id] = a]
  /\ UNCHANGED <<stage, clock, manifests, latest, stops>>

\* sha256sum of the file that has the name now.
Checksum(c) ==
  /\ run[c].pc = "sum"
  /\ run' = [run EXCEPT ![c].pc = "describe", ![c].sum = archives[run[c].id]]
  /\ UNCHANGED <<stage, clock, dest, stops>>

BeginManifest(c) ==
  /\ Step(c, "describe", "describing")
  /\ manifests' = [manifests EXCEPT ![run[c].id] = Broken]
  /\ UNCHANGED <<stage, clock, archives, latest, stops>>

EndManifest(c) ==
  /\ Step(c, "describing", "link")
  /\ \E m \in {[sum |-> run[c].sum]} \cup {b \in {Broken} : ~run[c].alone /\ Others(c) # {}} :
       manifests' = [manifests EXCEPT ![run[c].id] = m]
  /\ UNCHANGED <<stage, clock, archives, latest, stops>>

\* Mutant of LinkArchive: a link that is there stays.
LinkArchiveOnce(c) ==
  /\ Step(c, "link", "pair")
  /\ latest' = [latest EXCEPT !.archive = IF @ = NoId THEN run[c].id ELSE @]
  /\ UNCHANGED <<stage, clock, archives, manifests, stops>>

\* ln -sfn replaces a link in one step.
LinkArchive(c) ==
  /\ Step(c, "link", "pair")
  /\ latest' = [latest EXCEPT !.archive = run[c].id]
  /\ UNCHANGED <<stage, clock, archives, manifests, stops>>

LinkManifest(c) ==
  /\ run[c].pc = "pair"
  /\ Exit(c)
  /\ latest' = [latest EXCEPT !.manifest = run[c].id]
  /\ UNCHANGED <<stage, clock, archives, manifests, stops>>

\* A command fails (set -euo pipefail) or the run is killed.  The trap removes the work
\* directory only.
Stop(c) ==
  /\ stops > 0
  /\ stops' = stops - 1
  /\ c \in Active
  /\ Exit(c)
  /\ UNCHANGED <<stage, clock, dest>>

Next ==
  \/ Tick
  \/ \E f \in Files : Live(f)
  \/ \E c \in Calls :
       \/ Start(c) \/ CopyDatabase(c) \/ BeginTar(c) \/ EndTar(c)
       \/ BeginArchive(c) \/ EndArchive(c) \/ Checksum(c)
       \/ BeginManifest(c) \/ EndManifest(c)
       \/ LinkArchive(c) \/ LinkManifest(c) \/ Stop(c)

Spec == Init /\ [][Next]_vars

-----------------------------------------------------------------------------
\* The model's variables keep their shapes.
TypeOK ==
  /\ stage \in [Files -> Stages]
  /\ clock \in Ids
  /\ run \in [Calls -> Runs]
  /\ archives \in [Ids -> ArchiveFiles]
  /\ manifests \in [Ids -> ManifestFiles]
  /\ latest \in [archive: Ids \cup {NoId}, manifest: Ids \cup {NoId}]
  /\ stops \in 0..MaxStops

UsedOnce(id) == \A c, d \in Calls : run[c].id = id /\ run[d].id = id => c = d

\* "archive checksum matches manifest" (the runbook's validation, line 170): for an id
\* that one run only has used, a manifest that is written gives the checksum of a
\* finished archive, and what the two links name is finished, wherever runs were killed
\* and however they overlap (lines 51-72).
BackupsOfOneRunHold ==
  \A id \in Ids :
    UsedOnce(id) =>
      /\ manifests[id] \in {NoFile, Broken} \/ manifests[id].sum = archives[id]
      /\ latest.archive = id => archives[id] \notin {NoFile, Broken}
      /\ latest.manifest = id => manifests[id] \notin {NoFile, Broken}

\* An attachment that was whole, its row and its file both there, when the database was
\* copied is in the archive unless the service removed its file while the run went on:
\* copying the database first (line 30) and the files after it (lines 37-48) loses none
\* that is still there.  It says nothing of one whose row was copied before its file was
\* stored: tar may have passed by then, and the archive lack a file that is there.
ReferencedFilesKept ==
  \A id \in Ids :
    archives[id] \notin {NoFile, Broken} =>
      archives[id].whole \ archives[id].data \subseteq Removed

\* A run that no other overlapped ends with both links on its own archive and manifest,
\* which fit each other, whatever runs that were killed or that overlapped, even in the
\* same second, left there before (lines 51-72).
UndisturbedRunLeavesAPair ==
  [][\A c \in Calls :
       run[c].pc = "pair" /\ run'[c].pc = "ended" /\ stops' = stops /\ run[c].alone =>
         /\ latest' = [archive |-> run[c].id, manifest |-> run[c].id]
         /\ archives'[run[c].id] = Content(c)
         /\ manifests'[run[c].id] = [sum |-> archives'[run[c].id]]]_vars
=============================================================================
