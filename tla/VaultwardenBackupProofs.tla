----------------------- MODULE VaultwardenBackupProofs ----------------------
(***************************************************************************)
(* Proofs about VaultwardenBackup for any number of runs, attachments and  *)
(* seconds.                                                                *)
(***************************************************************************)
EXTENDS VaultwardenBackup, TLAPS

\* A run that has begun has an id, which is a second.
Begun == \A c \in Calls : run[c].pc # "new" <=> run[c].id \in Ids

Typed == TypeOK /\ Begun

-----------------------------------------------------------------------------
LEMMA IdFacts == NoId \notin Ids /\ Ids \subseteq Nat
  BY DEF NoId, Ids

LEMMA NotBegunType ==
  /\ NotBegun \in Runs /\ NotBegun.pc = "new" /\ NotBegun.id = NoId
  BY DEF NotBegun, Runs, Phases, Sums

LEMMA ContentType ==
  ASSUME TypeOK, NEW c \in Calls
  PROVE  Content(c) \in Contents /\ Content(c) \notin {NoFile, Broken}
<1>1. run[c].whole \in SUBSET Files /\ run[c].data \in SUBSET Files
  BY DEF TypeOK, Runs
<1>2. Content(c) \in Contents
  BY <1>1 DEF Content, Contents
<1>3. QED
  BY <1>2, NamesAssumption

LEMMA RunType ==
  ASSUME TypeOK, NEW c \in Calls
  PROVE  /\ run[c] \in Runs /\ run[c].pc \in Phases /\ run[c].id \in Ids \cup {NoId}
         /\ run[c].alone \in BOOLEAN /\ run[c].whole \subseteq Files
         /\ run[c].seen \subseteq Files /\ run[c].data \subseteq Files
         /\ run[c].sum \in Sums
  BY DEF TypeOK, Runs

LEMMA StoredFiles == Stored \subseteq Files /\ Referenced \subseteq Files
  BY DEF Stored, Referenced

\* A step of one run to its next phase.
LEMMA StepType ==
  ASSUME Typed, NEW c \in Calls, NEW from \in UnderWay, NEW to \in UnderWay, Step(c, from, to)
  PROVE  /\ run' \in [Calls -> Runs] /\ Begun'
         /\ \A d \in Calls : d # c => run'[d] = run[d]
         /\ run'[c].pc = to /\ run[c].pc = from
         /\ run'[c].id = run[c].id /\ run[c].id \in Ids
         /\ run'[c].alone = run[c].alone /\ run'[c].whole = run[c].whole
         /\ run'[c].data = run[c].data /\ run'[c].sum = run[c].sum
         /\ run'[c].seen = run[c].seen
<1>1. from # "new" /\ to # "new" /\ to \in Phases
  BY DEF UnderWay, Phases
<1>2. run' \in [Calls -> Runs]
  BY <1>1 DEF Typed, TypeOK, Runs, Step
<1>3. /\ \A d \in Calls : d # c => run'[d] = run[d]
      /\ run'[c].pc = to /\ run[c].pc = from
      /\ run'[c].id = run[c].id
      /\ run'[c].alone = run[c].alone /\ run'[c].whole = run[c].whole
      /\ run'[c].data = run[c].data /\ run'[c].sum = run[c].sum
      /\ run'[c].seen = run[c].seen
  BY DEF Typed, TypeOK, Runs, Step
<1>4. run[c].id \in Ids
  BY <1>1, <1>3 DEF Typed, Begun
<1>5. Begun'
  BY <1>1, <1>3, <1>4 DEF Typed, Begun
<1>6. QED
  BY <1>2, <1>3, <1>4, <1>5

LEMMA ExitType ==
  ASSUME Typed, NEW c \in Calls, run[c].pc \in UnderWay, Exit(c)
  PROVE  /\ run' \in [Calls -> Runs] /\ Begun'
         /\ \A d \in Calls : d # c => run'[d] = run[d]
         /\ run'[c].pc = "ended"
         /\ run'[c].id = run[c].id /\ run[c].id \in Ids
<1>1. run[c].pc # "new" /\ run[c].id \in Ids
  BY DEF Typed, Begun, UnderWay
<1>2. /\ run' \in [Calls -> Runs]
      /\ \A d \in Calls : d # c => run'[d] = run[d]
      /\ run'[c].pc = "ended" /\ run'[c].id = run[c].id
  BY <1>1 DEF Typed, TypeOK, Runs, Exit, NotBegun, Phases, Sums
<1>3. QED
  BY <1>1, <1>2 DEF Typed, Begun

\* What the start of a run does to the runs.
LEMMA StartType ==
  ASSUME Typed, NEW c \in Calls, Start(c)
  PROVE  /\ run' \in [Calls -> Runs] /\ Begun'
         /\ run[c].pc = "new" /\ run[c].id = NoId
         /\ run'[c].pc = "copy" /\ run'[c].id = clock /\ clock \in Ids
         /\ run'[c].alone <=> Active = {}
         /\ \A d \in Calls \ {c} :
              /\ run'[d].pc = run[d].pc /\ run'[d].id = run[d].id
              /\ run'[d].whole = run[d].whole /\ run'[d].seen = run[d].seen
              /\ run'[d].data = run[d].data /\ run'[d].sum = run[d].sum
              /\ d \in Active => ~run'[d].alone
              /\ d \notin Active => run'[d].alone = run[d].alone
<1>1. run[c].pc = "new" /\ run[c].id = NoId /\ clock \in Ids
  BY RunType, IdFacts DEF Start, Typed, TypeOK, Begun
<1>2. run' = [o \in Calls |->
               IF o = c THEN [NotBegun EXCEPT !.pc = "copy", !.id = clock,
                                              !.alone = Active = {}]
               ELSE IF o \in Active THEN [run[o] EXCEPT !.alone = FALSE]
               ELSE run[o]]
  BY DEF Start
<1>3. /\ run'[c] \in Runs
      /\ run'[c].pc = "copy" /\ run'[c].id = clock
      /\ run'[c].alone <=> Active = {}
  BY <1>1, <1>2 DEF NotBegun, Runs, Phases, UnderWay, Sums
<1>4. ASSUME NEW d \in Calls \ {c}
      PROVE  /\ run'[d] \in Runs
             /\ run'[d].pc = run[d].pc /\ run'[d].id = run[d].id
             /\ run'[d].whole = run[d].whole /\ run'[d].seen = run[d].seen
             /\ run'[d].data = run[d].data /\ run'[d].sum = run[d].sum
             /\ d \in Active => ~run'[d].alone
             /\ d \notin Active => run'[d].alone = run[d].alone
  BY <1>2, RunType DEF Typed, Runs
<1>5. run' \in [Calls -> Runs]
  BY <1>2, <1>3, <1>4
<1>6. Begun'
  BY <1>1, <1>3, <1>4 DEF Typed, Begun
<1>7. QED
  BY <1>1, <1>3, <1>4, <1>5, <1>6

\* A run under way gets new contents of its work directory.
LEMMA WorkType ==
  ASSUME Typed, NEW c \in Calls, run[c].pc \in UnderWay,
         NEW q \in Runs, q.pc \in UnderWay, q.id = run[c].id, q.alone = run[c].alone,
         run' = [run EXCEPT ![c] = q]
  PROVE  /\ run' \in [Calls -> Runs] /\ Begun'
         /\ \A d \in Calls : d # c => run'[d] = run[d]
         /\ run'[c] = q /\ run[c].id \in Ids
<1>1. run[c].pc # "new" /\ q.pc # "new" /\ run[c].id \in Ids
  BY DEF Typed, Begun, UnderWay
<1>2. /\ run' \in [Calls -> Runs] /\ run'[c] = q
      /\ \A d \in Calls : d # c => run'[d] = run[d]
  BY DEF Typed, TypeOK
<1>3. QED
  BY <1>1, <1>2 DEF Typed, Begun

LEMMA CopyFields ==
  ASSUME Typed, NEW c \in Calls, CopyDatabase(c)
  PROVE  /\ run' \in [Calls -> Runs] /\ Begun'
         /\ \A d \in Calls : d # c => run'[d] = run[d]
         /\ run[c].pc = "copy" /\ run[c].id \in Ids
         /\ run'[c] = [run[c] EXCEPT !.pc = "tar", !.whole = Referenced \cap Stored]
<1>. DEFINE q == [run[c] EXCEPT !.pc = "tar", !.whole = Referenced \cap Stored]
<1>1. run' = [run EXCEPT ![c] = q] /\ run[c].pc = "copy"
  BY DEF CopyDatabase, Typed, TypeOK
<1>2. q \in Runs /\ q.pc = "tar" /\ q.id = run[c].id /\ q.alone = run[c].alone
  BY RunType, StoredFiles DEF Typed, Runs, Phases, UnderWay
<1>. HIDE DEF q
<1>3. run[c].pc \in UnderWay /\ q.pc \in UnderWay
  BY <1>1, <1>2 DEF UnderWay
<1>4. QED
  BY <1>1, <1>2, <1>3, WorkType DEF q

LEMMA BeginTarFields ==
  ASSUME Typed, NEW c \in Calls, BeginTar(c)
  PROVE  /\ run' \in [Calls -> Runs] /\ Begun'
         /\ \A d \in Calls : d # c => run'[d] = run[d]
         /\ run[c].pc = "tar" /\ run[c].id \in Ids
         /\ run'[c] = [run[c] EXCEPT !.pc = "untar", !.seen = Stored]
<1>. DEFINE q == [run[c] EXCEPT !.pc = "untar", !.seen = Stored]
<1>1. run' = [run EXCEPT ![c] = q] /\ run[c].pc = "tar"
  BY DEF BeginTar, Typed, TypeOK
<1>2. q \in Runs /\ q.pc = "untar" /\ q.id = run[c].id /\ q.alone = run[c].alone
  BY RunType, StoredFiles DEF Typed, Runs, Phases, UnderWay
<1>. HIDE DEF q
<1>3. run[c].pc \in UnderWay /\ q.pc \in UnderWay
  BY <1>1, <1>2 DEF UnderWay
<1>4. QED
  BY <1>1, <1>2, <1>3, WorkType DEF q

LEMMA EndTarFields ==
  ASSUME Typed, NEW c \in Calls, EndTar(c)
  PROVE  /\ run' \in [Calls -> Runs] /\ Begun'
         /\ \A d \in Calls : d # c => run'[d] = run[d]
         /\ run[c].pc = "untar" /\ run[c].id \in Ids
         /\ \E data \in SUBSET Files :
              /\ run[c].seen \cap Stored \subseteq data
              /\ run'[c] = [run[c] EXCEPT !.pc = "pack", !.seen = {}, !.data = data]
<1>1. PICK some \in SUBSET (run[c].seen \cup Stored) :
        run' = [run EXCEPT ![c].pc = "pack", ![c].seen = {},
                           ![c].data = (run[c].seen \cap Stored) \cup some]
  BY DEF EndTar
<1>. DEFINE data == (run[c].seen \cap Stored) \cup some
            q == [run[c] EXCEPT !.pc = "pack", !.seen = {}, !.data = data]
<1>2. data \in SUBSET Files /\ run[c].seen \cap Stored \subseteq data
  BY <1>1, RunType, StoredFiles DEF Typed
<1>. HIDE DEF data
<1>3. run' = [run EXCEPT ![c] = q] /\ run[c].pc = "untar"
  BY <1>1 DEF EndTar, Typed, TypeOK, data
<1>4. q \in Runs /\ q.pc = "pack" /\ q.id = run[c].id /\ q.alone = run[c].alone
  BY <1>2, RunType DEF Typed, Runs, Phases, UnderWay
<1>. HIDE DEF q
<1>5. run[c].pc \in UnderWay /\ q.pc \in UnderWay
  BY <1>3, <1>4 DEF UnderWay
<1>6. QED
  BY <1>2, <1>3, <1>4, <1>5, WorkType DEF q

LEMMA ChecksumFields ==
  ASSUME Typed, NEW c \in Calls, Checksum(c)
  PROVE  /\ run' \in [Calls -> Runs] /\ Begun'
         /\ \A d \in Calls : d # c => run'[d] = run[d]
         /\ run[c].pc = "sum" /\ run[c].id \in Ids
         /\ run'[c] = [run[c] EXCEPT !.pc = "describe", !.sum = archives[run[c].id]]
<1>. DEFINE q == [run[c] EXCEPT !.pc = "describe", !.sum = archives[run[c].id]]
<1>1. run' = [run EXCEPT ![c] = q] /\ run[c].pc = "sum"
  BY DEF Checksum, Typed, TypeOK
<1>2. run[c].id \in Ids
  BY <1>1 DEF Typed, Begun
<1>3. archives[run[c].id] \in Sums
  BY <1>2 DEF Typed, TypeOK, ArchiveFiles, Sums
<1>4. q \in Runs /\ q.pc = "describe" /\ q.id = run[c].id /\ q.alone = run[c].alone
  BY <1>3, RunType DEF Typed, Runs, Phases, UnderWay
<1>. HIDE DEF q
<1>5. run[c].pc \in UnderWay /\ q.pc \in UnderWay
  BY <1>1, <1>4 DEF UnderWay
<1>6. QED
  BY <1>1, <1>2, <1>4, <1>5, WorkType DEF q

-----------------------------------------------------------------------------
LEMMA TypedInit == Init => Typed
<1>. SUFFICES ASSUME Init PROVE Typed
  OBVIOUS
<1>1. run \in [Calls -> Runs] /\ \A c \in Calls : run[c].pc = "new" /\ run[c].id = NoId
  BY NotBegunType DEF Init
<1>2. TypeOK
  BY <1>1, BackupAssumption DEF Init, TypeOK, Stages, Ids, ArchiveFiles, ManifestFiles
<1>3. QED
  BY <1>1, <1>2, IdFacts DEF Typed, Begun

LEMMA TypedStep == Typed /\ [Next]_vars => Typed'
<1>. SUFFICES ASSUME Typed, [Next]_vars PROVE Typed'
  OBVIOUS
<1>. USE DEF Typed
<1>1. CASE Tick
  BY <1>1, BackupAssumption DEF Tick, dest, TypeOK, Begun, Ids
<1>2. ASSUME NEW f \in Files, Live(f) PROVE Typed'
  BY <1>2 DEF Live, dest, TypeOK, Begun, Stages
<1>3. ASSUME NEW c \in Calls, Start(c) PROVE Typed'
  BY <1>3, StartType DEF Start, dest, TypeOK
<1>4. ASSUME NEW c \in Calls, CopyDatabase(c) \/ BeginTar(c) \/ EndTar(c) \/ Checksum(c)
      PROVE Typed'
  BY <1>4, CopyFields, BeginTarFields, EndTarFields, ChecksumFields
     DEF CopyDatabase, BeginTar, EndTar, Checksum, dest, TypeOK
<1>5. ASSUME NEW c \in Calls, BeginArchive(c) PROVE Typed'
  BY <1>5, StepType DEF BeginArchive, TypeOK, UnderWay, ArchiveFiles
<1>6. ASSUME NEW c \in Calls, EndArchive(c) PROVE Typed'
  <2>1. PICK a \in {Content(c)} \cup {Broken} : archives' = [archives EXCEPT ![run[c].id] = a]
    BY <1>6 DEF EndArchive
  <2>2. a \in ArchiveFiles
    BY <2>1, ContentType DEF ArchiveFiles
  <2>3. QED
    BY <1>6, <2>1, <2>2, StepType DEF EndArchive, TypeOK, UnderWay
<1>7. ASSUME NEW c \in Calls, BeginManifest(c) PROVE Typed'
  BY <1>7, StepType DEF BeginManifest, TypeOK, UnderWay, ManifestFiles
<1>8. ASSUME NEW c \in Calls, EndManifest(c) PROVE Typed'
  <2>1. PICK m \in {[sum |-> run[c].sum]} \cup {Broken} :
          manifests' = [manifests EXCEPT ![run[c].id] = m]
    BY <1>8 DEF EndManifest
  <2>2. m \in ManifestFiles
    BY <2>1, RunType DEF ManifestFiles
  <2>3. QED
    BY <1>8, <2>1, <2>2, StepType DEF EndManifest, TypeOK, UnderWay
<1>9. ASSUME NEW c \in Calls, LinkArchive(c) PROVE Typed'
  BY <1>9, StepType DEF LinkArchive, TypeOK, UnderWay
<1>10. ASSUME NEW c \in Calls, LinkManifest(c) PROVE Typed'
  BY <1>10, ExitType DEF LinkManifest, TypeOK, UnderWay
<1>11. ASSUME NEW c \in Calls, Stop(c) PROVE Typed'
  BY <1>11, ExitType, BackupAssumption DEF Stop, TypeOK, Active, dest
<1>12. CASE UNCHANGED vars
  BY <1>12 DEF vars, TypeOK, Begun
<1>13. QED
  BY <1>1, <1>2, <1>3, <1>4, <1>5, <1>6, <1>7, <1>8, <1>9, <1>10, <1>11, <1>12 DEF Next

\* Every variable keeps its type, for any number of runs, attachments and seconds.
THEOREM TypeCorrect == Spec => []TypeOK
<1>1. Spec => []Typed
  BY TypedInit, TypedStep, PTL DEF Spec
<1>2. QED
  BY <1>1, PTL DEF Typed

-----------------------------------------------------------------------------
(***************************************************************************)
(* The files the database refers to.                                       *)
(***************************************************************************)

Late == {"referenced", "forgotten", "dangling", "deleted"}

\* No attachment's life runs backwards.
LiveOnward == \A f \in Files : /\ f \in Removed => f \in Removed'
                               /\ stage[f] \in Late => stage'[f] \in Late

\* What is copied after the database, as far as the run has got.
RefsInv(c) ==
  /\ run[c].pc \in {"tar", "untar"} => \A f \in run[c].whole : stage[f] \in Late
  /\ run[c].pc = "untar" =>
       \A f \in run[c].whole : f \in run[c].seen \/ f \in Removed
  /\ run[c].pc \in {"pack", "packing"} =>
       run[c].whole \ run[c].data \subseteq Removed

KeptInv == ReferencedFilesKept /\ \A c \in Calls : RefsInv(c)

LEMMA RefsFrame ==
  ASSUME Typed, LiveOnward, NEW c \in Calls, RefsInv(c),
         run'[c].pc = run[c].pc, run'[c].whole = run[c].whole,
         run'[c].seen = run[c].seen, run'[c].data = run[c].data
  PROVE  RefsInv(c)'
<1>1. run[c].whole \subseteq Files
  BY RunType DEF Typed
<1>2. QED
  BY <1>1 DEF RefsInv, LiveOnward

LEMMA ArchivesFrame ==
  ASSUME Typed, LiveOnward, ReferencedFilesKept, NEW i \in Ids, NEW a \in ArchiveFiles,
         archives' \in {archives, [archives EXCEPT ![i] = a]},
         a \notin {NoFile, Broken} => a.whole \ a.data \subseteq Removed'
  PROVE  ReferencedFilesKept'
<1>. SUFFICES ASSUME NEW id \in Ids, archives'[id] \notin {NoFile, Broken},
                     NEW f \in archives'[id].whole \ archives'[id].data
              PROVE  f \in Removed'
  BY DEF ReferencedFilesKept
<1>1. archives \in [Ids -> ArchiveFiles]
  BY DEF Typed, TypeOK
<1>2. CASE archives'[id] = a
  BY <1>2
<1>3. CASE archives'[id] = archives[id]
  <2>1. archives[id] \in Contents
    BY <1>1, <1>3 DEF ArchiveFiles
  <2>2. f \in Files
    BY <2>1, <1>3 DEF Contents
  <2>3. QED
    BY <1>3, <2>2 DEF ReferencedFilesKept, LiveOnward
<1>4. QED
  BY <1>1, <1>2, <1>3

LEMMA KeptInit == Init => KeptInv
<1>. SUFFICES ASSUME Init PROVE KeptInv
  OBVIOUS
<1>1. \A c \in Calls : run[c].pc = "new"
  BY NotBegunType DEF Init
<1>2. QED
  BY <1>1 DEF KeptInv, RefsInv, ReferencedFilesKept, Init

LEMMA KeptStep == Typed /\ KeptInv /\ [Next]_vars => KeptInv'
<1>. SUFFICES ASSUME Typed, KeptInv, [Next]_vars PROVE KeptInv'
  OBVIOUS
<1>a. ASSUME UNCHANGED stage PROVE LiveOnward
  BY <1>a DEF LiveOnward, Removed
<1>b. ASSUME LiveOnward, UNCHANGED archives PROVE ReferencedFilesKept'
  <2>1. 1 \in Ids /\ Broken \in ArchiveFiles
    BY BackupAssumption DEF Ids, ArchiveFiles
  <2>2. QED
    BY <1>b, <2>1, ArchivesFrame DEF KeptInv
<1>c. ASSUME NEW c \in Calls, UNCHANGED stage, RefsInv(c)',
             \A d \in Calls : d # c => run'[d] = run[d]
      PROVE  \A d \in Calls : RefsInv(d)'
  <2> SUFFICES ASSUME NEW d \in Calls, d # c PROVE RefsInv(d)'
    BY <1>c
  <2>1. QED
    BY <1>a, <1>c, RefsFrame DEF KeptInv
<1>1. CASE Tick
  BY <1>1, <1>a, <1>b, RefsFrame DEF Tick, dest, KeptInv
<1>2. ASSUME NEW f \in Files, Live(f) PROVE KeptInv'
  <2>1. LiveOnward
    BY <1>2 DEF Live, LiveOnward, Late, Removed, Typed, TypeOK
  <2>2. QED
    BY <1>2, <2>1, <1>b, RefsFrame DEF Live, dest, KeptInv
<1>3. ASSUME NEW c \in Calls, Start(c) PROVE KeptInv'
  <2>1. RefsInv(c)'
    BY <1>3, StartType DEF RefsInv
  <2>2. UNCHANGED <<stage, archives>>
    BY <1>3 DEF Start, dest
  <2>3. ASSUME NEW d \in Calls, d # c PROVE RefsInv(d)'
    BY <1>3, <2>2, <2>3, <1>a, StartType, RefsFrame DEF KeptInv
  <2>4. QED
    BY <2>1, <2>2, <2>3, <1>a, <1>b DEF KeptInv
<1>4. ASSUME NEW c \in Calls, CopyDatabase(c) PROVE KeptInv'
  <2>1. UNCHANGED <<stage, archives>>
    BY <1>4 DEF CopyDatabase, dest
  <2>2. run'[c].pc = "tar" /\ run'[c].whole = Referenced \cap Stored
    BY <1>4, CopyFields, RunType DEF Typed, Runs
  <2>3. RefsInv(c)'
    BY <2>1, <2>2 DEF RefsInv, Stored, Referenced, Late
  <2>4. QED
    BY <1>4, <2>1, <2>3, <1>a, <1>b, <1>c, CopyFields DEF KeptInv
<1>5. ASSUME NEW c \in Calls, BeginTar(c) PROVE KeptInv'
  <2>1. UNCHANGED <<stage, archives>>
    BY <1>5 DEF BeginTar, dest
  <2>2. run'[c].pc = "untar" /\ run'[c].whole = run[c].whole /\ run'[c].seen = Stored
    BY <1>5, BeginTarFields, RunType DEF Typed, Runs
  <2>3. run[c].whole \subseteq Files /\ \A f \in run[c].whole : stage[f] \in Late
    BY <1>5, BeginTarFields, RunType DEF Typed, KeptInv, RefsInv
  <2>4. RefsInv(c)'
    BY <2>1, <2>2, <2>3 DEF RefsInv, Stored, Removed, Late
  <2>5. QED
    BY <1>5, <2>1, <2>4, <1>a, <1>b, <1>c, BeginTarFields DEF KeptInv
<1>6. ASSUME NEW c \in Calls, EndTar(c) PROVE KeptInv'
  <2>1. UNCHANGED <<stage, archives>>
    BY <1>6 DEF EndTar, dest
  <2>2. PICK data \in SUBSET Files :
          /\ run[c].seen \cap Stored \subseteq data
          /\ run'[c] = [run[c] EXCEPT !.pc = "pack", !.seen = {}, !.data = data]
    BY <1>6, EndTarFields
  <2>3. run'[c].pc = "pack" /\ run'[c].whole = run[c].whole /\ run'[c].data = data
    BY <2>2, RunType DEF Typed, Runs
  <2>4. ASSUME NEW f \in run[c].whole \ data PROVE f \in Removed
    <3>1. f \in Files /\ stage[f] \in Late /\ (f \in run[c].seen \/ f \in Removed)
      BY <1>6, EndTarFields, RunType DEF Typed, KeptInv, RefsInv
    <3>2. QED
      BY <2>2, <3>1 DEF Stored, Removed, Late
  <2>5. RefsInv(c)'
    BY <2>1, <2>3, <2>4 DEF RefsInv, Removed
  <2>6. QED
    BY <1>6, <2>1, <2>5, <1>a, <1>b, <1>c, EndTarFields DEF KeptInv
<1>7. ASSUME NEW c \in Calls, BeginArchive(c) PROVE KeptInv'
  <2>1. /\ run'[c].pc = "packing" /\ run[c].pc = "pack" /\ run[c].id \in Ids
        /\ run'[c].whole = run[c].whole /\ run'[c].data = run[c].data
        /\ \A d \in Calls : d # c => run'[d] = run[d]
    BY <1>7, StepType DEF BeginArchive, UnderWay
  <2>2. UNCHANGED stage /\ archives' = [archives EXCEPT ![run[c].id] = Broken]
    BY <1>7 DEF BeginArchive
  <2>3. RefsInv(c)'
    BY <2>1, <2>2 DEF RefsInv, KeptInv, Removed
  <2>4. ReferencedFilesKept'
    BY <2>1, <2>2, <1>a, ArchivesFrame DEF KeptInv, ArchiveFiles
  <2>5. QED
    BY <2>1, <2>2, <2>3, <2>4, <1>c DEF KeptInv
<1>8. ASSUME NEW c \in Calls, EndArchive(c) PROVE KeptInv'
  <2>1. /\ run'[c].pc = "sum" /\ run[c].pc = "packing" /\ run[c].id \in Ids
        /\ \A d \in Calls : d # c => run'[d] = run[d]
    BY <1>8, StepType DEF EndArchive, UnderWay
  <2>2. PICK a \in {Content(c)} \cup {Broken} : archives' = [archives EXCEPT ![run[c].id] = a]
    BY <1>8 DEF EndArchive
  <2>3. UNCHANGED stage
    BY <1>8 DEF EndArchive
  <2>4. RefsInv(c)'
    BY <2>1 DEF RefsInv
  <2>5. a \in ArchiveFiles
    BY <2>2, ContentType DEF ArchiveFiles, Typed
  <2>6. Content(c).whole = run[c].whole /\ Content(c).data = run[c].data
    BY DEF Content
  <2>7. a \notin {NoFile, Broken} => a.whole \ a.data \subseteq Removed'
    BY <2>1, <2>2, <2>3, <2>6 DEF KeptInv, RefsInv, Removed
  <2>8. ReferencedFilesKept'
    BY <2>1, <2>2, <2>3, <2>5, <2>7, <1>a, ArchivesFrame DEF KeptInv
  <2>9. QED
    BY <2>1, <2>3, <2>4, <2>8, <1>c DEF KeptInv
<1>9. ASSUME NEW c \in Calls, Checksum(c) PROVE KeptInv'
  <2>1. run'[c].pc = "describe"
    BY <1>9, ChecksumFields, RunType DEF Typed, Runs
  <2>2. RefsInv(c)'
    BY <2>1 DEF RefsInv
  <2>3. UNCHANGED <<stage, archives>>
    BY <1>9 DEF Checksum, dest
  <2>4. QED
    BY <1>9, <2>2, <2>3, <1>a, <1>b, <1>c, ChecksumFields DEF KeptInv
<1>10. ASSUME NEW c \in Calls, BeginManifest(c) \/ EndManifest(c) \/ LinkArchive(c)
       PROVE  KeptInv'
  <2>1. /\ run'[c].pc \in {"describing", "link", "pair"}
        /\ \A d \in Calls : d # c => run'[d] = run[d]
    BY <1>10, StepType DEF BeginManifest, EndManifest, LinkArchive, UnderWay
  <2>2. UNCHANGED <<stage, archives>>
    BY <1>10 DEF BeginManifest, EndManifest, LinkArchive
  <2>3. RefsInv(c)'
    BY <2>1 DEF RefsInv
  <2>4. QED
    BY <2>1, <2>2, <2>3, <1>a, <1>b, <1>c DEF KeptInv
<1>11. ASSUME NEW c \in Calls, LinkManifest(c) \/ Stop(c) PROVE KeptInv'
  <2>1. run'[c].pc = "ended" /\ \A d \in Calls : d # c => run'[d] = run[d]
    BY <1>11, ExitType DEF LinkManifest, Stop, Active, UnderWay
  <2>2. UNCHANGED <<stage, archives>>
    BY <1>11 DEF LinkManifest, Stop, dest
  <2>3. RefsInv(c)'
    BY <2>1 DEF RefsInv
  <2>4. QED
    BY <2>1, <2>2, <2>3, <1>a, <1>b, <1>c DEF KeptInv
<1>12. CASE UNCHANGED vars
  BY <1>12, <1>a, <1>b, RefsFrame DEF vars, KeptInv
<1>13. QED
  BY <1>1, <1>2, <1>3, <1>4, <1>5, <1>6, <1>7, <1>8, <1>9, <1>10, <1>11, <1>12 DEF Next

\* Whatever the service writes and removes while runs copy, in either order of file and
\* row, and however the runs overlap or die, an archive lacks an attachment that was whole
\* when its database was copied only if the service removed the file (lines 30-48).  One
\* whose row was copied before its file was stored is not covered.
THEOREM ArchivesKeepReferencedFiles == Spec => []ReferencedFilesKept
<1>1. Spec => [](Typed /\ KeptInv)
  BY TypedInit, TypedStep, KeptInit, KeptStep, PTL DEF Spec
<1>2. QED
  BY <1>1, PTL DEF KeptInv

-----------------------------------------------------------------------------
(***************************************************************************)
(* What the backup directory holds.                                        *)
(***************************************************************************)

\* No other run has the id of c.
Sole(c) == run[c].id \in Ids /\ \A d \in Calls : run[d].id = run[c].id => d = c

\* What a run that nobody interferes with has written so far.
Written(c) ==
  LET i == run[c].id
  IN  /\ run[c].pc \in {"sum", "describe", "describing", "link", "pair"} =>
           archives[i] = Content(c)
      /\ run[c].pc \in {"describe", "describing", "link", "pair"} => run[c].sum = Content(c)
      /\ run[c].pc \in {"link", "pair"} => manifests[i] = [sum |-> Content(c)]

\* What BackupsOfOneRunHold says of one id.
Holds(i) ==
  /\ manifests[i] \in {NoFile, Broken} \/ manifests[i].sum = archives[i]
  /\ latest.archive = i => archives[i] \notin {NoFile, Broken}
  /\ latest.manifest = i => manifests[i] \notin {NoFile, Broken}

\* An id of one run: nothing is described or linked before its turn.
OwnInv(c) ==
  LET i == run[c].id
  IN  Sole(c) =>
        /\ run[c].pc \in UnderWay => Written(c) /\ latest.manifest # i
        /\ run[c].pc \in UnderWay \ {"pair"} => latest.archive # i
        /\ run[c].pc \in UnderWay \ {"describing", "link", "pair"} => manifests[i] = NoFile
        /\ run[c].pc = "describing" => manifests[i] = Broken
        /\ run[c].pc = "ended" => Holds(i)

\* A run that has been alone all the time.
AloneInv(c) ==
  c \in Active /\ run[c].alone =>
    /\ Active = {c}
    /\ Written(c)
    /\ run[c].pc = "pair" => latest.archive = run[c].id

\* Nothing bears an id that no run has.
Untouched(i) ==
  (\A c \in Calls : run[c].id # i) =>
    archives[i] = NoFile /\ manifests[i] = NoFile /\ latest.archive # i /\ latest.manifest # i

DestInv == /\ \A c \in Calls : OwnInv(c) /\ AloneInv(c)
           /\ \A i \in Ids : Untouched(i)

\* A run under way touches nothing but what bears its id.
Acts(c) ==
  /\ c \in Active /\ run[c].id \in Ids
  /\ \A d \in Calls : d # c => run'[d] = run[d]
  /\ run'[c].id = run[c].id
  /\ run'[c].pc \in UnderWay => run'[c].alone = run[c].alone
  /\ run'[c].pc \in UnderWay \cup {"ended"}
  /\ \A i \in Ids \ {run[c].id} :
       /\ archives'[i] = archives[i] /\ manifests'[i] = manifests[i]
       /\ latest'.archive = i => latest.archive = i
       /\ latest'.manifest = i => latest.manifest = i

\* What a run under way leaves as it is.
LEMMA ActsFrame ==
  ASSUME Typed, DestInv, NEW c \in Calls, Acts(c), OwnInv(c)',
         run'[c].pc \in UnderWay /\ run[c].alone =>
           Written(c)' /\ (run'[c].pc = "pair" => latest'.archive = run[c].id)
  PROVE  DestInv'
<1>1. ASSUME NEW d \in Calls, d # c PROVE OwnInv(d)'
  <2> SUFFICES ASSUME Sole(d)' PROVE OwnInv(d)'
    BY DEF OwnInv
  <2>1. run'[d] = run[d] /\ run[d].id \in Ids /\ run[c].id # run[d].id
    BY <1>1 DEF Sole, Acts
  <2>2. Sole(d)
    <3> SUFFICES ASSUME NEW e \in Calls, run[e].id = run[d].id PROVE e = d
      BY <2>1 DEF Sole
    <3>1. run'[e].id = run[e].id
      BY DEF Acts
    <3>2. QED
      BY <2>1, <3>1 DEF Sole
  <2>3. OwnInv(d)
    BY DEF DestInv
  <2>4. /\ archives'[run[d].id] = archives[run[d].id]
        /\ manifests'[run[d].id] = manifests[run[d].id]
        /\ latest'.archive = run[d].id => latest.archive = run[d].id
        /\ latest'.manifest = run[d].id => latest.manifest = run[d].id
    BY <2>1 DEF Acts
  <2>5. QED
    BY <2>1, <2>2, <2>3, <2>4 DEF OwnInv, Written, Content, Holds
<1>2. \A d \in Calls : d \in Active' => d \in Active
  BY DEF Acts, Active
<1>3. ASSUME NEW d \in Calls PROVE AloneInv(d)'
  <2> SUFFICES ASSUME d \in Active', run'[d].alone PROVE AloneInv(d)'
    BY DEF AloneInv
  <2>1. CASE d = c
    <3>1. run'[c].pc \in UnderWay /\ run[c].alone
      BY <2>1 DEF Acts, Active
    <3>2. Active = {c}
      BY <3>1 DEF DestInv, AloneInv, Acts
    <3>3. Active' = {c}
      BY <2>1, <1>2, <3>2 DEF Active
    <3>4. QED
      BY <2>1, <3>1, <3>3 DEF AloneInv, Acts
  <2>2. CASE d # c
    <3>1. d \in Active /\ run[d].alone
      BY <2>2, <1>2 DEF Acts
    <3>2. QED
      BY <2>2, <3>1 DEF DestInv, AloneInv, Acts
  <2>3. QED
    BY <2>1, <2>2
<1>4. ASSUME NEW i \in Ids PROVE Untouched(i)'
  <2> SUFFICES ASSUME \A d \in Calls : run'[d].id # i PROVE Untouched(i)'
    BY DEF Untouched
  <2>1. run[c].id # i /\ \A d \in Calls : run[d].id # i
    BY DEF Acts
  <2>2. Untouched(i)
    BY DEF DestInv
  <2>3. QED
    BY <2>1, <2>2 DEF Untouched, Acts
<1>5. QED
  BY <1>1, <1>3, <1>4 DEF DestInv

\* Runs that go on with everything in the backup directory as it was.
LEMMA DestFrame ==
  ASSUME DestInv, UNCHANGED <<run, dest>>
  PROVE  DestInv'
  BY DEF DestInv, OwnInv, AloneInv, Untouched, Sole, Written, Content, Holds, Active, dest

LEMMA DestInit == Init => DestInv
<1>. SUFFICES ASSUME Init PROVE DestInv
  OBVIOUS
<1>1. \A c \in Calls : run[c].pc = "new" /\ run[c].id = NoId
  BY NotBegunType DEF Init
<1>2. \A i \in Ids : Untouched(i)
  BY IdFacts DEF Untouched, Init
<1>3. \A c \in Calls : ~Sole(c) /\ c \notin Active
  BY <1>1, IdFacts DEF Sole, Active, UnderWay
<1>4. QED
  BY <1>2, <1>3 DEF DestInv, OwnInv, AloneInv

LEMMA StartKeepsDest ==
  ASSUME Typed, DestInv, NEW c \in Calls, Start(c)
  PROVE  DestInv'
<1>1. UNCHANGED <<archives, manifests, latest>>
  BY DEF Start, dest
<1>2. \A d \in Calls \ {c} : (d \in Active' <=> d \in Active)
  BY StartType DEF Active
<1>3. c \in Active' /\ run'[c].pc = "copy" /\ run'[c].id \in Ids
  BY StartType DEF Active, UnderWay
<1>4. OwnInv(c)'
  <2> SUFFICES ASSUME Sole(c)' PROVE OwnInv(c)'
    BY DEF OwnInv
  <2>1. ASSUME NEW d \in Calls PROVE run[d].id # clock
    <3>1. CASE d = c
      BY <3>1, StartType, IdFacts
    <3>2. CASE d # c
      BY <3>2, StartType DEF Sole
    <3>3. QED
      BY <3>1, <3>2
  <2>2. Untouched(clock) /\ run'[c].id = clock
    BY StartType DEF DestInv
  <2>3. QED
    BY <1>1, <1>3, <2>1, <2>2 DEF OwnInv, Untouched, Written
<1>5. AloneInv(c)'
  <2> SUFFICES ASSUME run'[c].alone PROVE AloneInv(c)'
    BY DEF AloneInv
  <2>1. Active' = {c}
    <3>1. Active = {}
      BY StartType
    <3>2. Active' \subseteq Calls
      BY DEF Active
    <3>3. QED
      BY <1>2, <1>3, <3>1, <3>2
  <2>2. QED
    BY <1>3, <2>1 DEF AloneInv, Written
<1>6. ASSUME NEW d \in Calls, d # c PROVE OwnInv(d)'
  <2> SUFFICES ASSUME Sole(d)' PROVE OwnInv(d)'
    BY DEF OwnInv
  <2>1. /\ run'[d].pc = run[d].pc /\ run'[d].id = run[d].id
        /\ run'[d].whole = run[d].whole /\ run'[d].data = run[d].data
        /\ run'[d].sum = run[d].sum
    BY <1>6, StartType
  <2>2. Sole(d)
    BY <1>6, <2>1, StartType, IdFacts DEF Sole
  <2>3. OwnInv(d)
    BY DEF DestInv
  <2>4. QED
    BY <1>1, <2>1, <2>2, <2>3 DEF OwnInv, Written, Content, Holds
<1>7. ASSUME NEW d \in Calls, d # c PROVE AloneInv(d)'
  <2> SUFFICES ASSUME d \in Active', run'[d].alone PROVE FALSE
    BY DEF AloneInv
  <2>1. d \in Active
    BY <1>2, <1>7
  <2>2. QED
    BY <1>7, <2>1, StartType
<1>8. ASSUME NEW i \in Ids PROVE Untouched(i)'
  <2> SUFFICES ASSUME \A d \in Calls : run'[d].id # i PROVE Untouched(i)'
    BY DEF Untouched
  <2>1. \A d \in Calls : run[d].id # i
    BY StartType, IdFacts
  <2>2. Untouched(i)
    BY DEF DestInv
  <2>3. QED
    BY <1>1, <2>1, <2>2 DEF Untouched
<1>9. QED
  BY <1>4, <1>5, <1>6, <1>7, <1>8 DEF DestInv

\* A step of the work before the archive is opened.
LEMMA CopyingKeepsDest ==
  ASSUME Typed, DestInv, NEW c \in Calls, CopyDatabase(c) \/ BeginTar(c) \/ EndTar(c)
  PROVE  DestInv'
<1>1. UNCHANGED <<archives, manifests, latest>>
  BY DEF CopyDatabase, BeginTar, EndTar, dest
<1>2. /\ run[c].pc \in {"copy", "tar", "untar"} /\ run'[c].pc \in {"tar", "untar", "pack"}
      /\ run'[c].id = run[c].id /\ run'[c].alone = run[c].alone /\ run[c].id \in Ids
      /\ \A d \in Calls : d # c => run'[d] = run[d]
  <2>1. CASE CopyDatabase(c)
    BY <2>1, CopyFields, RunType DEF Typed, Runs
  <2>2. CASE BeginTar(c)
    BY <2>2, BeginTarFields, RunType DEF Typed, Runs
  <2>3. CASE EndTar(c)
    <3>1. PICK data \in SUBSET Files :
            run'[c] = [run[c] EXCEPT !.pc = "pack", !.seen = {}, !.data = data]
      BY <2>3, EndTarFields
    <3>2. QED
      BY <2>3, <3>1, EndTarFields, RunType DEF Typed, Runs
  <2>4. QED
    BY <2>1, <2>2, <2>3
<1>3. Acts(c)
  BY <1>1, <1>2 DEF Acts, Active, UnderWay
<1>4. Sole(c)' => Sole(c)
  BY <1>2 DEF Sole
<1>5. OwnInv(c)' /\ Written(c)'
  BY <1>1, <1>2, <1>4 DEF DestInv, OwnInv, Written, UnderWay
<1>6. QED
  BY <1>2, <1>3, <1>5, ActsFrame

LEMMA ChecksumKeepsDest ==
  ASSUME Typed, DestInv, NEW c \in Calls, Checksum(c)
  PROVE  DestInv'
<1>1. UNCHANGED <<archives, manifests, latest>>
  BY DEF Checksum, dest
<1>2. /\ run[c].pc = "sum" /\ run'[c].pc = "describe"
      /\ run'[c].id = run[c].id /\ run'[c].alone = run[c].alone /\ run[c].id \in Ids
      /\ run'[c].whole = run[c].whole /\ run'[c].data = run[c].data
      /\ run'[c].sum = archives[run[c].id]
      /\ \A d \in Calls : d # c => run'[d] = run[d]
  BY ChecksumFields, RunType DEF Typed, Runs
<1>3. Acts(c)
  BY <1>1, <1>2 DEF Acts, Active, UnderWay
<1>4. Sole(c)' => Sole(c)
  BY <1>2 DEF Sole
<1>5. Written(c) => Written(c)'
  BY <1>1, <1>2 DEF Written, Content
<1>6. OwnInv(c)'
  BY <1>1, <1>2, <1>4, <1>5 DEF DestInv, OwnInv, UnderWay
<1>7. run[c].alone => Written(c)
  BY <1>3 DEF DestInv, AloneInv, Acts
<1>8. QED
  BY <1>2, <1>3, <1>5, <1>6, <1>7, ActsFrame

\* The steps that write the archive and the manifest and move the first link.
LEMMA WritingKeepsDest ==
  ASSUME Typed, DestInv, NEW c \in Calls,
         \/ BeginArchive(c) \/ EndArchive(c) \/ BeginManifest(c) \/ EndManifest(c)
         \/ LinkArchive(c)
  PROVE  DestInv'
<1>. DEFINE i == run[c].id
<1>t. /\ archives \in [Ids -> ArchiveFiles] /\ manifests \in [Ids -> ManifestFiles]
      /\ latest \in [archive: Ids \cup {NoId}, manifest: Ids \cup {NoId}]
  BY DEF Typed, TypeOK
<1>s. /\ i \in Ids /\ run'[c].id = i /\ run'[c].alone = run[c].alone
      /\ run'[c].whole = run[c].whole /\ run'[c].data = run[c].data /\ run'[c].sum = run[c].sum
      /\ \A d \in Calls : d # c => run'[d] = run[d]
  BY StepType DEF BeginArchive, EndArchive, BeginManifest, EndManifest, LinkArchive, UnderWay
<1>o. Sole(c)' => Sole(c)
  BY <1>s DEF Sole
<1>c. Content(c)' = Content(c)
  BY <1>s DEF Content
<1>w. c \in Active /\ (run[c].alone \/ Sole(c)) => Written(c)
  BY DEF DestInv, AloneInv, OwnInv, Active
<1>u. ~run[c].alone /\ Others(c) # {} => ~Sole(c) /\ ~run[c].alone
  BY DEF Others, Sole
<1>1. CASE BeginArchive(c)
  <2>1. /\ run[c].pc = "pack" /\ run'[c].pc = "packing"
        /\ archives' = [archives EXCEPT ![i] = Broken] /\ UNCHANGED <<manifests, latest>>
    BY <1>1, StepType DEF BeginArchive, UnderWay
  <2>2. Acts(c)
    BY <2>1, <1>s, <1>t DEF Acts, Active, UnderWay
  <2>3. OwnInv(c)' /\ Written(c)'
    BY <2>1, <1>s, <1>o DEF DestInv, OwnInv, Written, UnderWay
  <2>4. QED
    BY <2>1, <2>2, <2>3, ActsFrame
<1>2. CASE EndArchive(c)
  <2>1. PICK a \in {Content(c)} \cup {b \in {Broken} : ~run[c].alone /\ Others(c) # {}} :
          archives' = [archives EXCEPT ![i] = a]
    BY <1>2 DEF EndArchive
  <2>2. /\ run[c].pc = "packing" /\ run'[c].pc = "sum" /\ UNCHANGED <<manifests, latest>>
    BY <1>2, StepType DEF EndArchive, UnderWay
  <2>3. Acts(c)
    BY <2>1, <2>2, <1>s, <1>t DEF Acts, Active, UnderWay
  <2>4. run[c].alone \/ Sole(c) => Written(c)'
    BY <2>1, <2>2, <1>s, <1>t, <1>c, <1>u DEF Written
  <2>5. OwnInv(c)'
    BY <2>2, <2>4, <1>s, <1>o DEF DestInv, OwnInv, UnderWay
  <2>6. QED
    BY <2>2, <2>3, <2>4, <2>5, ActsFrame
<1>3. CASE BeginManifest(c)
  <2>1. /\ run[c].pc = "describe" /\ run'[c].pc = "describing"
        /\ manifests' = [manifests EXCEPT ![i] = Broken] /\ UNCHANGED <<archives, latest>>
    BY <1>3, StepType DEF BeginManifest, UnderWay
  <2>2. Acts(c)
    BY <2>1, <1>s, <1>t DEF Acts, Active, UnderWay
  <2>3. run[c].alone \/ Sole(c) => Written(c)'
    BY <2>1, <2>2, <1>s, <1>c, <1>w DEF Written, Acts
  <2>4. OwnInv(c)'
    BY <2>1, <2>3, <1>s, <1>t, <1>o DEF DestInv, OwnInv, UnderWay
  <2>5. QED
    BY <2>1, <2>2, <2>3, <2>4, ActsFrame
<1>4. CASE EndManifest(c)
  <2>1. PICK m \in {[sum |-> run[c].sum]} \cup
                   {b \in {Broken} : ~run[c].alone /\ Others(c) # {}} :
          manifests' = [manifests EXCEPT ![i] = m]
    BY <1>4 DEF EndManifest
  <2>2. /\ run[c].pc = "describing" /\ run'[c].pc = "link" /\ UNCHANGED <<archives, latest>>
    BY <1>4, StepType DEF EndManifest, UnderWay
  <2>3. Acts(c)
    BY <2>1, <2>2, <1>s, <1>t DEF Acts, Active, UnderWay
  <2>4. run[c].alone \/ Sole(c) => Written(c)'
    BY <2>1, <2>2, <2>3, <1>s, <1>t, <1>c, <1>u, <1>w DEF Written, Acts
  <2>5. OwnInv(c)'
    BY <2>2, <2>4, <1>s, <1>o DEF DestInv, OwnInv, UnderWay
  <2>6. QED
    BY <2>2, <2>3, <2>4, <2>5, ActsFrame
<1>5. CASE LinkArchive(c)
  <2>1. /\ run[c].pc = "link" /\ run'[c].pc = "pair"
        /\ latest' = [latest EXCEPT !.archive = i] /\ UNCHANGED <<archives, manifests>>
    BY <1>5, StepType DEF LinkArchive, UnderWay
  <2>2. latest'.archive = i /\ latest'.manifest = latest.manifest
    BY <2>1, <1>t
  <2>3. Acts(c)
    BY <2>1, <2>2, <1>s DEF Acts, Active, UnderWay
  <2>4. run[c].alone \/ Sole(c) => Written(c)'
    BY <2>1, <2>3, <1>s, <1>c, <1>w DEF Written, Acts
  <2>5. OwnInv(c)'
    BY <2>1, <2>2, <2>4, <1>s, <1>o DEF DestInv, OwnInv, UnderWay
  <2>6. QED
    BY <2>1, <2>2, <2>3, <2>4, <2>5, <1>s, ActsFrame
<1>6. QED
  BY <1>1, <1>2, <1>3, <1>4, <1>5

\* What a run leaves when it moves the second link.
LEMMA PairLeft ==
  ASSUME Typed, DestInv, NEW c \in Calls, LinkManifest(c)
  PROVE  /\ c \in Active /\ run[c].pc = "pair" /\ run[c].id \in Ids
         /\ run'[c].pc = "ended" /\ run'[c].id = run[c].id
         /\ \A d \in Calls : d # c => run'[d] = run[d]
         /\ latest' = [latest EXCEPT !.manifest = run[c].id]
         /\ latest'.archive = latest.archive /\ latest'.manifest = run[c].id
         /\ UNCHANGED <<archives, manifests>>
         /\ run[c].alone \/ Sole(c) =>
              /\ archives[run[c].id] = Content(c)
              /\ manifests[run[c].id] = [sum |-> Content(c)]
<1>1. run[c].pc = "pair" /\ c \in Active
  BY DEF LinkManifest, Active, UnderWay
<1>2. run[c].alone \/ Sole(c) => Written(c)
  BY <1>1 DEF DestInv, AloneInv, OwnInv, Active
<1>3. QED
  BY <1>1, <1>2, ExitType DEF LinkManifest, Written, Typed, TypeOK, Active

LEMMA LinkManifestKeepsDest ==
  ASSUME Typed, DestInv, NEW c \in Calls, LinkManifest(c)
  PROVE  DestInv'
<1>1. Acts(c)
  BY PairLeft DEF Acts, UnderWay
<1>2. Sole(c)' => Sole(c)
  BY PairLeft DEF Sole
<1>3. Sole(c) => Holds(run[c].id)'
  <2> SUFFICES ASSUME Sole(c) PROVE Holds(run[c].id)'
    OBVIOUS
  <2>1. Content(c) \in Contents /\ Content(c) \notin {NoFile, Broken}
    BY ContentType DEF Typed
  <2>2. [sum |-> Content(c)] \notin {NoFile, Broken}
    BY <2>1, NamesAssumption DEF Sums
  <2>3. [sum |-> Content(c)].sum = Content(c)
    OBVIOUS
  <2>4. /\ run'[c].id = run[c].id /\ archives'[run[c].id] = Content(c)
        /\ manifests'[run[c].id] = [sum |-> Content(c)]
    BY PairLeft
  <2>5. QED
    BY <2>1, <2>2, <2>3, <2>4 DEF Holds
<1>4. OwnInv(c)'
  BY <1>2, <1>3, PairLeft DEF OwnInv, Holds, UnderWay
<1>5. QED
  BY <1>1, <1>4, PairLeft, ActsFrame DEF UnderWay

\* At every point of a run that alone has its id, the id's files are worth what they say.
LEMMA SoleHolds ==
  ASSUME Typed, DestInv, NEW c \in Calls, Sole(c)
  PROVE  Holds(run[c].id)
<1>. DEFINE i == run[c].id
<1>1. run[c].pc \in UnderWay \cup {"ended"}
  BY RunType DEF Typed, Begun, Phases, Sole
<1>2. CASE run[c].pc = "ended"
  BY <1>2 DEF DestInv, OwnInv
<1>3. CASE run[c].pc \in UnderWay
  <2>1. Content(c) \notin {NoFile, Broken} /\ [sum |-> Content(c)].sum = Content(c)
    BY ContentType DEF Typed
  <2>2. Written(c) /\ latest.manifest # i
    BY <1>3 DEF DestInv, OwnInv
  <2>3. CASE run[c].pc \in {"link", "pair"}
    <3>1. archives[i] = Content(c) /\ manifests[i] = [sum |-> Content(c)]
      BY <2>2, <2>3 DEF Written
    <3>2. QED
      BY <2>1, <2>2, <3>1 DEF Holds
  <2>4. CASE run[c].pc \notin {"link", "pair"}
    <3>1. latest.archive # i /\ manifests[i] \in {NoFile, Broken}
      BY <1>3, <2>4 DEF DestInv, OwnInv
    <3>2. QED
      BY <2>2, <3>1 DEF Holds
  <2>5. QED
    BY <2>3, <2>4
<1>4. QED
  BY <1>1, <1>2, <1>3

LEMMA StopKeepsDest ==
  ASSUME Typed, DestInv, NEW c \in Calls, Stop(c)
  PROVE  DestInv'
<1>1. UNCHANGED <<archives, manifests, latest>> /\ c \in Active
  BY DEF Stop, dest
<1>2. /\ run[c].id \in Ids /\ run'[c].id = run[c].id /\ run'[c].pc = "ended"
      /\ \A d \in Calls : d # c => run'[d] = run[d]
  BY <1>1, ExitType DEF Stop, Active
<1>3. Acts(c)
  BY <1>1, <1>2 DEF Acts, UnderWay
<1>4. Sole(c)' => Sole(c)
  BY <1>2 DEF Sole
<1>5. Sole(c) => Holds(run[c].id)
  BY SoleHolds
<1>6. OwnInv(c)'
  BY <1>1, <1>2, <1>4, <1>5 DEF OwnInv, Holds, UnderWay
<1>7. QED
  BY <1>2, <1>3, <1>6, ActsFrame DEF UnderWay

LEMMA DestStep == Typed /\ DestInv /\ [Next]_vars => DestInv'
<1>. SUFFICES ASSUME Typed, DestInv, [Next]_vars PROVE DestInv'
  OBVIOUS
<1>1. CASE Tick
  BY <1>1, DestFrame DEF Tick
<1>2. ASSUME NEW f \in Files, Live(f) PROVE DestInv'
  BY <1>2, DestFrame DEF Live
<1>3. ASSUME NEW c \in Calls, Start(c) PROVE DestInv'
  BY <1>3, StartKeepsDest
<1>4. ASSUME NEW c \in Calls, CopyDatabase(c) \/ BeginTar(c) \/ EndTar(c) PROVE DestInv'
  BY <1>4, CopyingKeepsDest
<1>5. ASSUME NEW c \in Calls,
             \/ BeginArchive(c) \/ EndArchive(c) \/ BeginManifest(c) \/ EndManifest(c)
             \/ LinkArchive(c)
      PROVE  DestInv'
  BY <1>5, WritingKeepsDest
<1>6. ASSUME NEW c \in Calls, Checksum(c) PROVE DestInv'
  BY <1>6, ChecksumKeepsDest
<1>7. ASSUME NEW c \in Calls, LinkManifest(c) PROVE DestInv'
  BY <1>7, LinkManifestKeepsDest
<1>8. ASSUME NEW c \in Calls, Stop(c) PROVE DestInv'
  BY <1>8, StopKeepsDest
<1>9. CASE UNCHANGED vars
  BY <1>9, DestFrame DEF vars, dest
<1>10. QED
  BY <1>1, <1>2, <1>3, <1>4, <1>5, <1>6, <1>7, <1>8, <1>9 DEF Next

LEMMA DestHolds ==
  ASSUME Typed, DestInv
  PROVE  BackupsOfOneRunHold
<1>. SUFFICES ASSUME NEW id \in Ids, UsedOnce(id) PROVE Holds(id)
  BY DEF BackupsOfOneRunHold, Holds
<1>1. CASE \A c \in Calls : run[c].id # id
  BY <1>1 DEF DestInv, Untouched, Holds
<1>2. ASSUME NEW c \in Calls, run[c].id = id PROVE Holds(id)
  <2>1. Sole(c)
    BY <1>2 DEF UsedOnce, Sole
  <2>2. QED
    BY <1>2, <2>1, SoleHolds
<1>3. QED
  BY <1>1, <1>2

\* For any number of runs: an id that one run has used never has a manifest that does not
\* fit its archive, and the links name only what is finished.
THEOREM BackupsHold == Spec => []BackupsOfOneRunHold
<1>1. Spec => [](Typed /\ DestInv)
  BY TypedInit, TypedStep, DestInit, DestStep, PTL DEF Spec
<1>2. QED
  BY <1>1, DestHolds, PTL

\* For any number of runs: one that no other overlapped ends with both links on its own
\* archive and manifest, which fit each other.
THEOREM UndisturbedRunsLeavePairs == Spec => UndisturbedRunLeavesAPair
<1>. DEFINE Pair ==
       \A c \in Calls :
         run[c].pc = "pair" /\ run'[c].pc = "ended" /\ stops' = stops /\ run[c].alone =>
           /\ latest' = [archive |-> run[c].id, manifest |-> run[c].id]
           /\ archives'[run[c].id] = Content(c)
           /\ manifests'[run[c].id] = [sum |-> archives'[run[c].id]]
<1>1. Typed /\ DestInv /\ [Next]_vars => [Pair]_vars
  <2> SUFFICES ASSUME Typed, DestInv, Next, NEW c \in Calls,
                      run[c].pc = "pair", run'[c].pc = "ended", stops' = stops, run[c].alone
               PROVE  /\ latest' = [archive |-> run[c].id, manifest |-> run[c].id]
                      /\ archives'[run[c].id] = Content(c)
                      /\ manifests'[run[c].id] = [sum |-> archives'[run[c].id]]
    OBVIOUS
  <2>1. LinkManifest(c)
    <3>1. UNCHANGED run => FALSE
      OBVIOUS
    <3>2. ASSUME NEW d \in Calls, Start(d) PROVE FALSE
      BY <3>2, StartType
    <3>3. ASSUME NEW d \in Calls, CopyDatabase(d) \/ BeginTar(d) \/ EndTar(d) \/ Checksum(d)
          PROVE  FALSE
      <4>1. run[d].pc # "pair" /\ \A e \in Calls : e # d => run'[e] = run[e]
        BY <3>3, CopyFields, BeginTarFields, EndTarFields, ChecksumFields
      <4>2. QED
        BY <4>1
    <3>4. ASSUME NEW d \in Calls,
                 \/ BeginArchive(d) \/ EndArchive(d) \/ BeginManifest(d) \/ EndManifest(d)
                 \/ LinkArchive(d)
          PROVE  FALSE
      <4>1. run[d].pc # "pair" /\ \A e \in Calls : e # d => run'[e] = run[e]
        BY <3>4, StepType
           DEF BeginArchive, EndArchive, BeginManifest, EndManifest, LinkArchive, UnderWay
      <4>2. QED
        BY <4>1
    <3>5. ASSUME NEW d \in Calls, Stop(d) PROVE FALSE
      BY <3>5, BackupAssumption DEF Stop, Typed, TypeOK
    <3>6. ASSUME NEW d \in Calls, LinkManifest(d) PROVE d = c
      BY <3>6, PairLeft
    <3>7. QED
      BY <3>1, <3>2, <3>3, <3>4, <3>5, <3>6 DEF Next, Tick, Live
  <2>2. /\ latest.archive = run[c].id
        /\ latest \in [archive: Ids \cup {NoId}, manifest: Ids \cup {NoId}]
    BY <2>1, PairLeft DEF DestInv, AloneInv, Typed, TypeOK
  <2>3. /\ latest' = [latest EXCEPT !.manifest = run[c].id]
        /\ archives' = archives /\ manifests' = manifests
        /\ archives[run[c].id] = Content(c)
        /\ manifests[run[c].id] = [sum |-> Content(c)]
    BY <2>1, PairLeft
  <2>4. latest' = [archive |-> run[c].id, manifest |-> run[c].id]
    BY <2>2, <2>3
  <2>5. QED
    BY <2>3, <2>4
<1>2. Spec => [](Typed /\ DestInv)
  BY TypedInit, TypedStep, DestInit, DestStep, PTL DEF Spec
<1>3. QED
  BY <1>1, <1>2, PTL DEF Spec, UndisturbedRunLeavesAPair
=============================================================================
