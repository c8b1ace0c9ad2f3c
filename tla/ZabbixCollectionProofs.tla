------------------------ MODULE ZabbixCollectionProofs ----------------------
(***************************************************************************)
(* Proofs about ZabbixCollection for every set of hosts, documents and     *)
(* kinds of problem, every limit, and any number of problems and faults.   *)
(***************************************************************************)
EXTENDS ZabbixCollection, FiniteSetTheorems, WellFoundedInduction, TLAPS

\* The list the options need is given.
FilesGiven == files["infra"] # NotGiven

Typed == TypeOK /\ FilesGiven

\* The problems the first request found, and the newer ones it had to leave room for.
Found == {e \in run.open : Selected(e)}
Newer(e) == {f \in run.open : f > e /\ Selected(f)}

\* What the lists of the chain are worth once both are read.
ListsInv ==
  run.pc \in {"problems", "hosts", "route", "list"} => DeclaredShadow(run.policy) \subseteq run.shadow

\* What the batch holds.
BatchInv ==
  run.pc \in {"route", "list"} =>
    \A e \in run.batch :
      /\ Selected(e)
      /\ problems[e].host \in run.infra
      /\ "host_unavailable" \in problems[e].matches => problems[e].host \notin run.shadow

\* What neither the batch holds nor the ledger.
LeftInv ==
  /\ run.pc \in {"shadow", "problems", "hosts"} => run.batch = {}
  /\ run.pc = "hosts" => run.fetched = Newest(Found)
  /\ run.pc \in {"route", "list"} =>
       \A e \in run.open \ orphaned :
         Selected(e) /\ Routable(e) /\ ledger[e] = 0 =>
           e \in run.batch \/ Cardinality(Newer(e)) >= Limit
  /\ run.pc = "list" => run.batch # {} /\ Len(tickets) > 0

ChainInv == Typed /\ ListsInv /\ BatchInv /\ LeftInv

-----------------------------------------------------------------------------
LEMMA LeastNatural ==
  ASSUME NEW T, T \subseteq Nat, T # {}
  PROVE  \E n \in T : \A m \in T : n <= m
<1>1. IsWellFoundedOn(OpToRel(<, Nat), Nat)
  BY NatLessThanWellFounded
<1>2. PICK n \in T : \A m \in T : ~(<<m, n>> \in OpToRel(<, Nat))
  BY <1>1, WFMin
<1>3. ASSUME NEW m \in T PROVE n <= m
  <2>1. m \in Nat /\ n \in Nat
    OBVIOUS
  <2>2. ~(m < n)
    BY <1>2, <2>1 DEF OpToRel
  <2>3. QED
    BY <2>1, <2>2
<1>4. QED
  BY <1>3

\* The values of a lookup.
LEMMA ValueFacts ==
  /\ \A v \in Values : v \notin {Absent, Malformed} => v \subseteq Hosts
  /\ \A v \in SUBSET Hosts : v \notin {Absent, Malformed}
  /\ Absent # Malformed
<1>1. NoValue \notin Hosts /\ BadValue \notin Hosts /\ NoValue # BadValue
  BY CollectionAssumption
<1>2. NoValue \in Absent /\ BadValue \in Malformed /\ NoValue \notin Malformed
  BY <1>1 DEF Absent, Malformed
<1>3. ASSUME NEW v \in SUBSET Hosts PROVE v # Absent /\ v # Malformed
  <2>1. NoValue \notin v /\ BadValue \notin v
    BY <1>1
  <2>2. QED
    BY <1>2, <2>1
<1>4. \A v \in Values : v \notin {Absent, Malformed} => v \subseteq Hosts
  BY DEF Values
<1>5. QED
  BY <1>2, <1>3, <1>4

LEMMA BoundFacts ==
  MaxProblems \in Nat /\ Limit \in Nat /\ MaxEdits \in Nat /\ MaxFaults \in Nat
  BY CollectionAssumption

\* Where the events of a chain come from.
LEMMA EventFacts ==
  ASSUME Typed
  PROVE  /\ Len(problems) \in Nat /\ 1..Len(problems) \subseteq EventIds /\ EventIds \subseteq Nat
         /\ run.open \subseteq 1..Len(problems) /\ run.fetched \subseteq run.open
         /\ run.batch \subseteq run.fetched
<1>1. /\ problems \in Seq(Kinds) /\ Len(problems) <= MaxProblems
      /\ run.open \subseteq 1..Len(problems) /\ run.fetched \subseteq run.open
      /\ run.batch \subseteq run.fetched
  BY DEF Typed, TypeOK
<1>2. Len(problems) \in Nat
  BY <1>1
<1>3. QED
  BY <1>1, <1>2, BoundFacts DEF EventIds

LEMMA PathFacts ==
  /\ DOMAIN InfraPaths = 1..3 /\ DOMAIN ShadowPaths = 1..6
  /\ \A i \in 1..3 : InfraPaths[i] \in Paths
  /\ \A i \in 1..6 : ShadowPaths[i] \in Paths
  BY DEF InfraPaths, ShadowPaths, Paths

LEMMA DocumentFacts ==
  ASSUME NEW d \in Documents, d \notin {Unparsable, Unreadable}
  PROVE  d \in [Paths -> Values]
  BY CollectionAssumption DEF Mappings

\* The path that decides is one that is there.
LEMMA FirstPresentFacts ==
  ASSUME NEW d, NEW paths, NEW n \in Nat, DOMAIN paths = 1..n
  PROVE  \/ /\ \A i \in 1..n : d[paths[i]] = Absent
            /\ FirstPresent(d, paths) = Malformed
         \/ \E i \in 1..n : d[paths[i]] # Absent /\ FirstPresent(d, paths) = d[paths[i]]
<1>. DEFINE present == {i \in DOMAIN paths : d[paths[i]] # Absent}
            first == CHOOSE i \in present : \A j \in present : i <= j
<1>1. CASE present = {}
  BY <1>1 DEF FirstPresent
<1>2. CASE present # {}
  <2>1. first \in present
    <3>1. present \subseteq Nat
      OBVIOUS
    <3>2. \E i \in present : \A j \in present : i <= j
      BY <1>2, <3>1, LeastNatural
    <3>3. QED
      BY <3>2
  <2>2. FirstPresent(d, paths) = d[paths[first]]
    BY <1>2 DEF FirstPresent
  <2>3. QED
    BY <2>1, <2>2
<1>3. QED
  BY <1>1, <1>2

\* A usable list is a set of hosts.
LEMMA HostListType ==
  ASSUME NEW d \in Documents, NEW paths \in {InfraPaths, ShadowPaths},
         HostList(d, paths) # Malformed
  PROVE  HostList(d, paths) \subseteq Hosts
<1>1. d \notin {Unparsable, Unreadable} /\ HostList(d, paths) = FirstPresent(d, paths)
  BY DEF HostList
<1>2. \E n \in {3, 6} : DOMAIN paths = 1..n /\ \A i \in 1..n : paths[i] \in Paths
  BY PathFacts
<1>3. PICK n \in {3, 6} : DOMAIN paths = 1..n /\ \A i \in 1..n : paths[i] \in Paths
  BY <1>2
<1>4. PICK i \in 1..n : d[paths[i]] # Absent /\ FirstPresent(d, paths) = d[paths[i]]
  BY <1>1, <1>3, FirstPresentFacts
<1>5. d[paths[i]] \in Values
  BY <1>1, <1>3, DocumentFacts
<1>6. QED
  BY <1>1, <1>4, <1>5, ValueFacts

\* A shadow list that a document gives once and in a usable form is the one that is read.
LEMMA DeclaredIsRead ==
  ASSUME NEW d \in Documents, d # Unreadable
  PROVE  DeclaredShadow(d) \subseteq
           (IF HostList(d, ShadowPaths) = Malformed THEN {} ELSE HostList(d, ShadowPaths))
<1>. SUFFICES ASSUME d \notin {Unparsable, Unreadable, NotGiven},
                     \E path \in Paths : PresentShadow(d) = {path}
              PROVE  UNION ({d[path] : path \in PresentShadow(d)} \ {Malformed}) \subseteq
                       (IF HostList(d, ShadowPaths) = Malformed THEN {}
                        ELSE HostList(d, ShadowPaths))
  BY DEF DeclaredShadow
<1>2. PICK path : PresentShadow(d) = {path}
  OBVIOUS
<1>3. HostList(d, ShadowPaths) = FirstPresent(d, ShadowPaths)
  BY DEF HostList
<1>4. FirstPresent(d, ShadowPaths) = d[path]
  <2>1. path \in PresentShadow(d)
    BY <1>2
  <2>2. ~ \A i \in 1..6 : d[ShadowPaths[i]] = Absent
    BY <2>1 DEF PresentShadow
  <2>3. PICK i \in 1..6 : /\ d[ShadowPaths[i]] # Absent
                          /\ FirstPresent(d, ShadowPaths) = d[ShadowPaths[i]]
    BY <2>2, PathFacts, FirstPresentFacts
  <2>4. ShadowPaths[i] \in PresentShadow(d)
    BY <2>3 DEF PresentShadow
  <2>5. QED
    BY <1>2, <2>3, <2>4
<1>5. QED
  BY <1>2, <1>3, <1>4

LEMMA LiveFacts ==
  ASSUME NEW h, NEW m, NEW i, NEW s, LiveCandidate(h, m, i, s)
  PROVE  h \in i /\ ("host_unavailable" \in m => h \notin s)
  BY DEF LiveCandidate

\* The policy file is one the options give.
LEMMA PolicyFacts ==
  ASSUME Typed
  PROVE  files["infra"] \in Documents /\ files[PolicyFile] \in Documents
<1>1. files \in [Files -> Documents \cup {NotGiven}] /\ files["infra"] # NotGiven
  BY DEF Typed, TypeOK, FilesGiven
<1>2. QED
  BY <1>1 DEF PolicyFile, Files

\* The number of newer problems is a number.
LEMMA NewerFacts ==
  ASSUME Typed, NEW e \in EventIds
  PROVE  Cardinality(Newer(e)) \in Nat /\ run.open \subseteq EventIds /\ EventIds \subseteq Nat
<1>1. Len(problems) \in Nat /\ run.open \subseteq 1..Len(problems)
  BY EventFacts
<1>2. IsFiniteSet(1..Len(problems))
  BY <1>1, FS_Interval
<1>3. Newer(e) \in SUBSET (1..Len(problems))
  BY <1>1 DEF Newer
<1>4. Cardinality(Newer(e)) \in Nat
  BY <1>2, <1>3, FS_Subset, FS_CardinalityType
<1>5. QED
  BY <1>4, EventFacts

\* The event at hand is one of the batch.
LEMMA CurrentFacts ==
  ASSUME Typed, run.batch # {}
  PROVE  Current \in run.batch /\ Current \in EventIds
<1>1. run.batch \subseteq EventIds /\ EventIds \subseteq Nat /\ MaxProblems \in Nat
  BY EventFacts, BoundFacts
<1>. DEFINE T == {n \in Nat : \E e \in run.batch : n = MaxProblems - e}
<1>2. \A e \in run.batch : MaxProblems - e \in T
  BY <1>1 DEF EventIds
<1>3. PICK n \in T : \A m \in T : n <= m
  BY <1>2, LeastNatural
<1>4. PICK e \in run.batch : n = MaxProblems - e
  OBVIOUS
<1>5. ASSUME NEW f \in run.batch PROVE f <= e
  <2>1. MaxProblems - e <= MaxProblems - f
    BY <1>2, <1>3, <1>4
  <2>2. e \in Nat /\ f \in Nat
    BY <1>1
  <2>3. QED
    BY <1>1, <2>1, <2>2
<1>6. Current \in run.batch
  BY <1>5 DEF Current
<1>7. QED
  BY <1>1, <1>6

-----------------------------------------------------------------------------
LEMMA IdleType ==
  /\ IdleRun \in Runs /\ IdleRun.pc = "idle"
  /\ IdleRun.open = {} /\ IdleRun.fetched = {} /\ IdleRun.batch = {}
  /\ IdleRun.infra = {} /\ IdleRun.shadow = {} /\ IdleRun.policy = NotGiven
  BY DEF IdleRun, Runs

LEMMA ChainInit == Init => ChainInv
<1>. SUFFICES ASSUME Init PROVE ChainInv
  OBVIOUS
<1>1. /\ problems = << >> /\ open = {} /\ orphaned = {} /\ run = IdleRun
      /\ tickets = << >> /\ ledger = [k \in EventIds |-> 0]
      /\ edits = MaxEdits /\ faults = MaxFaults /\ files \in InitialFiles
  BY DEF Init, Ledger!Init, Ledger!Unlisted
<1>2. files \in [Files -> Documents \cup {NotGiven}] /\ files["infra"] # NotGiven
  BY <1>1, CollectionAssumption
<1>3. << >> \in Seq(Kinds) /\ << >> \in Seq(EventIds) /\ Len(<< >>) = 0
  OBVIOUS
<1>4. problems \in Seq(Kinds) /\ Len(problems) <= MaxProblems /\ tickets \in Seq(EventIds)
  BY <1>1, <1>3, BoundFacts
<1>5. edits \in 0..MaxEdits /\ faults \in 0..MaxFaults
  BY <1>1, BoundFacts
<1>6. TypeOK
  BY <1>1, <1>2, <1>4, <1>5, IdleType DEF TypeOK
<1>7. QED
  BY <1>1, <1>2, <1>6, IdleType DEF ChainInv, Typed, FilesGiven, ListsInv, BatchInv, LeftInv

\* Zabbix and the operator move on; what the chain has in hand keeps its meaning.
LEMMA WorldMoves ==
  ASSUME ChainInv, Typed', UNCHANGED <<run, tickets, ledger>>, orphaned \subseteq orphaned',
         \A e \in 1..Len(problems) : problems'[e] = problems[e]
  PROVE  ChainInv'
<1>1. /\ run.open \subseteq 1..Len(problems) /\ run.batch \subseteq run.open
      /\ run.fetched \subseteq run.open
  BY EventFacts DEF ChainInv
<1>2. \A e \in run.open : (Selected(e)' <=> Selected(e)) /\ (Routable(e)' <=> Routable(e))
  BY <1>1 DEF Selected, Routable
<1>3. Found' = Found /\ \A e \in EventIds : Newer(e)' = Newer(e)
  BY <1>2 DEF Found, Newer
<1>4. ListsInv'
  BY DEF ChainInv, ListsInv
<1>5. BatchInv'
  BY <1>1, <1>2 DEF ChainInv, BatchInv
<1>6. LeftInv'
  <2>1. run.pc = "hosts" => run.fetched = Newest(Found')
    BY <1>3 DEF ChainInv, LeftInv
  <2>2. ASSUME run.pc \in {"route", "list"}, NEW e \in run.open \ orphaned',
               Selected(e)', Routable(e)', ledger[e] = 0
        PROVE  e \in run.batch \/ Cardinality(Newer(e)') >= Limit
    <3>1. e \in EventIds /\ e \in run.open \ orphaned
      BY <1>1, EventFacts DEF ChainInv
    <3>2. e \in run.batch \/ Cardinality(Newer(e)) >= Limit
      BY <1>2, <2>2, <3>1 DEF ChainInv, LeftInv
    <3>3. QED
      BY <1>3, <3>1, <3>2
  <2>3. /\ run.pc = "list" => run.batch # {} /\ Len(tickets) > 0
        /\ run.pc \in {"shadow", "problems", "hosts"} => run.batch = {}
    BY DEF ChainInv, LeftInv
  <2>4. QED
    BY <2>1, <2>2, <2>3 DEF LeftInv
<1>7. QED
  BY <1>4, <1>5, <1>6 DEF ChainInv

LEMMA WorldKeeps ==
  ASSUME ChainInv,
         \/ \E kind \in Kinds : OpenProblem(kind)
         \/ \E e \in open : ResolveProblem(e) \/ OrphanProblem(e)
         \/ \E f \in Files, d \in Documents : EditFile(f, d)
         \/ UNCHANGED vars
  PROVE  ChainInv'
<1>. USE DEF ChainInv, Typed
<1>1. ASSUME NEW kind \in Kinds, OpenProblem(kind) PROVE ChainInv'
  <2>1. /\ problems \in Seq(Kinds) /\ Len(problems) \in Nat /\ Len(problems) < MaxProblems
        /\ problems' = Append(problems, kind) /\ open' = open \cup {Len(problems) + 1}
        /\ UNCHANGED <<orphaned, files, run, tickets, ledger, edits, faults>>
    BY <1>1 DEF OpenProblem, TypeOK
  <2>2. /\ problems' \in Seq(Kinds) /\ Len(problems') = Len(problems) + 1
        /\ \A e \in 1..Len(problems) : problems'[e] = problems[e]
    BY <2>1
  <2>3. 1..Len(problems) \subseteq 1..Len(problems') /\ Len(problems) + 1 \in 1..Len(problems')
        /\ Len(problems') <= MaxProblems
    BY <2>1, <2>2, BoundFacts
  <2>4. /\ open' \subseteq 1..Len(problems') /\ orphaned' \subseteq 1..Len(problems')
        /\ run'.open \subseteq 1..Len(problems')
    BY <2>1, <2>3 DEF TypeOK
  <2>5. TypeOK' /\ FilesGiven'
    BY <2>1, <2>2, <2>3, <2>4 DEF TypeOK, FilesGiven
  <2>6. QED
    BY <2>1, <2>2, <2>5, WorldMoves
<1>2. ASSUME NEW e \in open, ResolveProblem(e) \/ OrphanProblem(e) PROVE ChainInv'
  <2>1. /\ UNCHANGED <<problems, files, run, tickets, ledger, edits, faults>>
        /\ open' \subseteq open /\ orphaned \subseteq orphaned'
        /\ orphaned' \subseteq orphaned \cup open
    BY <1>2 DEF ResolveProblem, OrphanProblem
  <2>2. TypeOK' /\ FilesGiven'
    BY <2>1 DEF TypeOK, FilesGiven
  <2>3. QED
    BY <2>1, <2>2, WorldMoves
<1>3. ASSUME NEW f \in Files, NEW d \in Documents, EditFile(f, d) PROVE ChainInv'
  <2>1. /\ UNCHANGED <<problems, open, orphaned, run, tickets, ledger, faults>>
        /\ files' = [files EXCEPT ![f] = d] /\ edits' \in 0..MaxEdits
    BY <1>3, BoundFacts DEF EditFile, zabbix, TypeOK
  <2>2. d # NotGiven
    BY CollectionAssumption
  <2>3. TypeOK'
    BY <2>1 DEF TypeOK
  <2>4. FilesGiven'
    BY <2>1, <2>2 DEF TypeOK, FilesGiven
  <2>5. QED
    BY <2>1, <2>3, <2>4, WorldMoves
<1>4. CASE UNCHANGED vars
  <2>1. UNCHANGED <<problems, open, orphaned, files, run, tickets, ledger, edits, faults>>
    BY <1>4 DEF vars
  <2>2. TypeOK' /\ FilesGiven'
    BY <2>1 DEF TypeOK, FilesGiven
  <2>3. QED
    BY <2>1, <2>2, WorldMoves
<1>5. QED
  BY <1>1, <1>2, <1>3, <1>4

-----------------------------------------------------------------------------
\* The chain starts, goes on or ends without touching tickets and ledger.
LEMMA ChainMoves ==
  ASSUME ChainInv, UNCHANGED <<problems, open, orphaned, files, tickets, ledger, edits>>,
         faults' \in 0..MaxFaults, run' \in Runs,
         run'.batch \subseteq run'.fetched, run'.fetched \subseteq run'.open,
         run'.open \subseteq 1..Len(problems)
  PROVE  Typed'
  BY DEF ChainInv, Typed, TypeOK, FilesGiven

LEMMA FaultType ==
  ASSUME Typed
  PROVE  /\ UNCHANGED faults => faults' \in 0..MaxFaults
         /\ Fault => faults' \in 0..MaxFaults
  BY BoundFacts DEF Typed, TypeOK, Fault

LEMMA GivingUp ==
  ASSUME ChainInv, UNCHANGED <<problems, open, orphaned, files, tickets, ledger, edits>>,
         faults' \in 0..MaxFaults, run' = IdleRun
  PROVE  ChainInv'
<1>1. Typed'
  BY IdleType, ChainMoves
<1>2. QED
  BY <1>1, IdleType DEF ChainInv, ListsInv, BatchInv, LeftInv

LEMMA LoadInfraKeeps ==
  ASSUME ChainInv, LoadInfra
  PROVE  ChainInv'
<1>. DEFINE list == HostList(files["infra"], InfraPaths)
<1>1. /\ list # Malformed /\ run' = [IdleRun EXCEPT !.pc = "shadow", !.infra = list]
      /\ UNCHANGED <<problems, open, orphaned, files, tickets, ledger, edits, faults>>
  BY DEF LoadInfra, zabbix
<1>2. list \subseteq Hosts
  BY <1>1, PolicyFacts, HostListType DEF ChainInv
<1>3. /\ run' \in Runs /\ run'.pc = "shadow" /\ run'.batch = {} /\ run'.fetched = {}
      /\ run'.open = {}
  BY <1>1, <1>2, IdleType DEF Runs
<1>4. Typed'
  BY <1>1, <1>3, ChainMoves, FaultType DEF ChainInv
<1>5. QED
  BY <1>3, <1>4 DEF ChainInv, ListsInv, BatchInv, LeftInv

LEMMA LoadShadowKeeps ==
  ASSUME ChainInv, LoadShadow
  PROVE  ChainInv'
<1>. DEFINE d == files[PolicyFile]
            list == HostList(d, ShadowPaths)
            shadow == IF list = Malformed THEN {} ELSE list
<1>1. UNCHANGED <<problems, open, orphaned, files, tickets, ledger, edits, faults>>
  BY DEF LoadShadow, zabbix
<1>2. d \in Documents
  BY PolicyFacts DEF ChainInv
<1>f. faults' \in 0..MaxFaults
  BY <1>1, FaultType DEF ChainInv
<1>3. CASE d = Unreadable
  BY <1>1, <1>3, <1>f, GivingUp DEF LoadShadow
<1>4. CASE d # Unreadable
  <2>1. run' = [run EXCEPT !.pc = "problems", !.policy = d, !.shadow = shadow]
    BY <1>4 DEF LoadShadow
  <2>2. shadow \subseteq Hosts
    BY <1>2, HostListType
  <2>3. DeclaredShadow(d) \subseteq shadow
    BY <1>2, <1>4, DeclaredIsRead
  <2>. HIDE DEF d, shadow
  <2>4. run \in Runs
    BY DEF ChainInv, Typed, TypeOK
  <2>5. /\ run' \in Runs /\ run'.pc = "problems" /\ run'.policy = d /\ run'.shadow = shadow
        /\ run'.batch = run.batch /\ run'.fetched = run.fetched /\ run'.open = run.open
    BY <1>2, <2>1, <2>2, <2>4 DEF Runs
  <2>6. run.batch \subseteq run.fetched /\ run.fetched \subseteq run.open
        /\ run.open \subseteq 1..Len(problems)
    BY EventFacts DEF ChainInv
  <2>7. Typed'
    BY <1>1, <1>f, <2>5, <2>6, ChainMoves
  <2>8. ListsInv'
    BY <2>3, <2>5 DEF ListsInv, DeclaredShadow, PresentShadow
  <2>9. run.pc = "shadow"
    BY DEF LoadShadow
  <2>10. QED
    BY <2>5, <2>7, <2>8, <2>9 DEF ChainInv, BatchInv, LeftInv
<1>5. QED
  BY <1>3, <1>4

\* A problem the limit cut off has enough newer ones.
LEMMA CutOff ==
  ASSUME Typed, NEW e \in Found, e \notin Newest(Found)
  PROVE  Cardinality(Newer(e)) >= Limit
<1>1. e \in EventIds
  BY EventFacts DEF Found
<1>2. Newer(e) = {f \in Found : f > e}
  BY DEF Newer, Found
<1>3. Cardinality(Newer(e)) \in Nat
  BY <1>1, NewerFacts
<1>4. ~(Cardinality({f \in Found : f > e}) < Limit)
  BY DEF Newest
<1>5. QED
  BY <1>2, <1>3, <1>4, BoundFacts

LEMMA IntervalFinite ==
  ASSUME NEW n \in Nat
  PROVE  IsFiniteSet(1..n)
<1>1. 1 \in Int /\ n \in Int
  OBVIOUS
<1>2. QED
  BY <1>1, FS_Interval

LEMMA CutOffNow ==
  ASSUME Typed', NEW e \in Found', e \notin Newest(Found')
  PROVE  Cardinality(Newer(e)') >= Limit
<1>1. /\ Len(problems') \in Nat /\ run'.open \subseteq 1..Len(problems')
  BY DEF Typed, TypeOK
<1>2. Newer(e)' = {f \in Found' : f > e} /\ Newer(e)' \in SUBSET (1..Len(problems'))
  BY <1>1 DEF Newer, Found
<1>3. IsFiniteSet(1..Len(problems'))
  BY <1>1, IntervalFinite
<1>4. Cardinality(Newer(e)') \in Nat
  BY <1>2, <1>3, FS_Subset, FS_CardinalityType
<1>5. ~(Cardinality({f \in Found' : f > e}) < Limit)
  BY DEF Newest
<1>6. QED
  BY <1>2, <1>4, <1>5, BoundFacts

LEMMA GetProblemsKeeps ==
  ASSUME ChainInv, GetProblems
  PROVE  ChainInv'
<1>. DEFINE fetched == Newest({e \in open : Selected(e)})
            pc == IF fetched = {} THEN "route" ELSE "hosts"
<1>1. run.pc = "problems" /\ UNCHANGED <<problems, open, orphaned, files, tickets, ledger, edits>>
  BY DEF GetProblems, zabbix
<1>f. faults' \in 0..MaxFaults
  BY FaultType DEF GetProblems, ChainInv
<1>2. CASE run' = IdleRun
  BY <1>1, <1>2, <1>f, GivingUp
<1>3. CASE run' = [run EXCEPT !.pc = pc, !.open = open, !.fetched = fetched]
  <2>1. /\ fetched \subseteq open /\ open \subseteq 1..Len(problems) /\ open \subseteq EventIds
        /\ run \in Runs /\ run.batch = {}
    BY <1>1, EventFacts DEF Newest, ChainInv, Typed, TypeOK, LeftInv
  <2>2. pc \in {"route", "hosts"} /\ (pc = "route" => fetched = {})
    OBVIOUS
  <2>. HIDE DEF pc, fetched
  <2>3. /\ run' \in Runs /\ run'.pc = pc /\ run'.open = open /\ run'.fetched = fetched
        /\ run'.batch = {} /\ run'.policy = run.policy /\ run'.shadow = run.shadow
    BY <1>3, <2>1, <2>2 DEF Runs
  <2>4. Typed'
    BY <1>1, <1>f, <2>1, <2>3, ChainMoves
  <2>5. Found' = {e \in open : Selected(e)}
    BY <1>1, <2>3 DEF Found, Selected
  <2>6. run'.fetched = Newest(Found')
    BY <2>3, <2>5 DEF fetched
  <2>7. ASSUME pc = "route", NEW e \in run'.open, Selected(e)'
        PROVE  Cardinality(Newer(e)') >= Limit
    <3>1. e \in Found' /\ e \notin Newest(Found')
      BY <2>2, <2>3, <2>6, <2>7 DEF Found
    <3>2. QED
      BY <2>4, <3>1, CutOffNow
  <2>8. LeftInv'
    BY <2>2, <2>3, <2>6, <2>7 DEF LeftInv
  <2>9. ListsInv'
    BY <1>1, <2>3 DEF ListsInv, ChainInv, DeclaredShadow, PresentShadow
  <2>10. BatchInv'
    BY <2>3 DEF BatchInv
  <2>11. QED
    BY <2>4, <2>8, <2>9, <2>10 DEF ChainInv
<1>4. QED
  BY <1>2, <1>3 DEF GetProblems

LEMMA GetHostsKeeps ==
  ASSUME ChainInv, GetHosts
  PROVE  ChainInv'
<1>. DEFINE batch == {e \in run.fetched : LiveCandidate(HostOf(e), problems[e].matches,
                                                         run.infra, run.shadow)}
<1>1. run.pc = "hosts" /\ UNCHANGED <<problems, open, orphaned, files, tickets, ledger, edits>>
  BY DEF GetHosts, zabbix
<1>f. faults' \in 0..MaxFaults
  BY FaultType DEF GetHosts, ChainInv
<1>2. CASE run' = IdleRun
  BY <1>1, <1>2, <1>f, GivingUp
<1>3. CASE run' = [run EXCEPT !.pc = "route", !.batch = batch]
  <2>1. /\ run \in Runs /\ run.fetched = Newest(Found) /\ run.fetched \subseteq EventIds
        /\ run.fetched \subseteq run.open /\ run.open \subseteq 1..Len(problems)
    BY <1>1, EventFacts DEF ChainInv, Typed, TypeOK, LeftInv
  <2>2. batch \subseteq run.fetched
    OBVIOUS
  <2>. HIDE DEF batch
  <2>3. /\ run' \in Runs /\ run'.pc = "route" /\ run'.open = run.open
        /\ run'.fetched = run.fetched /\ run'.batch = batch /\ run'.policy = run.policy
        /\ run'.shadow = run.shadow /\ run'.infra = run.infra
    BY <1>3, <2>1, <2>2 DEF Runs
  <2>4. Typed'
    BY <1>1, <1>f, <2>1, <2>2, <2>3, ChainMoves
  <2>5. \A e \in EventIds : /\ (Selected(e)' <=> Selected(e)) /\ (Routable(e)' <=> Routable(e))
                            /\ Newer(e)' = Newer(e)
    BY <1>1, <2>3 DEF Selected, Routable, Newer
  <2>6. ASSUME NEW e \in batch
        PROVE  /\ Selected(e) /\ problems[e].host \in run.infra
               /\ "host_unavailable" \in problems[e].matches => problems[e].host \notin run.shadow
    <3>1. e \in Found
      BY <2>1, <2>2 DEF Newest
    <3>2. LiveCandidate(HostOf(e), problems[e].matches, run.infra, run.shadow)
      BY DEF batch
    <3>3. /\ HostOf(e) \in run.infra
          /\ "host_unavailable" \in problems[e].matches => HostOf(e) \notin run.shadow
      BY <3>2, LiveFacts
    <3>4. run.infra \subseteq Hosts /\ Unknown \notin Hosts
      BY <2>1, CollectionAssumption DEF Runs
    <3>5. HostOf(e) = problems[e].host
      BY <3>3, <3>4 DEF HostOf, TriggerHosts
    <3>6. QED
      BY <3>1, <3>3, <3>5 DEF Found
  <2>7. BatchInv'
    BY <1>1, <2>3, <2>6 DEF BatchInv, Selected
  <2>8. ASSUME NEW e \in run.open \ orphaned, Selected(e), Routable(e)
        PROVE  e \in batch \/ Cardinality(Newer(e)) >= Limit
    <3>1. CASE e \in run.fetched
      <4>1. HostOf(e) = problems[e].host
        BY <2>8 DEF HostOf, TriggerHosts
      <4>2. LiveCandidate(HostOf(e), problems[e].matches, run.infra, run.shadow)
        BY <2>8, <4>1 DEF Routable
      <4>3. QED
        BY <3>1, <4>2 DEF batch
    <3>2. CASE e \notin run.fetched
      BY <2>1, <2>8, <3>2, CutOff DEF Found, ChainInv
    <3>3. QED
      BY <3>1, <3>2
  <2>9. ASSUME NEW e \in run'.open \ orphaned', Selected(e)', Routable(e)'
        PROVE  e \in run'.batch \/ Cardinality(Newer(e)') >= Limit
    <3>1. e \in EventIds /\ e \in run.open \ orphaned
      BY <1>1, <2>1, <2>3, EventFacts DEF ChainInv
    <3>2. QED
      BY <2>3, <2>5, <2>8, <2>9, <3>1
  <2>10. LeftInv'
    BY <2>3, <2>9 DEF LeftInv
  <2>11. ListsInv'
    BY <1>1, <2>3 DEF ListsInv, ChainInv, DeclaredShadow, PresentShadow
  <2>12. QED
    BY <2>4, <2>7, <2>10, <2>11 DEF ChainInv
<1>4. QED
  BY <1>2, <1>3 DEF GetHosts, LiveCandidates

-----------------------------------------------------------------------------
\* What a ticket and an entry do to the ledger.
LEMMA IssueFacts ==
  ASSUME ChainInv, RouteEvent, ledger[Current] = 0
  PROVE  /\ run.pc = "route" /\ run.batch # {}
         /\ run' = [run EXCEPT !.pc = "list"]
         /\ tickets' = Append(tickets, Current) /\ ledger' = ledger
         /\ tickets' \in Seq(EventIds) /\ Len(tickets') > 0 /\ tickets'[Len(tickets')] = Current
         /\ Current \in run.batch /\ Current \in run.open
<1>1. /\ run.pc = "route" /\ run.batch # {} /\ run' = [run EXCEPT !.pc = "list"]
      /\ tickets' = Append(tickets, Current) /\ ledger' = ledger
  BY DEF RouteEvent, Ledger!Issue
<1>2. Current \in run.batch /\ Current \in EventIds /\ Current \in run.open
  BY <1>1, CurrentFacts, EventFacts DEF ChainInv
<1>3. tickets \in Seq(EventIds)
  BY DEF ChainInv, Typed, TypeOK
<1>4. /\ tickets' \in Seq(EventIds) /\ Len(tickets') = Len(tickets) + 1 /\ Len(tickets) \in Nat
      /\ tickets'[Len(tickets) + 1] = Current
  BY <1>1, <1>2, <1>3
<1>5. QED
  BY <1>1, <1>2, <1>4

\* The chain goes on with a batch from which only listed events are gone.
LEMMA RoutingMoves ==
  ASSUME ChainInv, UNCHANGED <<problems, open, orphaned, files, edits>>,
         faults' \in 0..MaxFaults, run.pc \in {"route", "list"}, run' \in Runs,
         run'.open = run.open, run'.fetched = run.fetched, run'.infra = run.infra,
         run'.shadow = run.shadow, run'.policy = run.policy,
         run'.batch \subseteq run.batch,
         tickets' \in Seq(EventIds), ledger' \in [EventIds -> Nat],
         \A e \in EventIds : ledger'[e] = 0 => ledger[e] = 0,
         \A e \in run.batch \ run'.batch : ledger'[e] # 0,
         run'.pc \in {"route", "list"},
         run'.pc = "list" => run'.batch # {} /\ Len(tickets') > 0
  PROVE  ChainInv'
<1>1. /\ run.open \subseteq 1..Len(problems) /\ run.batch \subseteq run.fetched
      /\ run.fetched \subseteq run.open /\ run.open \subseteq EventIds
  BY EventFacts DEF ChainInv
<1>2. Typed'
  BY <1>1 DEF ChainInv, Typed, TypeOK, FilesGiven
<1>3. \A e \in EventIds : /\ (Selected(e)' <=> Selected(e)) /\ (Routable(e)' <=> Routable(e))
                          /\ Newer(e)' = Newer(e)
  BY DEF Selected, Routable, Newer
<1>4. ListsInv'
  BY DEF ListsInv, ChainInv
<1>5. BatchInv'
  BY DEF BatchInv, ChainInv, Selected
<1>6. ASSUME NEW e \in run'.open \ orphaned', Selected(e)', Routable(e)', ledger'[e] = 0
      PROVE  e \in run'.batch \/ Cardinality(Newer(e)') >= Limit
  <2>1. e \in EventIds /\ e \in run.open \ orphaned
    BY <1>1
  <2>2. Selected(e) /\ Routable(e) /\ ledger[e] = 0
    BY <1>3, <1>6, <2>1
  <2>3. e \in run.batch \/ Cardinality(Newer(e)) >= Limit
    BY <2>1, <2>2 DEF ChainInv, LeftInv
  <2>4. QED
    BY <1>3, <1>6, <2>1, <2>3
<1>7. LeftInv'
  BY <1>6 DEF LeftInv
<1>8. QED
  BY <1>2, <1>4, <1>5, <1>7 DEF ChainInv

LEMMA RouteEventKeeps ==
  ASSUME ChainInv, RouteEvent
  PROVE  ChainInv'
<1>1. /\ run.pc = "route" /\ run.batch # {}
      /\ UNCHANGED <<problems, open, orphaned, files, edits, faults>>
  BY DEF RouteEvent, zabbix
<1>2. /\ run \in Runs /\ tickets \in Seq(EventIds) /\ ledger \in [EventIds -> Nat]
      /\ faults' \in 0..MaxFaults
  BY <1>1 DEF ChainInv, Typed, TypeOK
<1>3. Current \in run.batch
  BY <1>1, CurrentFacts DEF ChainInv
<1>4. CASE ledger[Current] # 0
  <2>1. run' = [run EXCEPT !.batch = @ \ {Current}] /\ UNCHANGED <<tickets, ledger>>
    BY <1>4 DEF RouteEvent
  <2>2. /\ run' \in Runs /\ run'.pc = "route" /\ run'.batch = run.batch \ {Current}
        /\ run'.open = run.open /\ run'.fetched = run.fetched /\ run'.infra = run.infra
        /\ run'.shadow = run.shadow /\ run'.policy = run.policy
    BY <1>1, <1>2, <2>1 DEF Runs
  <2>3. QED
    BY <1>1, <1>2, <1>4, <2>1, <2>2, RoutingMoves
<1>5. CASE ledger[Current] = 0
  <2>1. /\ run' = [run EXCEPT !.pc = "list"] /\ tickets' \in Seq(EventIds)
        /\ Len(tickets') > 0 /\ ledger' = ledger
    BY <1>5, IssueFacts
  <2>2. /\ run' \in Runs /\ run'.pc = "list" /\ run'.batch = run.batch
        /\ run'.open = run.open /\ run'.fetched = run.fetched /\ run'.infra = run.infra
        /\ run'.shadow = run.shadow /\ run'.policy = run.policy
    BY <1>1, <1>2, <2>1 DEF Runs
  <2>3. QED
    BY <1>1, <1>2, <2>1, <2>2, RoutingMoves
<1>6. QED
  BY <1>4, <1>5

LEMMA ListTicketKeeps ==
  ASSUME ChainInv, ListTicket
  PROVE  ChainInv'
<1>1. /\ run.pc = "list" /\ run' = [run EXCEPT !.pc = "route", !.batch = @ \ {Current}]
      /\ ledger' = [ledger EXCEPT ![Current] = Len(tickets)] /\ tickets' = tickets
      /\ UNCHANGED <<problems, open, orphaned, files, edits, faults>>
  BY DEF ListTicket, Ledger!List, zabbix
<1>2. /\ run \in Runs /\ tickets \in Seq(EventIds) /\ ledger \in [EventIds -> Nat]
      /\ faults' \in 0..MaxFaults
  BY <1>1 DEF ChainInv, Typed, TypeOK
<1>3. run.batch # {} /\ Len(tickets) > 0 /\ Len(tickets) \in Nat
  BY <1>1, <1>2 DEF ChainInv, LeftInv
<1>4. Current \in run.batch /\ Current \in EventIds
  BY <1>3, CurrentFacts DEF ChainInv
<1>5. /\ ledger' \in [EventIds -> Nat] /\ ledger'[Current] # 0
      /\ \A e \in EventIds : ledger'[e] = 0 => ledger[e] = 0
  BY <1>1, <1>2, <1>3, <1>4
<1>6. /\ run' \in Runs /\ run'.pc = "route" /\ run'.batch = run.batch \ {Current}
      /\ run'.open = run.open /\ run'.fetched = run.fetched /\ run'.infra = run.infra
      /\ run'.shadow = run.shadow /\ run'.policy = run.policy
  BY <1>1, <1>2 DEF Runs
<1>7. \A e \in run.batch \ run'.batch : ledger'[e] # 0
  BY <1>5, <1>6
<1>8. QED
  BY <1>1, <1>2, <1>5, <1>6, <1>7, RoutingMoves

LEMMA EndKeeps ==
  ASSUME ChainInv, RoutingFails \/ FinishRun
  PROVE  ChainInv'
<1>1. run' = IdleRun /\ UNCHANGED <<problems, open, orphaned, files, tickets, ledger, edits>>
  BY DEF RoutingFails, FinishRun, zabbix
<1>2. faults' \in 0..MaxFaults
  BY FaultType DEF RoutingFails, FinishRun, ChainInv
<1>3. QED
  BY <1>1, <1>2, GivingUp

LEMMA ChainStepKeeps == ChainInv /\ [Next]_vars => ChainInv'
<1>. SUFFICES ASSUME ChainInv, [Next]_vars PROVE ChainInv'
  OBVIOUS
<1>1. CASE ChainStep
  BY <1>1, LoadInfraKeeps, LoadShadowKeeps, GetProblemsKeeps, GetHostsKeeps, RouteEventKeeps,
     ListTicketKeeps, EndKeeps DEF ChainStep
<1>2. QED
  BY <1>1, WorldKeeps DEF Next

LEMMA ChainAlways == Spec => []ChainInv
  BY ChainInit, ChainStepKeeps, PTL DEF Spec

\* Every variable keeps its type, whatever Zabbix, the operator and failing requests do.
THEOREM TypeCorrect == Spec => []TypeOK
<1>1. ChainInv => TypeOK
  BY DEF ChainInv, Typed
<1>2. QED
  BY <1>1, ChainAlways, PTL

\* For every limit, document and history of problems: a chain that gets to its end has
\* left out only what was lost, listed before, or crowded out by Limit newer problems.
THEOREM LeftOutOnlyByLimit == Spec => []NothingElseLeftOut
<1>1. ChainInv => NothingElseLeftOut
  BY DEF ChainInv, LeftInv, NothingElseLeftOut, Newer
<1>2. QED
  BY <1>1, ChainAlways, PTL

\* For every set of documents and kinds of problem: a ticket is opened only for a problem
\* that the lists the chain read let through, never for a shadow-only host's absence.
THEOREM TicketsAreWarranted == Spec => TicketsWarranted
<1>. DEFINE Warranted(e) ==
       tickets' # tickets /\ tickets'[Len(tickets')] = e =>
         /\ e \in run.open
         /\ problems[e].severity >= MinSeverity /\ ~problems[e].suppressed
         /\ problems[e].host \in run.infra
         /\ "host_unavailable" \in problems[e].matches =>
              problems[e].host \notin DeclaredShadow(run.policy)
<1>1. ASSUME ChainInv, [Next]_vars, NEW e \in EventIds PROVE Warranted(e)
  <2>1. CASE RouteEvent /\ ledger[Current] = 0
    <3> SUFFICES ASSUME tickets'[Len(tickets')] = e PROVE Warranted(e)
      OBVIOUS
    <3>1. e = Current /\ e \in run.batch /\ e \in run.open /\ run.pc = "route"
      BY <1>1, <2>1, IssueFacts
    <3>2. /\ Selected(e) /\ problems[e].host \in run.infra
          /\ "host_unavailable" \in problems[e].matches => problems[e].host \notin run.shadow
      BY <1>1, <3>1 DEF ChainInv, BatchInv
    <3>3. DeclaredShadow(run.policy) \subseteq run.shadow
      BY <1>1, <3>1 DEF ChainInv, ListsInv
    <3>4. QED
      BY <3>1, <3>2, <3>3 DEF Selected
  <2>2. ASSUME UNCHANGED tickets PROVE Warranted(e)
    BY <2>2
  <2>3. ~(RouteEvent /\ ledger[Current] = 0) => UNCHANGED tickets
    BY <1>1 DEF Next, OpenProblem, ResolveProblem, OrphanProblem, EditFile, ChainStep,
                LoadInfra, LoadShadow, GetProblems, GetHosts, RouteEvent, ListTicket,
                Ledger!List, RoutingFails, FinishRun, vars
  <2>4. QED
    BY <2>1, <2>2, <2>3
<1>. HIDE DEF Warranted
<1>2. ChainInv /\ [Next]_vars => [\A e \in EventIds : Warranted(e)]_vars
  BY <1>1
<1>3. [][\A e \in EventIds : Warranted(e)]_vars => TicketsWarranted
  BY PTL DEF TicketsWarranted, Warranted
<1>4. QED
  BY <1>2, <1>3, ChainAlways, PTL DEF Spec

-----------------------------------------------------------------------------
(***************************************************************************)
(* The routing run within the chain.                                       *)
(***************************************************************************)
\* The chain takes its routing run from TicketLedger, whose guards could hold it up
\* where the script would go on.  They never do: a run that has opened a ticket can
\* always list it, under the event it was opened for (create_ticket, mark).
CanList == run.pc = "list" =>
             /\ Current \in EventIds /\ Len(tickets) > 0
             /\ tickets[Len(tickets)] = Current /\ ledger[Current] = 0

THEOREM ListingIsNeverHeldUp == Spec => []CanList
<1>1. Init => CanList
  BY DEF Init, CanList, IdleRun
<1>2. ChainInv /\ CanList /\ [Next]_vars => CanList'
  <2> SUFFICES ASSUME ChainInv, CanList, [Next]_vars, run'.pc = "list" PROVE CanList'
    BY DEF CanList
  <2>1. run \in Runs /\ IdleRun.pc # "list"
    BY IdleType DEF ChainInv, Typed, TypeOK
  <2>2. CASE UNCHANGED <<run, tickets, ledger>>
    BY <2>2 DEF CanList, Current
  <2>3. CASE RouteEvent /\ ledger[Current] = 0
    <3>1. run'.batch = run.batch
      BY <2>1, <2>3, IssueFacts DEF Runs
    <3>2. Current' = Current
      BY <3>1 DEF Current
    <3>3. /\ Current \in EventIds /\ Len(tickets') > 0 /\ ledger' = ledger
          /\ tickets'[Len(tickets')] = Current
      BY <2>3, IssueFacts, CurrentFacts DEF ChainInv
    <3>4. QED
      BY <2>3, <3>2, <3>3 DEF CanList
  <2>4. CASE ChainStep /\ ~(RouteEvent /\ ledger[Current] = 0)
    BY <2>1, <2>4 DEF ChainStep, LoadInfra, LoadShadow, GetProblems, GetHosts, RouteEvent,
                      ListTicket, RoutingFails, FinishRun, Runs, IdleRun
  <2>5. CASE ~ChainStep
    BY <2>2, <2>5 DEF Next, OpenProblem, ResolveProblem, OrphanProblem, EditFile, vars
  <2>6. QED
    BY <2>3, <2>4, <2>5
<1>3. QED
  BY <1>1, <1>2, ChainAlways, PTL DEF Spec

\* Collector and routing run together still behave as the ledger says, whatever Zabbix,
\* the operator and failing requests do: what AlertRouting implements for itself is
\* what the chain as a whole does.
THEOREM ChainImplementsLedger == Spec => Ledger!Spec
<1>1. Init => Ledger!Init
  BY DEF Init
<1>2. ChainInv /\ [Next]_vars => [Ledger!Next]_<<tickets, ledger>>
  <2> SUFFICES ASSUME ChainInv, [Next]_vars, ~UNCHANGED <<tickets, ledger>>
               PROVE  Ledger!Next
    OBVIOUS
  <2>1. CASE RouteEvent
    <3>1. ledger[Current] = 0 /\ Ledger!Issue(Current)
      BY <2>1 DEF RouteEvent
    <3>2. Current \in EventIds
      BY <2>1, <3>1, IssueFacts, CurrentFacts DEF ChainInv
    <3>3. QED
      BY <3>1, <3>2 DEF Ledger!Next
  <2>2. CASE ListTicket
    <3>1. Ledger!List(Current, Len(tickets)) /\ run.pc = "list"
      BY <2>2 DEF ListTicket
    <3>2. run.batch # {}
      BY <3>1 DEF ChainInv, LeftInv
    <3>3. Current \in EventIds
      BY <3>2, CurrentFacts DEF ChainInv
    <3>4. Len(tickets) \in 1..Len(tickets)
      BY <3>1 DEF Ledger!List
    <3>5. QED
      BY <3>1, <3>3, <3>4 DEF Ledger!Next
  <2>3. CASE ~(RouteEvent \/ ListTicket)
    BY <2>3 DEF Next, OpenProblem, ResolveProblem, OrphanProblem, EditFile, ChainStep, LoadInfra,
                LoadShadow, GetProblems, GetHosts, RoutingFails, FinishRun, vars
  <2>4. QED
    BY <2>1, <2>2, <2>3
<1>3. QED
  BY <1>1, <1>2, ChainAlways, PTL DEF Spec, Ledger!Spec
=============================================================================
