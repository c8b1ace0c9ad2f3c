------------------------- MODULE AlertRoutingProofs -------------------------
(***************************************************************************)
(* Proofs about AlertRouting for every number of runs, events and faults.  *)
(***************************************************************************)
EXTENDS AlertRouting, FiniteSetTheorems, TLAPS

\* What a run's local state satisfies: its type, its place in the batch, and that
\* it is still at an event while it opens and records that event's ticket.
LocalOK(v) == /\ v \in Runs
              /\ v.pos \in 1..Len(v.batch) + 1
              /\ v.pc \in {"post", "kill", "mark", "write", "replace"} => v.pos <= Len(v.batch)
              /\ v.pc = "write" => v.fd \in Inodes

\* TypeOK without the runs.
SharedOK == /\ stateInode \in Inodes \cup {NoInode}
            /\ tmpInode \in Inodes \cup {NoInode}
            /\ disk \in [Inodes -> Contents]
            /\ tickets \in Seq(Keys)
            /\ openSessions \in Int
            /\ faults \in 0..MaxFaults
            /\ failedPosts \in Nat

TypeInv == /\ TypeOK
           /\ \A r \in Runners : LocalOK(run[r])

-----------------------------------------------------------------------------
LEMMA IdlePhase == IdleRun.pc = "idle"
  BY DEF IdleRun

LEMMA IdleType == LocalOK(IdleRun)
  BY DEF LocalOK, IdleRun, Runs, Phases, NoRecords, RoutedMaps

\* The key of the event a run works on is a dedupe key.
LEMMA KeyType ==
  ASSUME TypeInv, NEW r \in Runners, Pending(r)
  PROVE  Key(r) \in Keys
  BY ConstantsAssumption DEF TypeInv, TypeOK, LocalOK, Runs, Pending, Key

LEMMA FaultType ==
  ASSUME SharedOK, NEW kind, Fault(kind)
  PROVE  faults' \in 0..MaxFaults
  BY ConstantsAssumption DEF SharedOK, Fault

\* A step of one run keeps the types when it keeps the shared state's and leaves
\* that run in a proper local state.
LEMMA LocalStep ==
  ASSUME TypeInv, SharedOK', NEW r \in Runners, NEW v, LocalOK(v), Update(r, v)
  PROVE  TypeInv'
  BY DEF TypeInv, TypeOK, SharedOK, LocalOK, Update

\* The local state after each kind of step satisfies LocalOK.
LEMMA LocalMoves ==
  ASSUME NEW v, LocalOK(v), v.pos <= Len(v.batch)
  PROVE  /\ \A p \in Phases \ {"write"} : LocalOK([v EXCEPT !.pc = p])
         /\ LocalOK([v EXCEPT !.pc = "loop", !.pos = @ + 1, !.ticket = 0])
         /\ \A id \in Nat : LocalOK([v EXCEPT !.pc = "kill", !.ticket = id])
         /\ \A i \in Inodes, m \in RoutedMaps :
              LocalOK([v EXCEPT !.pc = "write", !.fd = i, !.routed = m])
         /\ LocalOK([v EXCEPT !.pc = "replace", !.fd = NoInode])
<1> USE DEF LocalOK
<1>0. v \in Runs /\ Len(v.batch) \in Nat /\ v.pos \in Nat
  BY DEF Runs
<1>1. ASSUME NEW p \in Phases \ {"write"} PROVE LocalOK([v EXCEPT !.pc = p])
  BY <1>0 DEF Runs, Phases
<1>2. LocalOK([v EXCEPT !.pc = "loop", !.pos = @ + 1, !.ticket = 0])
  <2> DEFINE next == v.pos + 1
  <2>1. next \in Nat /\ next \in 1..Len(v.batch) + 1
    BY <1>0
  <2> HIDE DEF next
  <2>2. LocalOK([v EXCEPT !.pc = "loop", !.pos = next, !.ticket = 0])
    BY <1>0, <2>1 DEF Runs, Phases
  <2>3. QED
    BY <2>2 DEF next
<1>3. ASSUME NEW id \in Nat PROVE LocalOK([v EXCEPT !.pc = "kill", !.ticket = id])
  BY <1>0 DEF Runs, Phases
<1>4. ASSUME NEW i \in Inodes, NEW m \in RoutedMaps
      PROVE  LocalOK([v EXCEPT !.pc = "write", !.fd = i, !.routed = m])
  BY <1>0 DEF Runs, Phases
<1>5. LocalOK([v EXCEPT !.pc = "replace", !.fd = NoInode])
  BY <1>0 DEF Runs, Phases
<1>6. QED
  BY <1>1, <1>2, <1>3, <1>4, <1>5

LEMMA TypeInit == Init => TypeInv
  BY ConstantsAssumption, IdleType
  DEF Init, TypeInv, TypeOK, LocalOK, Contents

LEMMA TypeStep == TypeInv /\ [Next]_vars => TypeInv'
<1> SUFFICES ASSUME TypeInv, [Next]_vars PROVE TypeInv'
  OBVIOUS
<1>0. SharedOK /\ \A s \in Runners : LocalOK(run[s])
  BY DEF TypeInv, TypeOK, SharedOK
<1>1. ASSUME NEW r \in Runners, NEW b \in Batches, NEW d \in BOOLEAN, StartRun(r, b, d)
      PROVE  TypeInv'
  <2> DEFINE v == Started(b, d, StateRecords)
  <2>1. LocalOK(v)
    <3>1. b \in Seq(Events) /\ Len(b) \in Nat /\ StateRecords \in RoutedMaps
      BY <1>1, ConstantsAssumption DEF StartRun, StateReadable
    <3>2. QED
      BY <3>1 DEF LocalOK, Runs, Phases, Started
  <2>2. Update(r, v) /\ SharedOK'
    BY <1>0, <1>1 DEF StartRun, SharedOK, files, glpi
  <2> HIDE DEF v
  <2>3. QED
    BY <2>1, <2>2, LocalStep
<1>2. ASSUME NEW r \in Runners, SkipEvent(r)
      PROVE  TypeInv'
  <2>1. SharedOK'
    BY <1>0, <1>2 DEF SkipEvent, SharedOK, files, glpi
  <2>2. QED
    BY <1>0, <1>2, <2>1, LocalStep, LocalMoves DEF SkipEvent, NextEvent, Pending
<1>3. ASSUME NEW r \in Runners, InitSession(r)
      PROVE  TypeInv'
  <2>1. SharedOK'
    BY <1>0, <1>3, FaultType DEF InitSession, SharedOK, files
  <2>2. CASE Goto(r, "post")
    BY <1>0, <1>3, <2>1, <2>2, LocalStep, LocalMoves DEF InitSession, Goto, Phases, Pending
  <2>3. CASE EndRun(r)
    BY <2>1, <2>3, LocalStep, IdleType DEF EndRun
  <2>4. QED
    BY <1>3, <2>2, <2>3 DEF InitSession
<1>4. ASSUME NEW r \in Runners, PostTicket(r)
      PROVE  TypeInv'
  <2>0. run[r].pos <= Len(run[r].batch) /\ Key(r) \in Keys
    BY <1>0, <1>4, KeyType DEF PostTicket, LocalOK, Pending
  <2>1. Append(tickets, Key(r)) \in Seq(Keys) /\ Len(tickets) + 1 \in Nat
    BY <1>0, <2>0 DEF SharedOK
  <2>2. tickets' \in {tickets, Append(tickets, Key(r))}
    BY <1>4 DEF PostTicket
  <2>3. SharedOK'
    <3>1. tickets' \in Seq(Keys)
      BY <1>0, <2>1, <2>2 DEF SharedOK
    <3>2. failedPosts' \in Nat /\ faults' \in 0..MaxFaults
      BY <1>0, <1>4, FaultType DEF PostTicket, SharedOK
    <3>3. QED
      BY <1>0, <1>4, <3>1, <3>2 DEF PostTicket, SharedOK, files
  <2>4. CASE Update(r, [run[r] EXCEPT !.pc = "kill", !.ticket = Len(tickets) + 1])
    BY <1>0, <2>0, <2>1, <2>3, <2>4, LocalStep, LocalMoves
  <2>5. CASE Goto(r, "kill")
    BY <1>0, <2>0, <2>3, <2>5, LocalStep, LocalMoves DEF Goto, Phases
  <2>6. QED
    BY <1>4, <2>4, <2>5 DEF PostTicket
<1>5. ASSUME NEW r \in Runners, KillSession(r)
      PROVE  TypeInv'
  <2>0. run[r].pos <= Len(run[r].batch)
    BY <1>0, <1>5 DEF KillSession, LocalOK
  <2>1. SharedOK'
    BY <1>0, <1>5, FaultType DEF KillSession, SharedOK, files
  <2>2. CASE Goto(r, "mark")
    BY <1>0, <2>0, <2>1, <2>2, LocalStep, LocalMoves DEF Goto, Phases
  <2>3. CASE EndRun(r)
    BY <2>1, <2>3, LocalStep, IdleType DEF EndRun
  <2>4. QED
    BY <1>5, <2>2, <2>3 DEF KillSession, LeaveCreateTicket
<1>6. ASSUME NEW r \in Runners, MarkOpen(r)
      PROVE  TypeInv'
  <2>0. run[r].pos <= Len(run[r].batch) /\ Key(r) \in Keys
    BY <1>0, <1>6, KeyType DEF MarkOpen, LocalOK, Pending
  <2> DEFINE m == [run[r].routed EXCEPT ![Key(r)] = run[r].ticket]
  <2>1. m \in RoutedMaps
    BY <1>0 DEF LocalOK, Runs, RoutedMaps
  <2>2. PICK i \in Inodes : /\ tmpInode' = i
                            /\ disk' = [disk EXCEPT ![i] = Empty]
                            /\ Update(r, [run[r] EXCEPT !.pc = "write", !.fd = i, !.routed = m])
    BY <1>0, <1>6 DEF MarkOpen, FreeInodes, SharedOK
  <2>3. SharedOK'
    BY <1>0, <1>6, <2>2 DEF MarkOpen, SharedOK, Contents, glpi
  <2> HIDE DEF m
  <2>4. QED
    BY <1>0, <2>0, <2>1, <2>2, <2>3, LocalStep, LocalMoves
<1>7. ASSUME NEW r \in Runners, WriteTmp(r)
      PROVE  TypeInv'
  <2>0. run[r].pos <= Len(run[r].batch)
    BY <1>0, <1>7 DEF WriteTmp, LocalOK
  <2>1. SharedOK'
    BY <1>0, <1>7 DEF WriteTmp, Overlaid, SharedOK, LocalOK, Runs, Contents, glpi
  <2>2. QED
    BY <1>0, <1>7, <2>0, <2>1, LocalStep, LocalMoves DEF WriteTmp
<1>8. ASSUME NEW r \in Runners, ReplaceState(r)
      PROVE  TypeInv'
  <2>0. run[r].pos <= Len(run[r].batch)
    BY <1>0, <1>8 DEF ReplaceState, LocalOK
  <2>1. SharedOK'
    BY <1>0, <1>8 DEF ReplaceState, SharedOK, glpi
  <2>2. CASE NextEvent(r)
    BY <1>0, <2>0, <2>1, <2>2, LocalStep, LocalMoves DEF NextEvent
  <2>3. CASE EndRun(r)
    BY <2>1, <2>3, LocalStep, IdleType DEF EndRun
  <2>4. QED
    BY <1>8, <2>2, <2>3 DEF ReplaceState
<1>9. ASSUME NEW r \in Runners, FinishRun(r) \/ Crash(r)
      PROVE  TypeInv'
  <2>1. SharedOK' /\ EndRun(r)
    BY <1>0, <1>9, FaultType DEF FinishRun, Crash, SharedOK, files, glpi
  <2>2. QED
    BY <2>1, LocalStep, IdleType DEF EndRun
<1>10. CASE UNCHANGED vars
  BY <1>10 DEF vars, TypeInv, TypeOK
<1>11. QED
  BY <1>1, <1>2, <1>3, <1>4, <1>5, <1>6, <1>7, <1>8, <1>9, <1>10 DEF Next, RunStep

\* Every reachable state is well typed, for every instance.
THEOREM TypeCorrect == Spec => []TypeOK
<1>1. Spec => []TypeInv
  BY TypeInit, TypeStep, PTL DEF Spec
<1>2. TypeInv => TypeOK
  BY DEF TypeInv
<1>3. QED
  BY <1>1, <1>2, PTL

-----------------------------------------------------------------------------
(***************************************************************************)
(* Recorded tickets exist, however many runs overlap.                      *)
(***************************************************************************)

\* A run's map is genuine and the ticket it holds was opened for its event.
LocalGenuine(v, issued) ==
  /\ Genuine(v.routed, issued)
  /\ v.ticket # 0 => /\ v.pos <= Len(v.batch)
                     /\ v.ticket \in 1..Len(issued)
                     /\ issued[v.ticket] = KeyOf[v.batch[v.pos]]

\* Every map on the disk, linked or not, and every map in memory is genuine.
GenuineInv == /\ \A i \in Inodes : disk[i] \in RoutedMaps => Genuine(disk[i], tickets)
              /\ \A r \in Runners : LocalGenuine(run[r], tickets)

\* GLPI only ever adds tickets.
Grown(old, new) == new = old \/ \E k \in Keys : new = Append(old, k)

LEMMA GenuineGrows ==
  ASSUME NEW old \in Seq(Keys), NEW new, Grown(old, new), NEW m \in RoutedMaps, Genuine(m, old)
  PROVE  Genuine(m, new)
  BY DEF Grown, Genuine, RoutedMaps

LEMMA LocalGenuineGrows ==
  ASSUME NEW old \in Seq(Keys), NEW new, Grown(old, new), NEW v \in Runs, LocalGenuine(v, old)
  PROVE  LocalGenuine(v, new)
<1>1. Genuine(v.routed, new)
  BY GenuineGrows DEF LocalGenuine, Runs
<1>2. \A n \in 1..Len(old) : n \in 1..Len(new) /\ new[n] = old[n]
  BY DEF Grown
<1>3. QED
  BY <1>1, <1>2 DEF LocalGenuine

LEMMA IdleGenuine == \A issued : LocalGenuine(IdleRun, issued)
  BY DEF LocalGenuine, Genuine, IdleRun, NoRecords

LEMMA GenuineStep ==
  ASSUME TypeInv, GenuineInv, Grown(tickets, tickets'),
         NEW r \in Runners, NEW v, Update(r, v), LocalGenuine(v, tickets'),
         \A i \in Inodes : disk'[i] \in RoutedMaps =>
           disk'[i] = disk[i] \/ Genuine(disk'[i], tickets')
  PROVE  GenuineInv'
<1>1. \A i \in Inodes : disk'[i] \in RoutedMaps => Genuine(disk'[i], tickets')
  BY GenuineGrows DEF GenuineInv, TypeInv, TypeOK
<1>2. ASSUME NEW s \in Runners PROVE LocalGenuine(run'[s], tickets')
  <2>1. LocalGenuine(run[s], tickets')
    BY LocalGenuineGrows DEF GenuineInv, TypeInv, TypeOK
  <2>2. run'[s] = IF s = r THEN v ELSE run[s]
    BY DEF Update, TypeInv, TypeOK
  <2>3. QED
    BY <2>1, <2>2
<1>3. QED
  BY <1>1, <1>2 DEF GenuineInv

LEMMA GenuineInduction == TypeInv /\ GenuineInv /\ [Next]_vars => GenuineInv'
<1> SUFFICES ASSUME TypeInv, GenuineInv, [Next]_vars PROVE GenuineInv'
  OBVIOUS
<1>0. SharedOK /\ \A s \in Runners : LocalOK(run[s]) /\ LocalGenuine(run[s], tickets)
  BY DEF TypeInv, TypeOK, SharedOK, GenuineInv
<1>00. Grown(tickets, tickets)
  BY DEF Grown
<1>1. ASSUME NEW r \in Runners, NEW b \in Batches, NEW d \in BOOLEAN, StartRun(r, b, d)
      PROVE  GenuineInv'
  <2>1. Genuine(StateRecords, tickets)
    <3>1. CASE stateInode = NoInode
      BY <3>1 DEF StateRecords, NoRecords, Genuine
    <3>2. CASE stateInode # NoInode
      BY <1>0, <1>1, <3>2 DEF StartRun, StateReadable, StateRecords, GenuineInv, SharedOK
    <3>3. QED
      BY <3>1, <3>2
  <2>2. LocalGenuine(Started(b, d, StateRecords), tickets)
    BY <2>1 DEF LocalGenuine, Started
  <2>3. QED
    BY <1>00, <1>1, <2>2, GenuineStep DEF StartRun, files, glpi
<1>2. ASSUME NEW r \in Runners, SkipEvent(r)
      PROVE  GenuineInv'
  <2>1. LocalGenuine([run[r] EXCEPT !.pc = "loop", !.pos = @ + 1, !.ticket = 0], tickets)
    BY <1>0 DEF LocalGenuine, LocalOK, Runs
  <2>2. QED
    BY <1>00, <1>2, <2>1, GenuineStep DEF SkipEvent, NextEvent, files, glpi
<1>3. ASSUME NEW r \in Runners, InitSession(r)
      PROVE  GenuineInv'
  <2>1. LocalGenuine([run[r] EXCEPT !.pc = "post"], tickets)
    BY <1>0 DEF LocalGenuine, LocalOK, Runs
  <2>2. QED
    BY <1>00, <1>3, <2>1, IdleGenuine, GenuineStep DEF InitSession, Goto, EndRun, files
<1>4. ASSUME NEW r \in Runners, PostTicket(r)
      PROVE  GenuineInv'
  <2>0. run[r].pos <= Len(run[r].batch) /\ Key(r) \in Keys
    BY <1>0, <1>4, KeyType DEF PostTicket, LocalOK, Pending
  <2>1. Grown(tickets, tickets')
    BY <1>4, <2>0 DEF PostTicket, Grown
  <2>2. LocalGenuine(run[r], tickets')
    BY <1>0, <2>1, LocalGenuineGrows DEF SharedOK, LocalOK
  <2>3. CASE /\ tickets' = Append(tickets, Key(r))
             /\ Update(r, [run[r] EXCEPT !.pc = "kill", !.ticket = Len(tickets) + 1])
    <3> DEFINE id == Len(tickets) + 1
    <3>1. id \in 1..Len(tickets') /\ tickets'[id] = Key(r)
      BY <1>0, <2>0, <2>3 DEF SharedOK
    <3> HIDE DEF id
    <3>2. LocalGenuine([run[r] EXCEPT !.pc = "kill", !.ticket = id], tickets')
      BY <1>0, <2>0, <2>2, <3>1 DEF LocalGenuine, LocalOK, Runs, Key
    <3>3. Update(r, [run[r] EXCEPT !.pc = "kill", !.ticket = id])
      BY <2>3 DEF id
    <3>4. QED
      BY <1>4, <2>1, <3>2, <3>3, GenuineStep DEF PostTicket, files
  <2>4. CASE Goto(r, "kill")
    <3>1. LocalGenuine([run[r] EXCEPT !.pc = "kill"], tickets')
      BY <1>0, <2>2 DEF LocalGenuine, LocalOK, Runs
    <3>2. QED
      BY <1>4, <2>1, <2>4, <3>1, GenuineStep DEF PostTicket, Goto, files
  <2>5. QED
    BY <1>4, <2>3, <2>4 DEF PostTicket
<1>5. ASSUME NEW r \in Runners, KillSession(r)
      PROVE  GenuineInv'
  <2>1. LocalGenuine([run[r] EXCEPT !.pc = "mark"], tickets)
    BY <1>0 DEF LocalGenuine, LocalOK, Runs
  <2>2. QED
    BY <1>00, <1>5, <2>1, IdleGenuine, GenuineStep
    DEF KillSession, LeaveCreateTicket, Goto, EndRun, files
<1>6. ASSUME NEW r \in Runners, MarkOpen(r)
      PROVE  GenuineInv'
  <2>0. run[r].pos <= Len(run[r].batch) /\ Key(r) \in Keys
    BY <1>0, <1>6, KeyType DEF MarkOpen, LocalOK, Pending
  <2> DEFINE m == [run[r].routed EXCEPT ![Key(r)] = run[r].ticket]
  <2>1. m \in RoutedMaps /\ Genuine(m, tickets)
    BY <1>0, <2>0 DEF LocalOK, LocalGenuine, Genuine, Runs, RoutedMaps, Key
  <2>2. PICK i \in Inodes : /\ disk' = [disk EXCEPT ![i] = Empty]
                            /\ Update(r, [run[r] EXCEPT !.pc = "write", !.fd = i, !.routed = m])
    BY <1>0, <1>6 DEF MarkOpen, FreeInodes, SharedOK
  <2>3. \A j \in Inodes : disk'[j] \in RoutedMaps => disk'[j] = disk[j]
    BY <1>0, <2>2, ConstantsAssumption DEF SharedOK, RoutedMaps
  <2> HIDE DEF m
  <2>4. LocalGenuine([run[r] EXCEPT !.pc = "write", !.fd = i, !.routed = m], tickets)
    BY <1>0, <2>1 DEF LocalGenuine, LocalOK, Runs
  <2>5. QED
    BY <1>00, <1>6, <2>2, <2>3, <2>4, GenuineStep DEF MarkOpen, glpi
<1>7. ASSUME NEW r \in Runners, WriteTmp(r)
      PROVE  GenuineInv'
  <2>1. \A j \in Inodes : disk'[j] \in {disk[j], run[r].routed, Torn}
    BY <1>0, <1>7 DEF WriteTmp, Overlaid, SharedOK
  <2>2. \A j \in Inodes : disk'[j] \in RoutedMaps =>
          disk'[j] = disk[j] \/ Genuine(disk'[j], tickets)
    BY <1>0, <2>1, ConstantsAssumption DEF LocalGenuine, RoutedMaps
  <2>3. LocalGenuine([run[r] EXCEPT !.pc = "replace", !.fd = NoInode], tickets)
    BY <1>0 DEF LocalGenuine, LocalOK, Runs
  <2>4. QED
    BY <1>00, <1>7, <2>2, <2>3, GenuineStep DEF WriteTmp, glpi
<1>8. ASSUME NEW r \in Runners, ReplaceState(r)
      PROVE  GenuineInv'
  <2>1. LocalGenuine([run[r] EXCEPT !.pc = "loop", !.pos = @ + 1, !.ticket = 0], tickets)
    BY <1>0 DEF LocalGenuine, LocalOK, Runs
  <2>2. QED
    BY <1>00, <1>8, <2>1, IdleGenuine, GenuineStep DEF ReplaceState, NextEvent, EndRun, glpi
<1>9. ASSUME NEW r \in Runners, FinishRun(r) \/ Crash(r)
      PROVE  GenuineInv'
  BY <1>00, <1>9, IdleGenuine, GenuineStep DEF FinishRun, Crash, EndRun, files, glpi
<1>10. CASE UNCHANGED vars
  BY <1>10 DEF vars, GenuineInv
<1>11. QED
  BY <1>1, <1>2, <1>3, <1>4, <1>5, <1>6, <1>7, <1>8, <1>9, <1>10 DEF Next, RunStep

\* Whatever overlaps, fails or dies, an entry of a readable state file names a
\* ticket that was opened for that source:event_id.
THEOREM RecordsAreGenuine == Spec => []RecordedTicketsExist
<1>1. Init => GenuineInv
  BY ConstantsAssumption, IdleGenuine DEF Init, GenuineInv, RoutedMaps
<1>2. TypeInv /\ GenuineInv => RecordedTicketsExist
  BY DEF TypeInv, TypeOK, GenuineInv, RecordedTicketsExist, StateReadable, StateRecords,
         NoRecords, Genuine
<1>3. QED
  BY <1>1, <1>2, TypeInit, TypeStep, GenuineInduction, PTL DEF Spec

-----------------------------------------------------------------------------
(***************************************************************************)
(* What holds while runs do not overlap: any number of processes, one run  *)
(* at a time.  KeptApart is an assumption on a behaviour, not on the       *)
(* constants: whoever starts the runs keeps them apart.                    *)
(***************************************************************************)

KeptApart == \A r, s \in Runners : run[r].pc # "idle" /\ run[s].pc # "idle" => r = s

\* While one run is started, goes on or ends, all others are idle and stay so.
LEMMA OthersIdle ==
  ASSUME KeptApart, KeptApart', TypeInv, NEW r \in Runners, NEW v, Update(r, v),
         run[r].pc # "idle" \/ v.pc # "idle"
  PROVE  run'[r] = v /\ \A s \in Runners \ {r} : run'[s] = run[s] /\ run[s].pc = "idle"
<1>1. run'[r] = v /\ \A s \in Runners \ {r} : run'[s] = run[s]
  BY DEF Update, TypeInv, TypeOK
<1>2. QED
  BY <1>1 DEF KeptApart

EventKey(v) == KeyOf[v.batch[v.pos]]

\* How a run's local state v relates to what the state file records, to the
\* temporary file and to the disk, at each place in the loop.
Aligned(v, records, tmp, contents) ==
  /\ v.pc \in {"loop", "post", "kill", "mark"} => v.routed = records
  /\ v.pc \in {"post", "kill", "mark", "write", "replace"} => records[EventKey(v)] = 0
  /\ v.pc \in {"mark", "write", "replace"} => v.ticket # 0
  /\ v.pc \in {"write", "replace"} =>
       /\ v.routed = [records EXCEPT ![EventKey(v)] = v.ticket]
       /\ tmp # NoInode
  /\ v.pc = "write" => v.fd = tmp /\ contents[tmp] = Empty
  /\ v.pc = "replace" => contents[tmp] = v.routed
  /\ v.pc # "idle" /\ ~v.dry =>
       \A i \in 1..v.pos - 1 : records[KeyOf[v.batch[i]]] # 0

FilesInv == /\ StateReadable
            /\ tmpInode # NoInode => tmpInode # stateInode

SequentialInv == /\ FilesInv
                 /\ \A r \in Runners : Aligned(run[r], StateRecords, tmpInode, disk)

Everything == TypeInv /\ GenuineInv /\ SequentialInv

\* An idle run fits any files.
LEMMA IdleAligned == \A v, records, tmp, contents :
                       v.pc = "idle" => Aligned(v, records, tmp, contents)
  BY DEF Aligned

\* The only run that is not idle acted, and left itself in a local state that fits the
\* files.
LEMMA OnlyRunActs ==
  ASSUME KeptApart, KeptApart', TypeInv, NEW r \in Runners, NEW v, Update(r, v),
         run[r].pc # "idle" \/ v.pc # "idle", FilesInv',
         Aligned(v, StateRecords', tmpInode', disk')
  PROVE  SequentialInv'
  BY OthersIdle, IdleAligned DEF SequentialInv

\* The places that only read the files: v moves on, the files stay.
LEMMA AlignedMoves ==
  ASSUME NEW v, LocalOK(v), NEW records, NEW tmp, NEW contents,
         Aligned(v, records, tmp, contents)
  PROVE  /\ v.pc = "loop" /\ records[EventKey(v)] = 0 =>
              Aligned([v EXCEPT !.pc = "post"], records, tmp, contents)
         /\ v.pc = "post" => Aligned([v EXCEPT !.pc = "kill"], records, tmp, contents)
         /\ \A id \in Nat : v.pc = "post" =>
              Aligned([v EXCEPT !.pc = "kill", !.ticket = id], records, tmp, contents)
         /\ v.pc = "kill" /\ v.ticket # 0 =>
              Aligned([v EXCEPT !.pc = "mark"], records, tmp, contents)
<1> USE DEF Aligned, EventKey, LocalOK, Runs
<1>1. v.pc = "loop" /\ records[EventKey(v)] = 0 =>
        Aligned([v EXCEPT !.pc = "post"], records, tmp, contents)
  OBVIOUS
<1>2. v.pc = "post" => Aligned([v EXCEPT !.pc = "kill"], records, tmp, contents)
  OBVIOUS
<1>3. ASSUME NEW id \in Nat, v.pc = "post"
      PROVE  Aligned([v EXCEPT !.pc = "kill", !.ticket = id], records, tmp, contents)
  BY <1>3
<1>4. v.pc = "kill" /\ v.ticket # 0 =>
        Aligned([v EXCEPT !.pc = "mark"], records, tmp, contents)
  OBVIOUS
<1>5. QED
  BY <1>1, <1>2, <1>3, <1>4

\* Going on to the next event, with the files recording at least what they did and,
\* unless the run is dry, the event passed over.
LEMMA AlignedNext ==
  ASSUME NEW v, LocalOK(v), v.pc # "idle", NEW records, NEW tmp, NEW contents,
         ~v.dry => /\ \A i \in 1..v.pos - 1 : records[KeyOf[v.batch[i]]] # 0
                   /\ records[EventKey(v)] # 0,
         v.routed = records
  PROVE  Aligned([v EXCEPT !.pc = "loop", !.pos = @ + 1, !.ticket = 0], records, tmp, contents)
<1> DEFINE w == [v EXCEPT !.pc = "loop", !.pos = @ + 1, !.ticket = 0]
<1>1. /\ w.pc = "loop" /\ w.routed = v.routed /\ w.dry = v.dry
      /\ w.batch = v.batch /\ w.pos - 1 = v.pos /\ v.pos \in Nat
  BY DEF LocalOK, Runs
<1> HIDE DEF w
<1>2. ~w.dry => \A i \in 1..w.pos - 1 : records[KeyOf[w.batch[i]]] # 0
  BY <1>1 DEF EventKey
<1>3. Aligned(w, records, tmp, contents)
  BY <1>1, <1>2 DEF Aligned
<1>4. QED
  BY <1>3 DEF w

LEMMA SequentialInduction ==
  Everything /\ KeptApart /\ KeptApart' /\ [Next]_vars => SequentialInv'
<1> SUFFICES ASSUME Everything, KeptApart, KeptApart', [Next]_vars PROVE SequentialInv'
  OBVIOUS
<1>0. /\ SharedOK /\ FilesInv /\ TypeInv
      /\ \A s \in Runners : LocalOK(run[s]) /\ LocalGenuine(run[s], tickets)
      /\ \A s \in Runners : Aligned(run[s], StateRecords, tmpInode, disk)
  BY DEF Everything, TypeInv, TypeOK, SharedOK, GenuineInv, SequentialInv
\* A step that leaves the files alone leaves what the state file says alone.
<1>00. UNCHANGED files => /\ StateRecords' = StateRecords /\ FilesInv'
                          /\ UNCHANGED <<tmpInode, disk>>
  BY <1>0 DEF files, StateRecords, FilesInv, StateReadable
<1>1. ASSUME NEW r \in Runners, NEW b \in Batches, NEW d \in BOOLEAN, StartRun(r, b, d)
      PROVE  SequentialInv'
  <2>1. UNCHANGED files
    BY <1>1 DEF StartRun
  <2>2. Aligned(Started(b, d, StateRecords), StateRecords, tmpInode, disk)
    BY DEF Aligned, Started
  <2>3. QED
    BY <1>0, <1>00, <1>1, <2>1, <2>2, OnlyRunActs DEF StartRun, Started
<1>2. ASSUME NEW r \in Runners, SkipEvent(r)
      PROVE  SequentialInv'
  <2>1. UNCHANGED files
    BY <1>2 DEF SkipEvent
  <2>2. /\ run[r].routed = StateRecords
        /\ ~run[r].dry => /\ \A i \in 1..run[r].pos - 1 : StateRecords[KeyOf[run[r].batch[i]]] # 0
                          /\ StateRecords[EventKey(run[r])] # 0
    BY <1>0, <1>2 DEF SkipEvent, Seen, Key, EventKey, Aligned
  <2>3. Aligned([run[r] EXCEPT !.pc = "loop", !.pos = @ + 1, !.ticket = 0],
                StateRecords, tmpInode, disk)
    BY <1>0, <1>2, <2>2, AlignedNext DEF SkipEvent
  <2>4. QED
    BY <1>0, <1>00, <1>2, <2>1, <2>3, OnlyRunActs DEF SkipEvent, NextEvent
<1>3. ASSUME NEW r \in Runners, InitSession(r)
      PROVE  SequentialInv'
  <2>1. UNCHANGED files
    BY <1>3 DEF InitSession
  <2>2. StateRecords[EventKey(run[r])] = 0
    BY <1>0, <1>3 DEF InitSession, Seen, Key, EventKey, Aligned
  <2>3. Aligned([run[r] EXCEPT !.pc = "post"], StateRecords, tmpInode, disk)
    BY <1>0, <1>3, <2>2, AlignedMoves DEF InitSession
  <2>4. QED
    BY <1>0, <1>00, <1>3, <2>1, <2>3, IdleAligned, IdlePhase, OnlyRunActs DEF InitSession, Goto, EndRun
<1>4. ASSUME NEW r \in Runners, PostTicket(r)
      PROVE  SequentialInv'
  <2>1. UNCHANGED files /\ Len(tickets) + 1 \in Nat
    BY <1>0, <1>4 DEF PostTicket, SharedOK
  <2>2. /\ Aligned([run[r] EXCEPT !.pc = "kill"], StateRecords, tmpInode, disk)
        /\ Aligned([run[r] EXCEPT !.pc = "kill", !.ticket = Len(tickets) + 1],
                   StateRecords, tmpInode, disk)
    BY <1>0, <1>4, <2>1, AlignedMoves DEF PostTicket
  <2>3. QED
    BY <1>0, <1>00, <1>4, <2>1, <2>2, OnlyRunActs DEF PostTicket, Goto
<1>5. ASSUME NEW r \in Runners, KillSession(r)
      PROVE  SequentialInv'
  <2>1. UNCHANGED files
    BY <1>5 DEF KillSession
  <2>2. run[r].ticket # 0 =>
          Aligned([run[r] EXCEPT !.pc = "mark"], StateRecords, tmpInode, disk)
    BY <1>0, <1>5, AlignedMoves DEF KillSession
  <2>3. QED
    BY <1>0, <1>00, <1>5, <2>1, <2>2, IdleAligned, IdlePhase, OnlyRunActs
    DEF KillSession, LeaveCreateTicket, Goto, EndRun
<1>6. ASSUME NEW r \in Runners, MarkOpen(r)
      PROVE  SequentialInv'
  <2> DEFINE m == [run[r].routed EXCEPT ![Key(r)] = run[r].ticket]
  <2>1. PICK i \in Inodes \ {stateInode} :
          /\ tmpInode' = i /\ stateInode' = stateInode
          /\ disk' = [disk EXCEPT ![i] = Empty]
          /\ Update(r, [run[r] EXCEPT !.pc = "write", !.fd = i, !.routed = m])
    BY <1>0, <1>6 DEF MarkOpen, FreeInodes, SharedOK, FilesInv
  <2>2. StateRecords' = StateRecords /\ FilesInv'
    BY <1>0, <2>1, ConstantsAssumption DEF SharedOK, StateRecords, FilesInv, StateReadable
  <2>3. m = [StateRecords EXCEPT ![EventKey(run[r])] = run[r].ticket]
    BY <1>0, <1>6 DEF MarkOpen, Aligned, Key, EventKey
  <2>4. tmpInode' # NoInode /\ disk'[tmpInode'] = Empty
    BY <1>0, <2>1, ConstantsAssumption DEF SharedOK
  <2> HIDE DEF m
  <2> DEFINE w == [run[r] EXCEPT !.pc = "write", !.fd = i, !.routed = m]
  <2>5. /\ w.pc = "write" /\ w.fd = tmpInode' /\ w.routed = m /\ w.ticket = run[r].ticket
        /\ w.batch = run[r].batch /\ w.pos = run[r].pos /\ w.dry = run[r].dry
    BY <1>0, <2>1 DEF LocalOK, Runs
  <2> HIDE DEF w
  <2>6. Aligned(w, StateRecords, tmpInode', disk')
    BY <1>0, <1>6, <2>3, <2>4, <2>5 DEF MarkOpen, Aligned, EventKey
  <2>7. QED
    BY <1>0, <1>6, <2>1, <2>2, <2>6, OnlyRunActs DEF MarkOpen, w
<1>7. ASSUME NEW r \in Runners, WriteTmp(r)
      PROVE  SequentialInv'
  <2>1. run[r].fd = tmpInode /\ disk[tmpInode] = Empty /\ tmpInode # NoInode
    BY <1>0, <1>7 DEF WriteTmp, Aligned
  <2>2. disk' = [disk EXCEPT ![tmpInode] = run[r].routed]
    BY <1>7, <2>1 DEF WriteTmp, Overlaid
  <2>3. StateRecords' = StateRecords /\ FilesInv' /\ disk'[tmpInode] = run[r].routed
    BY <1>0, <1>7, <2>1, <2>2 DEF WriteTmp, SharedOK, StateRecords, FilesInv, StateReadable
  <2> DEFINE w == [run[r] EXCEPT !.pc = "replace", !.fd = NoInode]
  <2>4. /\ w.pc = "replace" /\ w.routed = run[r].routed /\ w.ticket = run[r].ticket
        /\ w.batch = run[r].batch /\ w.pos = run[r].pos /\ w.dry = run[r].dry
    BY <1>0 DEF LocalOK, Runs
  <2> HIDE DEF w
  <2>5. Aligned(w, StateRecords, tmpInode, disk')
    BY <1>0, <1>7, <2>1, <2>3, <2>4 DEF WriteTmp, Aligned, EventKey
  <2>6. QED
    BY <1>0, <1>7, <2>3, <2>5, OnlyRunActs DEF WriteTmp, w
<1>8. ASSUME NEW r \in Runners, ReplaceState(r)
      PROVE  SequentialInv'
  <2> DEFINE w == [run[r] EXCEPT !.pc = "loop", !.pos = @ + 1, !.ticket = 0]
  <2>1. /\ tmpInode # NoInode /\ disk[tmpInode] = run[r].routed
        /\ run[r].routed = [StateRecords EXCEPT ![EventKey(run[r])] = run[r].ticket]
        /\ run[r].ticket # 0
    BY <1>0, <1>8 DEF ReplaceState, Aligned
  <2>2. Update(r, w) /\ stateInode' = tmpInode /\ tmpInode' = NoInode /\ UNCHANGED disk
    BY <1>8, <2>1 DEF ReplaceState, NextEvent
  <2>3. StateRecords' = run[r].routed /\ FilesInv'
    BY <1>0, <2>1, <2>2 DEF StateRecords, FilesInv, StateReadable, LocalOK, Runs
  <2>4. EventKey(run[r]) \in Keys
    BY <1>0, <1>8, KeyType DEF ReplaceState, LocalOK, Pending, Key, EventKey
  <2>5. StateRecords \in RoutedMaps
    BY <1>0 DEF FilesInv, StateReadable
  <2>6. \A k \in Keys : StateRecords[k] # 0 => run[r].routed[k] # 0
    BY <2>1, <2>4, <2>5 DEF RoutedMaps
  <2>7. ~run[r].dry => \A i \in 1..run[r].pos - 1 : run[r].routed[KeyOf[run[r].batch[i]]] # 0
    <3>1. \A i \in 1..run[r].pos - 1 : KeyOf[run[r].batch[i]] \in Keys
      BY <1>0, ConstantsAssumption DEF LocalOK, Runs
    <3>2. QED
      BY <1>0, <1>8, <2>6, <3>1 DEF ReplaceState, Aligned
  <2>8. run[r].routed[EventKey(run[r])] # 0
    BY <2>1, <2>4, <2>5 DEF RoutedMaps
  <2>9. Aligned(w, run[r].routed, tmpInode', disk')
    BY <1>0, <1>8, <2>7, <2>8, AlignedNext DEF ReplaceState
  <2> HIDE DEF w
  <2>10. QED
    BY <1>0, <1>8, <2>2, <2>3, <2>9, OnlyRunActs DEF ReplaceState
<1>9. ASSUME NEW r \in Runners, FinishRun(r) \/ Crash(r)
      PROVE  SequentialInv'
  BY <1>0, <1>00, <1>9, IdleAligned, IdlePhase, OnlyRunActs DEF FinishRun, Crash, EndRun
<1>10. CASE UNCHANGED vars
  BY <1>10 DEF vars, Everything, SequentialInv, FilesInv, StateReadable, StateRecords, Aligned
<1>11. QED
  BY <1>1, <1>2, <1>3, <1>4, <1>5, <1>6, <1>7, <1>8, <1>9, <1>10 DEF Next, RunStep

LEMMA EverythingHolds == Spec /\ []KeptApart => []Everything
<1>1. Init => Everything
  BY TypeInit, IdleGenuine, IdleAligned, IdlePhase, ConstantsAssumption
  DEF Init, Everything, GenuineInv, SequentialInv, FilesInv, StateReadable, StateRecords,
      NoRecords, RoutedMaps
<1>2. Everything /\ KeptApart /\ KeptApart' /\ [Next]_vars => Everything'
  BY TypeStep, GenuineInduction, SequentialInduction DEF Everything
<1>3. QED
  BY <1>1, <1>2, PTL DEF Spec

\* While runs do not overlap the state file can be read, wherever they died.
THEOREM SequentialStateFileReadable == Spec /\ []KeptApart => []StateFileReadable
<1>1. Everything => StateFileReadable
  BY DEF Everything, SequentialInv, FilesInv, StateFileReadable
<1>2. QED
  BY <1>1, EverythingHolds, PTL

\* While runs do not overlap what a live run has got past is in the state file.
THEOREM SequentialReportedEventsRecorded ==
  Spec /\ []KeptApart => []ReportedEventsRecorded
<1>1. Everything => ReportedEventsRecorded
  BY DEF Everything, SequentialInv, Aligned, ReportedEventsRecorded
<1>2. QED
  BY <1>1, EverythingHolds, PTL

-----------------------------------------------------------------------------
(***************************************************************************)
(* While runs do not overlap, routing implements the ledger.               *)
(***************************************************************************)

\* Posting a ticket is issuing it; renaming the written map over the state file is
\* listing it; every other step leaves tickets and records alone.
LEMMA LedgerStep ==
  Everything /\ [Next]_vars => [Ledger!Next]_<<tickets, StateRecords>>
<1> SUFFICES ASSUME Everything, [Next]_vars
             PROVE  [Ledger!Next]_<<tickets, StateRecords>>
  OBVIOUS
<1>0. /\ SharedOK /\ FilesInv /\ TypeInv
      /\ \A s \in Runners : LocalOK(run[s]) /\ LocalGenuine(run[s], tickets)
      /\ \A s \in Runners : Aligned(run[s], StateRecords, tmpInode, disk)
  BY DEF Everything, TypeInv, TypeOK, SharedOK, GenuineInv, SequentialInv
<1>00. UNCHANGED files => StateRecords' = StateRecords
  BY DEF files, StateRecords
<1>1. ASSUME NEW r \in Runners, PostTicket(r)
      PROVE  [Ledger!Next]_<<tickets, StateRecords>>
  <2>1. /\ Key(r) \in Keys
        /\ StateRecords[Key(r)] = 0
        /\ StateRecords' = StateRecords
    BY <1>0, <1>00, <1>1, KeyType DEF PostTicket, LocalOK, Pending, Aligned, Key, EventKey
  <2>2. CASE tickets' = Append(tickets, Key(r))
    BY <2>1, <2>2 DEF Ledger!Next, Ledger!Issue
  <2>3. CASE UNCHANGED tickets
    BY <2>1, <2>3
  <2>4. QED
    BY <1>1, <2>2, <2>3 DEF PostTicket
<1>2. ASSUME NEW r \in Runners, ReplaceState(r)
      PROVE  [Ledger!Next]_<<tickets, StateRecords>>
  <2>1. /\ Key(r) \in Keys
        /\ StateRecords[Key(r)] = 0
        /\ run[r].ticket \in 1..Len(tickets) /\ tickets[run[r].ticket] = Key(r)
        /\ tmpInode # NoInode
        /\ disk[tmpInode] = [StateRecords EXCEPT ![Key(r)] = run[r].ticket]
    BY <1>0, <1>2, KeyType
    DEF ReplaceState, LocalOK, LocalGenuine, Pending, Aligned, Key, EventKey
  <2>2. StateRecords' = [StateRecords EXCEPT ![Key(r)] = run[r].ticket] /\ UNCHANGED tickets
    BY <1>0, <1>2, <2>1 DEF ReplaceState, StateRecords, SharedOK, glpi
  <2>3. QED
    BY <2>1, <2>2 DEF Ledger!Next, Ledger!List
<1>3. ASSUME NEW r \in Runners, MarkOpen(r)
      PROVE  UNCHANGED <<tickets, StateRecords>>
  <2>1. PICK i \in Inodes \ {stateInode} : disk' = [disk EXCEPT ![i] = Empty]
    BY <1>0, <1>3 DEF MarkOpen, FreeInodes, SharedOK, FilesInv
  <2>2. QED
    BY <1>0, <1>3, <2>1, ConstantsAssumption DEF MarkOpen, SharedOK, StateRecords, glpi
<1>4. ASSUME NEW r \in Runners, WriteTmp(r)
      PROVE  UNCHANGED <<tickets, StateRecords>>
  <2>1. run[r].fd = tmpInode /\ tmpInode # stateInode
    BY <1>0, <1>4 DEF WriteTmp, Aligned, FilesInv
  <2>2. QED
    BY <1>0, <1>4, <2>1 DEF WriteTmp, SharedOK, StateRecords, glpi
<1>5. ASSUME NEW r \in Runners, NEW b \in Batches, NEW d \in BOOLEAN, StartRun(r, b, d)
      PROVE  UNCHANGED <<tickets, StateRecords>>
  BY <1>00, <1>5 DEF StartRun, glpi
<1>6. ASSUME NEW r \in Runners,
             \/ SkipEvent(r) \/ InitSession(r) \/ KillSession(r) \/ FinishRun(r) \/ Crash(r)
      PROVE  UNCHANGED <<tickets, StateRecords>>
  BY <1>00, <1>6 DEF SkipEvent, InitSession, KillSession, FinishRun, Crash, glpi
<1>7. CASE UNCHANGED vars
  BY <1>00, <1>7 DEF vars, files
<1>8. QED
  BY <1>1, <1>2, <1>3, <1>4, <1>5, <1>6, <1>7 DEF Next, RunStep

\* While runs do not overlap the tickets and the state file behave as the ledger says:
\* no ticket for a listed key, and what is listed stays listed under the same ticket.
THEOREM SequentialImplementsLedger == Spec /\ []KeptApart => ImplementsLedger
<1>1. Init => Ledger!Init
  BY DEF Init, Ledger!Init, Ledger!Unlisted, StateRecords, NoRecords
<1>2. QED
  BY <1>1, LedgerStep, EverythingHolds, PTL DEF Spec, ImplementsLedger, Ledger!Spec

\* So the loss of records is the price of overlap alone: no crash or failing request
\* makes a listed key unlisted while runs are kept apart.
THEOREM SequentialListedStaysListed == Spec /\ []KeptApart => ListedStaysListed
<1> DEFINE Stays == \A k \in Keys : StateReadable /\ StateRecords[k] # 0
                                      => (StateReadable /\ StateRecords[k] # 0)'
<1>1. Everything /\ Everything' /\ [Next]_vars => Stays
  <2> SUFFICES ASSUME Everything, Everything', [Next]_vars PROVE Stays
    OBVIOUS
  <2>1. StateReadable /\ StateRecords \in RoutedMaps /\ StateReadable'
    BY DEF Everything, SequentialInv, FilesInv, StateReadable
  <2>2. [Ledger!Next]_<<tickets, StateRecords>>
    BY LedgerStep
  <2>3. CASE \E k \in Keys : \E id \in 1..Len(tickets) : Ledger!List(k, id)
    BY <2>1, <2>3 DEF Ledger!List, RoutedMaps
  <2>4. CASE StateRecords' = StateRecords
    BY <2>1, <2>4
  <2>5. QED
    BY <2>2, <2>3, <2>4 DEF Ledger!Next, Ledger!Issue
<1>2. Everything /\ Everything' /\ [Next]_vars => [Stays]_vars
  BY <1>1
<1>3. QED
  BY <1>2, EverythingHolds, PTL DEF Spec, ListedStaysListed

-----------------------------------------------------------------------------
(***************************************************************************)
(* What faults cost: sessions, however many runs overlap.                  *)
(***************************************************************************)

Occupied == {"post", "kill"}
InSession == {r \in Runners : run[r].pc \in Occupied}
Charged(v) == IF v.pc \in Occupied THEN 1 ELSE 0

SessionInv == IsFiniteSet(InSession) /\ SessionsPaidFor

\* A step of one run changes the number of runs in a session by its own change.
LEMMA SessionStep ==
  ASSUME TypeInv, SessionInv, NEW r \in Runners, NEW v, Update(r, v)
  PROVE  /\ IsFiniteSet(InSession') /\ Cardinality(InSession) \in Nat
         /\ Cardinality(InSession') = Cardinality(InSession) + Charged(v) - Charged(run[r])
         /\ Charged(v) \in {0, 1} /\ Charged(run[r]) \in {0, 1}
<1>1. IsFiniteSet(InSession) /\ Cardinality(InSession) \in Nat
  BY FS_CardinalityType DEF SessionInv
<1>2. \A s \in Runners : run'[s] = IF s = r THEN v ELSE run[s]
  BY DEF Update, TypeInv, TypeOK
<1>3. CASE v.pc \in Occupied
  <2>1. InSession' = InSession \cup {r}
    BY <1>2, <1>3 DEF InSession
  <2>2. r \in InSession <=> run[r].pc \in Occupied
    BY DEF InSession
  <2>3. /\ IsFiniteSet(InSession \cup {r})
        /\ Cardinality(InSession \cup {r}) =
             IF r \in InSession THEN Cardinality(InSession) ELSE Cardinality(InSession) + 1
    BY <1>1, FS_AddElement
  <2>4. QED
    BY <1>1, <1>3, <2>1, <2>2, <2>3 DEF Charged
<1>4. CASE v.pc \notin Occupied
  <2>1. InSession' = InSession \ {r}
    BY <1>2, <1>4 DEF InSession
  <2>2. r \in InSession <=> run[r].pc \in Occupied
    BY DEF InSession
  <2>3. /\ IsFiniteSet(InSession \ {r})
        /\ Cardinality(InSession \ {r}) =
             IF r \in InSession THEN Cardinality(InSession) - 1 ELSE Cardinality(InSession)
    BY <1>1, FS_RemoveElement
  <2>4. QED
    BY <1>1, <1>4, <2>1, <2>2, <2>3 DEF Charged
<1>5. QED
  BY <1>3, <1>4

LEMMA Balance ==
  ASSUME NEW o \in Int, NEW n \in Int, NEW c \in Int, NEW x \in Int, NEW d \in Int, NEW q \in Int,
         o \in n..(n + c), x >= d, x <= d + q
  PROVE  o + x \in (n + d)..((n + d) + (c + q))
  OBVIOUS

\* The same, with what the step does to the sessions and what it is charged.
LEMMA SessionBalance ==
  ASSUME TypeInv, SessionInv, NEW r \in Runners, NEW v, Update(r, v),
         NEW opened \in Int, NEW spent \in Nat, NEW failed \in Nat,
         openSessions' = openSessions + opened,
         faults' = faults - spent, failedPosts' = failedPosts + failed,
         opened >= Charged(v) - Charged(run[r]),
         opened <= Charged(v) - Charged(run[r]) + (spent - failed)
  PROVE  SessionInv'
<1>1. /\ IsFiniteSet(InSession') /\ Cardinality(InSession) \in Nat
      /\ Cardinality(InSession') = Cardinality(InSession) + Charged(v) - Charged(run[r])
      /\ Charged(v) \in {0, 1} /\ Charged(run[r]) \in {0, 1}
  BY SessionStep
<1>2. openSessions \in Int /\ faults \in Int /\ failedPosts \in Int /\ MaxFaults \in Nat
  BY ConstantsAssumption DEF TypeInv, TypeOK
<1>3. openSessions \in Cardinality(InSession) ..
                        Cardinality(InSession) + (MaxFaults - faults - failedPosts)
  BY DEF SessionInv, SessionsPaidFor, InSession, Occupied
<1>4. openSessions' \in Cardinality(InSession') ..
                         Cardinality(InSession') + (MaxFaults - faults' - failedPosts')
  <2> DEFINE n == Cardinality(InSession)
             d == Charged(v) - Charged(run[r])
             c == MaxFaults - faults - failedPosts
             paid == spent - failed
  <2>1. /\ n \in Int /\ d \in Int /\ c \in Int /\ opened \in Int /\ paid \in Int
        /\ openSessions \in n..(n + c) /\ opened >= d /\ opened <= d + paid
    BY <1>1, <1>2, <1>3
  <2>2. MaxFaults - faults' - failedPosts' = c + paid
    BY <1>2
  <2>3. Cardinality(InSession') = n + d
    BY <1>1
  <2> HIDE DEF n, d, c, paid
  <2>4. openSessions + opened \in (n + d)..((n + d) + (c + paid))
    BY <1>2, <2>1, Balance
  <2>5. QED
    BY <2>2, <2>3, <2>4
<1>5. QED
  BY <1>1, <1>4 DEF SessionInv, SessionsPaidFor, InSession, Occupied

LEMMA NothingCharged ==
  ASSUME TypeInv, SessionInv, NEW r \in Runners, NEW v, Update(r, v),
         Charged(v) = Charged(run[r]), UNCHANGED <<openSessions, faults, failedPosts>>
  PROVE  SessionInv'
<1>1. /\ openSessions \in Int /\ faults \in Int /\ failedPosts \in Int
      /\ Charged(v) \in {0, 1} /\ Charged(run[r]) \in {0, 1}
  BY SessionStep DEF TypeInv, TypeOK
<1> DEFINE none == 0
<1>2. /\ openSessions' = openSessions + none
      /\ faults' = faults - none /\ failedPosts' = failedPosts + none
      /\ none >= Charged(v) - Charged(run[r])
      /\ none <= Charged(v) - Charged(run[r]) + (none - none)
      /\ none \in Int /\ none \in Nat
  BY <1>1
<1> HIDE DEF none
<1>3. QED
  BY <1>1, <1>2, SessionBalance

LEMMA PhaseFacts ==
  ASSUME TypeInv, NEW r \in Runners
  PROVE  /\ \A p \in Phases : [run[r] EXCEPT !.pc = p].pc = p
         /\ [run[r] EXCEPT !.pc = "loop", !.pos = @ + 1, !.ticket = 0].pc = "loop"
         /\ \A id : [run[r] EXCEPT !.pc = "kill", !.ticket = id].pc = "kill"
         /\ \A i, m : [run[r] EXCEPT !.pc = "write", !.fd = i, !.routed = m].pc = "write"
         /\ [run[r] EXCEPT !.pc = "replace", !.fd = NoInode].pc = "replace"
  BY DEF TypeInv, TypeOK, Runs

LEMMA SessionInduction == TypeInv /\ SessionInv /\ [Next]_vars => SessionInv'
<1> SUFFICES ASSUME TypeInv, SessionInv, [Next]_vars PROVE SessionInv'
  OBVIOUS
<1>0. openSessions \in Int /\ faults \in Nat /\ failedPosts \in Nat
  BY ConstantsAssumption DEF TypeInv, TypeOK
<1>00. Charged(IdleRun) = 0
  BY DEF Charged, IdleRun, Occupied
<1>1. ASSUME NEW r \in Runners, NEW b \in Batches, NEW d \in BOOLEAN, StartRun(r, b, d)
      PROVE  SessionInv'
  <2>1. Charged(Started(b, d, StateRecords)) = 0 /\ Charged(run[r]) = 0
    BY <1>1 DEF StartRun, Charged, Started, Occupied
  <2>2. /\ Update(r, Started(b, d, StateRecords))
        /\ UNCHANGED <<openSessions, faults, failedPosts>>
    BY <1>1 DEF StartRun, glpi
  <2>3. QED
    BY <1>0, <2>1, <2>2, NothingCharged
<1>2. ASSUME NEW r \in Runners, SkipEvent(r)
      PROVE  SessionInv'
  <2> DEFINE v == [run[r] EXCEPT !.pc = "loop", !.pos = @ + 1, !.ticket = 0]
  <2>1. Charged(v) = 0 /\ Charged(run[r]) = 0 /\ Update(r, v)
    BY <1>2, PhaseFacts DEF SkipEvent, NextEvent, Charged, Occupied
  <2> HIDE DEF v
  <2>2. QED
    BY <1>2, <2>1, NothingCharged DEF SkipEvent, glpi
<1>3. ASSUME NEW r \in Runners, InitSession(r)
      PROVE  SessionInv'
  <2>1. Charged(run[r]) = 0
    BY <1>3 DEF InitSession, Charged, Occupied
  <2>2. CASE Goto(r, "post") /\ openSessions' = openSessions + 1 /\ UNCHANGED faults
    <3>1. Charged([run[r] EXCEPT !.pc = "post"]) = 1
      BY PhaseFacts DEF Charged, Occupied, Phases
    <3>2. Update(r, [run[r] EXCEPT !.pc = "post"]) /\ failedPosts' = failedPosts
      BY <1>3, <2>2 DEF InitSession, Goto
    <3>3. faults' = faults - 0 /\ failedPosts' = failedPosts + 0
      BY <1>0, <2>2, <3>2
    <3>4. QED
      BY <2>1, <2>2, <3>1, <3>2, <3>3, SessionBalance
  <2>3. CASE Fault("init") /\ EndRun(r) /\ openSessions' \in {openSessions, openSessions + 1}
    <3>1. faults' = faults - 1 /\ failedPosts' = failedPosts + 0
      BY <1>0, <1>3, <2>3 DEF Fault, InitSession
    <3>2. PICK n \in {0, 1} : openSessions' = openSessions + n
      BY <1>0, <2>3
    <3>3. QED
      BY <1>0, <1>00, <2>1, <2>3, <3>1, <3>2, SessionBalance DEF EndRun
  <2>4. QED
    BY <1>3, <2>2, <2>3 DEF InitSession
<1>4. ASSUME NEW r \in Runners, PostTicket(r)
      PROVE  SessionInv'
  <2>1. Charged(run[r]) = 1 /\ openSessions' = openSessions
    BY <1>4 DEF PostTicket, Charged, Occupied
  <2>2. /\ Charged([run[r] EXCEPT !.pc = "kill"]) = 1
        /\ Charged([run[r] EXCEPT !.pc = "kill", !.ticket = Len(tickets) + 1]) = 1
    BY PhaseFacts DEF Charged, Occupied, Phases
  <2>3. PICK v : Update(r, v) /\ Charged(v) = 1
    BY <1>4, <2>2 DEF PostTicket, Goto
  <2>4. PICK n \in {0, 1} : faults' = faults - n /\ failedPosts' = failedPosts + n
    BY <1>0, <1>4 DEF PostTicket, Fault
  <2>5. openSessions' = openSessions + 0
    BY <1>0, <2>1
  <2>6. QED
    BY <2>1, <2>3, <2>4, <2>5, SessionBalance
<1>5. ASSUME NEW r \in Runners, KillSession(r)
      PROVE  SessionInv'
  <2>1. Charged(run[r]) = 1 /\ failedPosts' = failedPosts + 0
    BY <1>0, <1>5 DEF KillSession, Charged, Occupied
  <2>2. \E v : Update(r, v) /\ Charged(v) = 0
    <3>1. Charged([run[r] EXCEPT !.pc = "mark"]) = 0
      BY PhaseFacts DEF Charged, Occupied, Phases
    <3>2. Goto(r, "mark") \/ EndRun(r)
      BY <1>5 DEF KillSession, LeaveCreateTicket
    <3>3. QED
      BY <1>00, <3>1, <3>2 DEF Goto, EndRun
  <2>3. CASE openSessions' = openSessions - 1 /\ UNCHANGED faults
    <3>1. openSessions' = openSessions + (-1) /\ faults' = faults - 0
      BY <1>0, <2>3
    <3>2. QED
      BY <1>0, <2>1, <2>2, <3>1, SessionBalance
  <2>4. CASE faults' = faults - 1 /\ openSessions' \in {openSessions, openSessions - 1}
    <3>1. PICK n \in {-1, 0} : openSessions' = openSessions + n
      BY <1>0, <2>4
    <3>2. QED
      BY <1>0, <2>1, <2>2, <2>4, <3>1, SessionBalance
  <2>5. QED
    BY <1>5, <2>3, <2>4 DEF KillSession, Fault
<1>6. ASSUME NEW r \in Runners, MarkOpen(r) \/ WriteTmp(r) \/ ReplaceState(r)
      PROVE  SessionInv'
  <2>1. /\ Charged(run[r]) = 0
        /\ UNCHANGED <<openSessions, faults, failedPosts>>
    BY <1>6 DEF MarkOpen, WriteTmp, ReplaceState, Charged, Occupied, glpi
  <2>2. \E v : Update(r, v) /\ Charged(v) = 0
    <3>1. CASE MarkOpen(r)
      <4> DEFINE m == [run[r].routed EXCEPT ![Key(r)] = run[r].ticket]
      <4>1. PICK i : Update(r, [run[r] EXCEPT !.pc = "write", !.fd = i, !.routed = m])
        BY <3>1 DEF MarkOpen
      <4> HIDE DEF m
      <4>2. Charged([run[r] EXCEPT !.pc = "write", !.fd = i, !.routed = m]) = 0
        BY PhaseFacts DEF Charged, Occupied
      <4>3. QED
        BY <4>1, <4>2
    <3>2. CASE WriteTmp(r)
      BY <3>2, PhaseFacts DEF WriteTmp, Charged, Occupied
    <3>3. CASE ReplaceState(r)
      <4>1. Charged([run[r] EXCEPT !.pc = "loop", !.pos = @ + 1, !.ticket = 0]) = 0
        BY PhaseFacts DEF Charged, Occupied
      <4>2. QED
        BY <1>00, <3>3, <4>1 DEF ReplaceState, NextEvent, EndRun
    <3>4. QED
      BY <1>6, <3>1, <3>2, <3>3
  <2>3. QED
    BY <2>1, <2>2, NothingCharged
<1>7. ASSUME NEW r \in Runners, FinishRun(r)
      PROVE  SessionInv'
  <2>1. Charged(run[r]) = 0 /\ UNCHANGED <<openSessions, faults, failedPosts>>
    BY <1>7 DEF FinishRun, Charged, Occupied, glpi
  <2>2. QED
    BY <1>00, <1>7, <2>1, NothingCharged DEF FinishRun, EndRun
<1>8. ASSUME NEW r \in Runners, Crash(r)
      PROVE  SessionInv'
  <2>1. Charged(run[r]) \in {0, 1} /\ faults' = faults - 1
    BY <1>0, <1>8 DEF Crash, Charged, Fault
  <2>2. openSessions' = openSessions + 0 /\ failedPosts' = failedPosts + 0
    BY <1>0, <1>8 DEF Crash, glpi
  <2>3. Update(r, IdleRun)
    BY <1>8 DEF Crash, EndRun
  <2>4. QED
    BY <1>0, <1>00, <2>1, <2>2, <2>3, SessionBalance
<1>9. CASE UNCHANGED vars
  BY <1>9 DEF vars, glpi, SessionInv, SessionsPaidFor, InSession
<1>10. QED
  BY <1>1, <1>2, <1>3, <1>4, <1>5, <1>6, <1>7, <1>8, <1>9 DEF Next, RunStep

\* For any number of overlapping runs: no GLPI session is left open but one per fault
\* other than a failing POST, and none is killed that some run is still using.
THEOREM SessionsArePaidFor == Spec => []SessionsPaidFor
<1>1. Init => SessionInv
  <2> SUFFICES ASSUME Init PROVE SessionInv
    OBVIOUS
  <2>1. InSession = {}
    BY DEF Init, InSession, IdleRun, Occupied
  <2>2. IsFiniteSet(InSession) /\ Cardinality(InSession) = 0
    BY <2>1, FS_EmptySet
  <2>3. openSessions = 0 /\ MaxFaults - faults - failedPosts = 0
    BY ConstantsAssumption DEF Init
  <2>4. openSessions \in Cardinality(InSession) ..
                          Cardinality(InSession) + (MaxFaults - faults - failedPosts)
    BY <2>2, <2>3
  <2>5. QED
    BY <2>2, <2>4 DEF SessionInv, SessionsPaidFor, InSession, Occupied
<1>2. SessionInv => SessionsPaidFor
  BY DEF SessionInv
<1>3. QED
  BY <1>1, <1>2, TypeInit, TypeStep, SessionInduction, PTL DEF Spec

-----------------------------------------------------------------------------
(***************************************************************************)
(* What faults cost: unlisted tickets, when runs do not overlap.           *)
(***************************************************************************)

Listed(records) == {k \in Keys : records[k] # 0}
Holding(v) == IF v.ticket # 0 THEN 1 ELSE 0

\* A run holds a ticket only between the answer to its POST and the renamed file.
TicketPlace(v) == v.ticket # 0 => v.pc \in {"kill", "mark", "write", "replace"}

Holders(runs) == {r \in Runners : runs[r].ticket # 0}

TicketInv == /\ IsFiniteSet(Listed(StateRecords))
             /\ \A r \in Runners : TicketPlace(run[r])
             /\ Len(tickets) <= Cardinality(Listed(StateRecords)) + (MaxFaults - faults)
                                + Cardinality(Holders(run))

\* When all others hold nothing, the runs that hold a ticket are the one or none.
LEMMA HoldingCount ==
  ASSUME NEW runs, NEW r \in Runners, \A s \in Runners \ {r} : runs[s].ticket = 0
  PROVE  Cardinality(Holders(runs)) = Holding(runs[r])
<1>1. CASE runs[r].ticket # 0
  <2>1. Holders(runs) = {r}
    BY <1>1 DEF Holders
  <2>2. QED
    BY <1>1, <2>1, FS_Singleton DEF Holding
<1>2. CASE runs[r].ticket = 0
  <2>1. Holders(runs) = {}
    BY <1>2 DEF Holders
  <2>2. QED
    BY <1>2, <2>1, FS_EmptySet DEF Holding
<1>3. QED
  BY <1>1, <1>2

LEMMA TicketSum ==
  ASSUME NEW t \in Int, NEW n \in Int, NEW m \in Int, NEW f \in Int, NEW h \in Int,
         NEW opened \in Int, NEW listed \in Int, NEW spent \in Int, NEW w \in Int,
         t <= n + (m - f) + h, opened + h <= listed + spent + w
  PROVE  t + opened <= n + listed + (m - (f - spent)) + w
  OBVIOUS

\* One step: what it opens is matched by what it lists, holds or is charged.
LEMMA TicketBalance ==
  ASSUME KeptApart, KeptApart', TypeInv, TicketInv,
         NEW r \in Runners, NEW v, Update(r, v), TicketPlace(v),
         run[r].pc # "idle" \/ v.pc # "idle",
         IsFiniteSet(Listed(StateRecords')),
         NEW opened \in Nat, NEW listed \in Nat, NEW spent \in Nat,
         Len(tickets') = Len(tickets) + opened,
         Cardinality(Listed(StateRecords')) = Cardinality(Listed(StateRecords)) + listed,
         faults' = faults - spent,
         opened + Holding(run[r]) <= listed + spent + Holding(v)
  PROVE  TicketInv'
<1> DEFINE n == Cardinality(Listed(StateRecords))
<1>1. /\ n \in Nat /\ Len(tickets) \in Nat /\ faults \in Int /\ MaxFaults \in Int
      /\ Holding(v) \in {0, 1} /\ Holding(run[r]) \in {0, 1}
  BY FS_CardinalityType, ConstantsAssumption DEF TicketInv, Holding, TypeInv, TypeOK
<1>0. /\ run'[r] = v
      /\ \A s \in Runners \ {r} : run'[s] = run[s] /\ run[s].ticket = 0
  BY OthersIdle DEF TicketInv, TicketPlace
<1>2. Len(tickets) <= n + (MaxFaults - faults) + Holding(run[r])
  BY <1>0, HoldingCount DEF TicketInv
<1>3. Len(tickets') <= Cardinality(Listed(StateRecords')) + (MaxFaults - faults') + Holding(v)
  <2>1. Cardinality(Listed(StateRecords')) = n + listed
    OBVIOUS
  <2> HIDE DEF n
  <2>2. /\ Len(tickets) \in Int /\ n \in Int /\ MaxFaults \in Int /\ faults \in Int
        /\ Holding(run[r]) \in Int /\ Holding(v) \in Int
        /\ opened \in Int /\ listed \in Int /\ spent \in Int
    BY <1>1
  <2>3. Len(tickets) + opened <= n + listed + (MaxFaults - (faults - spent)) + Holding(v)
    BY <1>2, <2>2, TicketSum
  <2>4. QED
    BY <2>1, <2>3
<1>4. Cardinality(Holders(run')) = Holding(v)
  BY <1>0, HoldingCount
<1>5. \A s \in Runners : TicketPlace(run'[s])
  BY <1>0 DEF TicketInv
<1>6. QED
  BY <1>3, <1>4, <1>5 DEF TicketInv

\* A step that neither opens nor lists a ticket, and drops one only for a fault.
LEMMA NothingOpened ==
  ASSUME KeptApart, KeptApart', TypeInv, TicketInv,
         NEW r \in Runners, NEW v, Update(r, v), TicketPlace(v),
         run[r].pc # "idle" \/ v.pc # "idle",
         UNCHANGED <<tickets, StateRecords>>,
         \/ UNCHANGED faults /\ Holding(run[r]) = Holding(v)
         \/ faults > 0 /\ faults' = faults - 1
  PROVE  TicketInv'
<1> DEFINE none == 0
           one == 1
<1>1. /\ Len(tickets) \in Nat /\ faults \in Nat
      /\ Holding(v) \in {0, 1} /\ Holding(run[r]) \in {0, 1}
      /\ Cardinality(Listed(StateRecords)) \in Nat /\ IsFiniteSet(Listed(StateRecords))
  BY FS_CardinalityType, ConstantsAssumption DEF TicketInv, Holding, TypeInv, TypeOK
<1>2. /\ Len(tickets') = Len(tickets) + none /\ none \in Nat /\ one \in Nat
      /\ Cardinality(Listed(StateRecords')) = Cardinality(Listed(StateRecords)) + none
      /\ IsFiniteSet(Listed(StateRecords'))
  BY <1>1
<1>3. CASE UNCHANGED faults /\ Holding(run[r]) = Holding(v)
  <2>1. faults' = faults - none /\ none + Holding(run[r]) <= none + none + Holding(v)
    BY <1>1, <1>3
  <2> HIDE DEF none
  <2>2. QED
    BY <1>2, <2>1, TicketBalance
<1>4. CASE faults > 0 /\ faults' = faults - 1
  <2>1. faults' = faults - one /\ none + Holding(run[r]) <= none + one + Holding(v)
    BY <1>1, <1>4
  <2> HIDE DEF none, one
  <2>2. QED
    BY <1>2, <2>1, TicketBalance
<1>5. QED
  BY <1>3, <1>4

LEMMA TicketFacts ==
  ASSUME TypeInv, NEW r \in Runners
  PROVE  /\ \A p \in Phases : [run[r] EXCEPT !.pc = p].ticket = run[r].ticket
         /\ [run[r] EXCEPT !.pc = "loop", !.pos = @ + 1, !.ticket = 0].ticket = 0
         /\ \A id : [run[r] EXCEPT !.pc = "kill", !.ticket = id].ticket = id
         /\ \A i, m : [run[r] EXCEPT !.pc = "write", !.fd = i, !.routed = m].ticket = run[r].ticket
         /\ [run[r] EXCEPT !.pc = "replace", !.fd = NoInode].ticket = run[r].ticket
  BY DEF TypeInv, TypeOK, Runs

LEMMA TicketInduction ==
  Everything /\ TicketInv /\ KeptApart /\ KeptApart' /\ [Next]_vars => TicketInv'
<1> SUFFICES ASSUME Everything, TicketInv, KeptApart, KeptApart', [Next]_vars
             PROVE  TicketInv'
  OBVIOUS
<1>0. /\ SharedOK /\ FilesInv /\ TypeInv /\ faults \in Nat /\ Len(tickets) \in Nat
      /\ \A s \in Runners : LocalOK(run[s]) /\ TicketPlace(run[s])
      /\ \A s \in Runners : Aligned(run[s], StateRecords, tmpInode, disk)
  BY ConstantsAssumption
  DEF Everything, TypeInv, TypeOK, SharedOK, SequentialInv, TicketInv
<1>00. UNCHANGED files => StateRecords' = StateRecords
  BY DEF files, StateRecords
<1>000. TicketPlace(IdleRun) /\ Holding(IdleRun) = 0
  BY DEF TicketPlace, Holding, IdleRun
<1>1. ASSUME NEW r \in Runners, NEW b \in Batches, NEW d \in BOOLEAN, StartRun(r, b, d)
      PROVE  TicketInv'
  <2> DEFINE v == Started(b, d, StateRecords)
  <2>0. v.pc # "idle"
    BY DEF Started
  <2>1. TicketPlace(v) /\ Holding(v) = 0 /\ Holding(run[r]) = 0
    BY <1>0, <1>1 DEF StartRun, TicketPlace, Holding, Started
  <2>2. Update(r, v) /\ UNCHANGED <<tickets, StateRecords>> /\ UNCHANGED faults
    BY <1>00, <1>1 DEF StartRun, glpi
  <2> HIDE DEF v
  <2>3. QED
    BY <1>0, <2>0, <2>1, <2>2, NothingOpened
<1>2. ASSUME NEW r \in Runners, SkipEvent(r)
      PROVE  TicketInv'
  <2>0. run[r].pc # "idle"
    BY <1>2 DEF SkipEvent
  <2> DEFINE v == [run[r] EXCEPT !.pc = "loop", !.pos = @ + 1, !.ticket = 0]
  <2>1. TicketPlace(v) /\ Holding(v) = 0 /\ Holding(run[r]) = 0
    BY <1>0, <1>2, TicketFacts DEF SkipEvent, TicketPlace, Holding
  <2>2. Update(r, v) /\ UNCHANGED <<tickets, StateRecords>> /\ UNCHANGED faults
    BY <1>00, <1>2 DEF SkipEvent, NextEvent, glpi
  <2> HIDE DEF v
  <2>3. QED
    BY <1>0, <2>0, <2>1, <2>2, NothingOpened
<1>3. ASSUME NEW r \in Runners, InitSession(r)
      PROVE  TicketInv'
  <2>0. run[r].pc # "idle"
    BY <1>3 DEF InitSession
  <2> DEFINE v == [run[r] EXCEPT !.pc = "post"]
  <2>1. TicketPlace(v) /\ Holding(v) = 0 /\ Holding(run[r]) = 0
    BY <1>0, <1>3, TicketFacts DEF InitSession, TicketPlace, Holding, Phases
  <2>2. UNCHANGED <<tickets, StateRecords>>
    BY <1>00, <1>3 DEF InitSession
  <2>3. \/ Update(r, v) /\ UNCHANGED faults
        \/ Update(r, IdleRun) /\ faults > 0 /\ faults' = faults - 1
    BY <1>3 DEF InitSession, Goto, EndRun, Fault
  <2> HIDE DEF v
  <2>4. QED
    BY <1>0, <2>0, <1>000, <2>1, <2>2, <2>3, NothingOpened
<1>4. ASSUME NEW r \in Runners, PostTicket(r)
      PROVE  TicketInv'
  <2>0. run[r].pc # "idle"
    BY <1>4 DEF PostTicket
  <2>1. /\ Holding(run[r]) = 0 /\ StateRecords' = StateRecords /\ Key(r) \in Keys
        /\ run[r].ticket = 0
    BY <1>0, <1>00, <1>4, KeyType DEF PostTicket, TicketPlace, Holding, LocalOK, Pending
  <2>2. Len(Append(tickets, Key(r))) = Len(tickets) + 1
    BY <1>0, <2>1 DEF SharedOK
  <2>3. CASE /\ tickets' = Append(tickets, Key(r)) /\ UNCHANGED faults
             /\ Update(r, [run[r] EXCEPT !.pc = "kill", !.ticket = Len(tickets) + 1])
    <3> DEFINE v == [run[r] EXCEPT !.pc = "kill", !.ticket = Len(tickets) + 1]
    <3>1. TicketPlace(v) /\ Holding(v) = 1
      BY <1>0, PhaseFacts, TicketFacts DEF TicketPlace, Holding
    <3> HIDE DEF v
    <3>2. /\ Len(tickets') = Len(tickets) + 1 /\ faults' = faults - 0
          /\ Cardinality(Listed(StateRecords')) = Cardinality(Listed(StateRecords)) + 0
          /\ IsFiniteSet(Listed(StateRecords'))
      BY <1>0, <2>1, <2>2, <2>3, FS_CardinalityType DEF TicketInv
    <3>3. Update(r, v)
      BY <2>3 DEF v
    <3>4. 1 + Holding(run[r]) <= 0 + 0 + Holding(v)
      BY <2>1, <3>1
    <3>5. QED
      BY <1>0, <2>0, <3>1, <3>2, <3>3, <3>4, TicketBalance
  <2>4. CASE /\ tickets' \in {tickets, Append(tickets, Key(r))}
             /\ faults' = faults - 1 /\ Goto(r, "kill")
    <3> DEFINE v == [run[r] EXCEPT !.pc = "kill"]
    <3>1. TicketPlace(v) /\ Holding(v) = 0
      BY <1>0, <2>1, TicketFacts DEF TicketPlace, Holding, Phases
    <3> HIDE DEF v
    <3>2. PICK n \in {0, 1} : Len(tickets') = Len(tickets) + n
      BY <1>0, <2>2, <2>4
    <3>3. /\ Cardinality(Listed(StateRecords')) = Cardinality(Listed(StateRecords)) + 0
          /\ IsFiniteSet(Listed(StateRecords'))
      BY <2>1, FS_CardinalityType DEF TicketInv
    <3>4. Update(r, v)
      BY <2>4 DEF v, Goto
    <3>5. n \in Nat /\ n + Holding(run[r]) <= 0 + 1 + Holding(v)
      BY <2>1, <3>1
    <3>6. QED
      BY <1>0, <2>0, <2>4, <3>1, <3>2, <3>3, <3>4, <3>5, TicketBalance
  <2>5. QED
    BY <1>4, <2>3, <2>4 DEF PostTicket, Fault
<1>5. ASSUME NEW r \in Runners, KillSession(r)
      PROVE  TicketInv'
  <2>0. run[r].pc # "idle"
    BY <1>5 DEF KillSession
  <2> DEFINE v == [run[r] EXCEPT !.pc = "mark"]
  <2>1. TicketPlace(v) /\ Holding(v) = Holding(run[r])
    BY <1>0, PhaseFacts, TicketFacts DEF TicketPlace, Holding, Phases
  <2>2. UNCHANGED <<tickets, StateRecords>>
    BY <1>00, <1>5 DEF KillSession
  <2>3. LeaveCreateTicket(r) => (Update(r, v) \/ (Update(r, IdleRun) /\ Holding(run[r]) = 0))
    <3>1. CASE run[r].ticket # 0
      BY <3>1 DEF LeaveCreateTicket, Goto
    <3>2. CASE run[r].ticket = 0
      BY <3>2 DEF LeaveCreateTicket, EndRun, Holding
    <3>3. QED
      BY <3>1, <3>2
  <2> HIDE DEF v
  <2>4. CASE LeaveCreateTicket(r) /\ UNCHANGED faults
    BY <1>0, <2>0, <1>000, <2>1, <2>2, <2>3, <2>4, NothingOpened
  <2>5. CASE LeaveCreateTicket(r) /\ faults > 0 /\ faults' = faults - 1
    BY <1>0, <2>0, <1>000, <2>1, <2>2, <2>3, <2>5, NothingOpened
  <2>6. CASE EndRun(r) /\ faults > 0 /\ faults' = faults - 1
    BY <1>0, <2>0, <1>000, <2>2, <2>6, NothingOpened DEF EndRun
  <2>7. QED
    BY <1>5, <2>4, <2>5, <2>6 DEF KillSession, Fault
<1>6. ASSUME NEW r \in Runners, MarkOpen(r)
      PROVE  TicketInv'
  <2>0. run[r].pc # "idle"
    BY <1>6 DEF MarkOpen
  <2> DEFINE m == [run[r].routed EXCEPT ![Key(r)] = run[r].ticket]
  <2>1. PICK i \in Inodes \ {stateInode} :
          /\ stateInode' = stateInode /\ disk' = [disk EXCEPT ![i] = Empty]
          /\ Update(r, [run[r] EXCEPT !.pc = "write", !.fd = i, !.routed = m])
    BY <1>0, <1>6 DEF MarkOpen, FreeInodes, SharedOK, FilesInv
  <2>2. UNCHANGED <<tickets, StateRecords>> /\ UNCHANGED faults
    BY <1>0, <1>6, <2>1, ConstantsAssumption DEF MarkOpen, SharedOK, StateRecords, glpi
  <2> HIDE DEF m
  <2> DEFINE v == [run[r] EXCEPT !.pc = "write", !.fd = i, !.routed = m]
  <2>3. TicketPlace(v) /\ Holding(v) = Holding(run[r])
    BY <1>0, PhaseFacts, TicketFacts DEF TicketPlace, Holding
  <2> HIDE DEF v
  <2>4. Update(r, v)
    BY <2>1 DEF v
  <2>5. QED
    BY <1>0, <2>0, <2>2, <2>3, <2>4, NothingOpened
<1>7. ASSUME NEW r \in Runners, WriteTmp(r)
      PROVE  TicketInv'
  <2>0. run[r].pc # "idle"
    BY <1>7 DEF WriteTmp
  <2> DEFINE v == [run[r] EXCEPT !.pc = "replace", !.fd = NoInode]
  <2>1. run[r].fd = tmpInode /\ tmpInode # stateInode
    BY <1>0, <1>7 DEF WriteTmp, Aligned, FilesInv
  <2>2. UNCHANGED <<tickets, StateRecords>> /\ UNCHANGED faults /\ Update(r, v)
    BY <1>0, <1>7, <2>1 DEF WriteTmp, SharedOK, StateRecords, glpi
  <2>3. TicketPlace(v) /\ Holding(v) = Holding(run[r])
    BY <1>0, PhaseFacts, TicketFacts DEF TicketPlace, Holding
  <2> HIDE DEF v
  <2>4. QED
    BY <1>0, <2>0, <2>2, <2>3, NothingOpened
<1>8. ASSUME NEW r \in Runners, ReplaceState(r)
      PROVE  TicketInv'
  <2>0. run[r].pc # "idle"
    BY <1>8 DEF ReplaceState
  <2> DEFINE v == [run[r] EXCEPT !.pc = "loop", !.pos = @ + 1, !.ticket = 0]
  <2>1. /\ Key(r) \in Keys /\ StateRecords[Key(r)] = 0 /\ run[r].ticket # 0
        /\ tmpInode # NoInode /\ StateRecords \in RoutedMaps
        /\ disk[tmpInode] = [StateRecords EXCEPT ![Key(r)] = run[r].ticket]
    BY <1>0, <1>8, KeyType
    DEF ReplaceState, LocalOK, Pending, Aligned, Key, EventKey, FilesInv, StateReadable
  <2>2. /\ StateRecords' = [StateRecords EXCEPT ![Key(r)] = run[r].ticket]
        /\ UNCHANGED <<tickets, faults>> /\ Update(r, v)
    BY <1>0, <1>8, <2>1 DEF ReplaceState, NextEvent, StateRecords, SharedOK, glpi
  <2>3. TicketPlace(v) /\ Holding(v) = 0 /\ Holding(run[r]) = 1
    BY <1>0, <2>1, TicketFacts DEF TicketPlace, Holding
  <2> HIDE DEF v
  <2>4. /\ Listed(StateRecords') = Listed(StateRecords) \cup {Key(r)}
        /\ Key(r) \notin Listed(StateRecords)
    BY <2>1, <2>2 DEF Listed, RoutedMaps
  <2>5. IsFiniteSet(Listed(StateRecords))
    BY DEF TicketInv
  <2>6. /\ IsFiniteSet(Listed(StateRecords'))
        /\ Cardinality(Listed(StateRecords')) = Cardinality(Listed(StateRecords)) + 1
    <3>1. /\ IsFiniteSet(Listed(StateRecords) \cup {Key(r)})
          /\ Cardinality(Listed(StateRecords) \cup {Key(r)}) =
               IF Key(r) \in Listed(StateRecords) THEN Cardinality(Listed(StateRecords))
               ELSE Cardinality(Listed(StateRecords)) + 1
      BY <2>5, FS_AddElement
    <3>2. QED
      BY <2>4, <3>1
  <2> DEFINE none == 0
             one == 1
  <2>7. /\ Len(tickets') = Len(tickets) + none /\ faults' = faults - none
        /\ Cardinality(Listed(StateRecords')) = Cardinality(Listed(StateRecords)) + one
        /\ none \in Nat /\ one \in Nat
    BY <1>0, <2>2, <2>6 DEF TypeInv, TypeOK
  <2>8. none + Holding(run[r]) <= one + none + Holding(v)
    BY <2>3
  <2> HIDE DEF none, one
  <2>9. QED
    BY <1>0, <2>0, <2>2, <2>3, <2>6, <2>7, <2>8, TicketBalance
<1>9. ASSUME NEW r \in Runners, FinishRun(r)
      PROVE  TicketInv'
  <2>0. run[r].pc # "idle"
    BY <1>9 DEF FinishRun
  <2>1. Holding(run[r]) = 0 /\ Update(r, IdleRun)
    BY <1>0, <1>9 DEF FinishRun, EndRun, TicketPlace, Holding
  <2>2. UNCHANGED <<tickets, StateRecords>> /\ UNCHANGED faults
    BY <1>00, <1>9 DEF FinishRun, glpi
  <2>3. QED
    BY <1>0, <2>0, <1>000, <2>1, <2>2, NothingOpened
<1>10. ASSUME NEW r \in Runners, Crash(r)
      PROVE  TicketInv'
  <2>0. run[r].pc # "idle"
    BY <1>10 DEF Crash
  <2>1. /\ UNCHANGED <<tickets, StateRecords>> /\ Update(r, IdleRun)
        /\ faults > 0 /\ faults' = faults - 1
    BY <1>00, <1>10 DEF Crash, EndRun, Fault, glpi
  <2>2. QED
    BY <1>0, <2>0, <1>000, <2>1, NothingOpened
<1>11. CASE UNCHANGED vars
  BY <1>11 DEF vars, TicketInv, StateRecords
<1>12. QED
  BY <1>1, <1>2, <1>3, <1>4, <1>5, <1>6, <1>7, <1>8, <1>9, <1>10, <1>11 DEF Next, RunStep

LEMMA TicketInit == Init => TicketInv
<1> SUFFICES ASSUME Init PROVE TicketInv
  OBVIOUS
<1>1. /\ Listed(StateRecords) = {} /\ Len(tickets) = 0 /\ MaxFaults - faults = 0
      /\ Holders(run) = {}
  BY ConstantsAssumption DEF Init, Listed, StateRecords, NoRecords, Holders, IdleRun
<1>2. \A r \in Runners : TicketPlace(run[r])
  BY DEF Init, TicketPlace, IdleRun
<1>3. IsFiniteSet({}) /\ Cardinality({}) = 0
  BY FS_EmptySet
<1>4. QED
  BY <1>1, <1>2, <1>3 DEF TicketInv

\* While runs do not overlap GLPI never has more tickets than the state file lists, the
\* faults so far explain and a run in progress holds.
THEOREM SequentialTicketsArePaidFor == Spec /\ []KeptApart => []UnlistedTicketsPaidFor
<1>1. TicketInv => UnlistedTicketsPaidFor
  BY DEF TicketInv, UnlistedTicketsPaidFor, Listed, Holders
<1>2. Spec /\ []KeptApart => [](Everything /\ TicketInv)
  BY TicketInit, TicketInduction, EverythingHolds, PTL DEF Spec
<1>3. QED
  BY <1>1, <1>2, PTL

-----------------------------------------------------------------------------
(***************************************************************************)
(* One ticket per key, unless a ticket's id can be lost.                   *)
(***************************************************************************)

\* The faults after which a ticket may exist that the script does not know of: a lost
\* answer to the POST, a killSession that fails below HTTP, the death of the process.
\* Those that remain are a failing initSession and a refused killSession.
NothingLost == FaultKinds \subseteq {"init", "kill_refused"}

\* Every ticket is listed under its own key or held by a run.
Accounted == \A n \in 1..Len(tickets) : \/ StateRecords[tickets[n]] = n
                                         \/ \E r \in Runners : run[r].ticket = n

\* A step that opens and lists nothing keeps the tickets accounted for, unless its run
\* lets go of one.
LEMMA AccountedStep ==
  ASSUME TypeInv, Accounted, UNCHANGED <<tickets, StateRecords>>,
         NEW r \in Runners, NEW v, Update(r, v), v.ticket = run[r].ticket \/ run[r].ticket = 0
  PROVE  Accounted'
<1>1. \A s \in Runners : run'[s] = IF s = r THEN v ELSE run[s]
  BY DEF Update, TypeInv, TypeOK
<1>2. SUFFICES ASSUME NEW n \in 1..Len(tickets), StateRecords[tickets[n]] # n
               PROVE  \E s \in Runners : run'[s].ticket = n
  BY DEF Accounted
<1>3. PICK s \in Runners : run[s].ticket = n
  BY <1>2 DEF Accounted
<1>4. n # 0
  BY <1>2
<1>5. run'[s].ticket = n
  BY <1>1, <1>3, <1>4
<1>6. QED
  BY <1>5

LEMMA AccountedInduction ==
  ASSUME NothingLost
  PROVE  Everything /\ TicketInv /\ Accounted /\ [Next]_vars => Accounted'
<1> SUFFICES ASSUME Everything, TicketInv, Accounted, [Next]_vars PROVE Accounted'
  OBVIOUS
<1>0. /\ SharedOK /\ FilesInv /\ TypeInv
      /\ \A s \in Runners : LocalOK(run[s]) /\ LocalGenuine(run[s], tickets) /\ TicketPlace(run[s])
      /\ \A s \in Runners : Aligned(run[s], StateRecords, tmpInode, disk)
  BY DEF Everything, TypeInv, TypeOK, SharedOK, GenuineInv, SequentialInv, TicketInv
<1>00. UNCHANGED files => StateRecords' = StateRecords
  BY DEF files, StateRecords
<1>000. \A kind \in {"post", "kill_lost", "crash"} : ~Fault(kind)
  BY DEF NothingLost, Fault
<1>1. ASSUME NEW r \in Runners, NEW b \in Batches, NEW d \in BOOLEAN, StartRun(r, b, d)
      PROVE  Accounted'
  <2>1. run[r].ticket = 0
    BY <1>0, <1>1 DEF StartRun, TicketPlace
  <2>2. QED
    BY <1>0, <1>00, <1>1, <2>1, AccountedStep DEF StartRun, glpi
<1>2. ASSUME NEW r \in Runners, SkipEvent(r) \/ InitSession(r) \/ FinishRun(r)
      PROVE  Accounted'
  <2>1. run[r].ticket = 0
    BY <1>0, <1>2 DEF SkipEvent, InitSession, FinishRun, TicketPlace
  <2>2. UNCHANGED <<tickets, StateRecords>> /\ \E v : Update(r, v)
    BY <1>00, <1>2 DEF SkipEvent, InitSession, FinishRun, NextEvent, Goto, EndRun, glpi
  <2>3. QED
    BY <1>0, <2>1, <2>2, AccountedStep
<1>3. ASSUME NEW r \in Runners, PostTicket(r)
      PROVE  Accounted'
  <2>1. /\ tickets' = Append(tickets, Key(r)) /\ StateRecords' = StateRecords
        /\ Update(r, [run[r] EXCEPT !.pc = "kill", !.ticket = Len(tickets) + 1])
    BY <1>00, <1>000, <1>3 DEF PostTicket
  <2>2. run[r].ticket = 0 /\ Key(r) \in Keys
    BY <1>0, <1>3, KeyType DEF PostTicket, TicketPlace, LocalOK, Pending
  <2>3. /\ run'[r].ticket = Len(tickets) + 1
        /\ \A s \in Runners \ {r} : run'[s] = run[s]
    BY <1>0, <2>1, TicketFacts DEF Update, TypeInv, TypeOK
  <2>4. SUFFICES ASSUME NEW n \in 1..Len(tickets')
                 PROVE  \/ StateRecords'[tickets'[n]] = n
                        \/ \E s \in Runners : run'[s].ticket = n
    BY DEF Accounted
  <2>5. CASE n = Len(tickets) + 1
    BY <2>3, <2>5
  <2>6. CASE n \in 1..Len(tickets)
    <3>1. tickets'[n] = tickets[n]
      BY <1>0, <2>1, <2>2, <2>6 DEF SharedOK
    <3>2. StateRecords[tickets[n]] = n \/ \E s \in Runners : run[s].ticket = n
      BY <2>6 DEF Accounted
    <3>3. \A s \in Runners : run[s].ticket = n => s # r
      BY <2>2, <2>6
    <3>4. QED
      BY <2>1, <2>3, <3>1, <3>2, <3>3
  <2>7. QED
    BY <1>0, <2>1, <2>2, <2>4, <2>5, <2>6 DEF SharedOK
<1>4. ASSUME NEW r \in Runners, KillSession(r)
      PROVE  Accounted'
  <2>1. LeaveCreateTicket(r) /\ UNCHANGED <<tickets, StateRecords>>
    BY <1>00, <1>000, <1>4 DEF KillSession
  <2>2. CASE run[r].ticket # 0
    <3>1. Update(r, [run[r] EXCEPT !.pc = "mark"])
      BY <2>1, <2>2 DEF LeaveCreateTicket, Goto
    <3>2. [run[r] EXCEPT !.pc = "mark"].ticket = run[r].ticket
      BY <1>0, TicketFacts DEF Phases
    <3>3. QED
      BY <1>0, <2>1, <3>1, <3>2, AccountedStep
  <2>3. CASE run[r].ticket = 0
    BY <1>0, <2>1, <2>3, AccountedStep DEF LeaveCreateTicket, EndRun
  <2>4. QED
    BY <2>2, <2>3
<1>5. ASSUME NEW r \in Runners, MarkOpen(r)
      PROVE  Accounted'
  <2> DEFINE m == [run[r].routed EXCEPT ![Key(r)] = run[r].ticket]
  <2>1. PICK i \in Inodes \ {stateInode} :
          /\ stateInode' = stateInode /\ disk' = [disk EXCEPT ![i] = Empty]
          /\ Update(r, [run[r] EXCEPT !.pc = "write", !.fd = i, !.routed = m])
    BY <1>0, <1>5 DEF MarkOpen, FreeInodes, SharedOK, FilesInv
  <2>2. UNCHANGED <<tickets, StateRecords>>
    BY <1>0, <1>5, <2>1, ConstantsAssumption DEF MarkOpen, SharedOK, StateRecords, glpi
  <2> HIDE DEF m
  <2>3. [run[r] EXCEPT !.pc = "write", !.fd = i, !.routed = m].ticket = run[r].ticket
    BY <1>0, TicketFacts
  <2>4. QED
    BY <1>0, <2>1, <2>2, <2>3, AccountedStep
<1>6. ASSUME NEW r \in Runners, WriteTmp(r)
      PROVE  Accounted'
  <2>1. run[r].fd = tmpInode /\ tmpInode # stateInode
    BY <1>0, <1>6 DEF WriteTmp, Aligned, FilesInv
  <2>2. UNCHANGED <<tickets, StateRecords>>
    BY <1>0, <1>6, <2>1 DEF WriteTmp, SharedOK, StateRecords, glpi
  <2>3. [run[r] EXCEPT !.pc = "replace", !.fd = NoInode].ticket = run[r].ticket
    BY <1>0, TicketFacts
  <2>4. QED
    BY <1>0, <1>6, <2>2, <2>3, AccountedStep DEF WriteTmp
<1>7. ASSUME NEW r \in Runners, ReplaceState(r)
      PROVE  Accounted'
  <2>1. /\ Key(r) \in Keys /\ StateRecords[Key(r)] = 0
        /\ run[r].ticket \in 1..Len(tickets) /\ tickets[run[r].ticket] = Key(r)
        /\ tmpInode # NoInode /\ StateRecords \in RoutedMaps
        /\ disk[tmpInode] = [StateRecords EXCEPT ![Key(r)] = run[r].ticket]
    BY <1>0, <1>7, KeyType
    DEF ReplaceState, LocalOK, LocalGenuine, Pending, Aligned, Key, EventKey, FilesInv,
        StateReadable
  <2>2. /\ StateRecords' = [StateRecords EXCEPT ![Key(r)] = run[r].ticket]
        /\ UNCHANGED tickets /\ \A s \in Runners \ {r} : run'[s] = run[s]
    BY <1>0, <1>7, <2>1
    DEF ReplaceState, NextEvent, Update, StateRecords, SharedOK, TypeInv, TypeOK, glpi
  <2>3. SUFFICES ASSUME NEW n \in 1..Len(tickets)
                 PROVE  \/ StateRecords'[tickets[n]] = n
                        \/ \E s \in Runners : run'[s].ticket = n
    BY <2>2 DEF Accounted
  <2>4. tickets[n] \in Keys /\ n # 0
    BY <1>0 DEF SharedOK
  <2>5. CASE run[r].ticket = n
    BY <2>1, <2>2, <2>5 DEF RoutedMaps
  <2>6. CASE StateRecords[tickets[n]] = n
    BY <2>1, <2>2, <2>4, <2>6 DEF RoutedMaps
  <2>7. CASE \E s \in Runners \ {r} : run[s].ticket = n
    BY <2>2, <2>7
  <2>8. QED
    BY <2>5, <2>6, <2>7 DEF Accounted
<1>8. ASSUME NEW r \in Runners, Crash(r)
      PROVE  Accounted'
  BY <1>000, <1>8 DEF Crash
<1>9. CASE UNCHANGED vars
  BY <1>9 DEF vars, Accounted, StateRecords
<1>10. QED
  BY <1>1, <1>2, <1>3, <1>4, <1>5, <1>6, <1>7, <1>8, <1>9 DEF Next, RunStep

\* What the runbook promises does hold while runs are kept apart and no ticket's id can
\* be lost, however often sessions cannot be opened or are not killed: each
\* source:event_id gets one ticket.
THEOREM OneTicketUnlessLost ==
  ASSUME NothingLost
  PROVE  Spec /\ []KeptApart => []OneTicketPerKey
<1>1. Init => TicketInv /\ Accounted
  <2>1. Init => Accounted
    BY DEF Init, Accounted
  <2>2. QED
    BY <2>1, TicketInit
<1>2. Everything /\ TicketInv /\ Accounted /\ KeptApart => OneTicketPerKey
  <2> SUFFICES ASSUME Everything, TicketInv, Accounted, KeptApart,
                      NEW i \in 1..Len(tickets), NEW j \in 1..Len(tickets),
                      tickets[i] = tickets[j]
               PROVE  i = j
    BY DEF OneTicketPerKey
  <2>1. ASSUME NEW n \in 1..Len(tickets), NEW r \in Runners, run[r].ticket = n
        PROVE  run[r].pc # "idle" /\ StateRecords[tickets[n]] = 0
    <3>1. n # 0
      OBVIOUS
    <3>2. run[r].pc \in {"kill", "mark", "write", "replace"}
      BY <2>1, <3>1 DEF TicketInv, TicketPlace
    <3>3. tickets[n] = EventKey(run[r])
      BY <2>1, <3>1 DEF Everything, GenuineInv, LocalGenuine, EventKey
    <3>4. QED
      BY <3>2, <3>3 DEF Everything, SequentialInv, Aligned
  <2>2. /\ StateRecords[tickets[i]] = i \/ \E r \in Runners : run[r].ticket = i
        /\ StateRecords[tickets[j]] = j \/ \E r \in Runners : run[r].ticket = j
    BY DEF Accounted
  <2>3. i # 0 /\ j # 0
    OBVIOUS
  <2>4. CASE \E r, s \in Runners : run[r].ticket = i /\ run[s].ticket = j
    BY <2>1, <2>4 DEF KeptApart
  <2>5. QED
    BY <2>1, <2>2, <2>3, <2>4
<1>3. Spec /\ []KeptApart => [](Everything /\ TicketInv /\ Accounted)
  BY <1>1, TicketInduction, AccountedInduction, EverythingHolds, PTL DEF Spec
<1>4. QED
  BY <1>2, <1>3, PTL
=============================================================================
