---------------------------- MODULE AlertRouting ----------------------------
(***************************************************************************)
(* Runs of scripts/route-glpi-alerts.py against one state file and one     *)
(* GLPI server.                                                            *)
(*                                                                         *)
(* A run loads the whole state file once, then for each event of its batch *)
(* either skips it (already routed, or dry run) or opens a GLPI session,   *)
(* posts the ticket, kills the session and rewrites the state file through *)
(* a temporary file.  Every request may be lost before or after the server *)
(* acted on it, a run may die between any two steps, and runs may overlap. *)
(*                                                                         *)
(* The temporary file has one fixed name, so overlapping runs share it.    *)
(* Files are therefore inodes with two directory entries, as the kernel    *)
(* sees them: a run that has opened the temporary file keeps writing to    *)
(* that inode after another run has renamed it over the state file.        *)
(***************************************************************************)
EXTENDS Integers, Sequences, FiniteSets

CONSTANTS
  Runners,     \* processes that may run the script, one run after another
  Events,      \* alert events
  Keys,        \* dedupe keys
  KeyOf,       \* Events -> Keys: f"{source}:{event_id}" of the bounded texts
  Batches,     \* the event files a run may be given, as sequences of events
  Inodes,      \* at least one more per runner than the two directory entries
  NoInode,     \* an absent directory entry, a closed descriptor
  Empty, Torn, \* file contents that are not JSON: truncated, or overlaid
  FaultKinds,  \* which of AllFaultKinds may happen
  MaxFaults,   \* how many faults in a behaviour
  MaxTickets   \* bound on the tickets GLPI opens in a behaviour

\* What may go wrong: initSession fails; the POST fails or its answer is lost or
\* has no integer id; killSession is refused (HTTPError, so RuntimeError);
\* killSession fails below HTTP (URLError, timeout, answer not JSON); the
\* process dies or a local write raises OSError.
AllFaultKinds == {"init", "post", "kill_refused", "kill_lost", "crash"}

ASSUME ConstantsAssumption ==
  /\ KeyOf \in [Events -> Keys]
  /\ Batches \subseteq Seq(Events)
  /\ NoInode \notin Inodes
  /\ Empty \notin [Keys -> Nat] /\ Torn \notin [Keys -> Nat] /\ Empty # Torn
  /\ FaultKinds \subseteq AllFaultKinds
  /\ MaxFaults \in Nat /\ MaxTickets \in Nat

VARIABLES
  stateInode,   \* what <state> names
  tmpInode,     \* what <state>.tmp names
  disk,         \* Inodes -> contents
  run,          \* Runners -> the local state of the current run
  tickets,      \* GLPI: the key each ticket was posted for; ids are indices
  openSessions, \* GLPI: sessions opened and not killed
  faults,       \* faults still allowed
  failedPosts   \* history: how many POSTs of a ticket failed

vars == <<stateInode, tmpInode, disk, run, tickets, openSessions, faults, failedPosts>>
files == <<stateInode, tmpInode, disk>>
glpi == <<tickets, openSessions>>

\* The "routed" object: key -> glpi_ticket_id, 0 for a key it does not hold.
RoutedMaps == [Keys -> Nat]
NoRecords == [k \in Keys |-> 0]
Contents == RoutedMaps \cup {Empty, Torn}

Phases == {"idle", "loop", "post", "kill", "mark", "write", "replace"}

Runs == [pc: Phases, batch: Seq(Events), pos: Nat, dry: BOOLEAN,
         routed: RoutedMaps, ticket: Nat, fd: Inodes \cup {NoInode}]

IdleRun == [pc |-> "idle", batch |-> << >>, pos |-> 1, dry |-> FALSE,
            routed |-> NoRecords, ticket |-> 0, fd |-> NoInode]

Started(batch, dry, records) ==
  [pc |-> "loop", batch |-> batch, pos |-> 1, dry |-> dry,
   routed |-> records, ticket |-> 0, fd |-> NoInode]

-----------------------------------------------------------------------------
\* The event a run is working on, and the draft's dedupe key.
Pending(r) == run[r].pos <= Len(run[r].batch)
Key(r) == KeyOf[run[r].batch[run[r].pos]]

\* TicketState.seen: the run's own copy, loaded when the run started.
Seen(r) == run[r].routed[Key(r)] # 0

Update(r, local) == run' = [run EXCEPT ![r] = local]
Goto(r, phase) == Update(r, [run[r] EXCEPT !.pc = phase])
\* Mutant of NextEvent: the index advances twice.
SkippingNextEvent(r) ==
  Update(r, [run[r] EXCEPT !.pc = "loop", !.pos = @ + 2, !.ticket = 0])

NextEvent(r) == Update(r, [run[r] EXCEPT !.pc = "loop", !.pos = @ + 1, !.ticket = 0])
EndRun(r) == Update(r, IdleRun)

\* Charge a fault of one of these kinds.
Fault(kind) == /\ kind \in FaultKinds
               /\ faults > 0
               /\ faults' = faults - 1

\* _load_state: an absent file is an empty map; contents that are not JSON raise.
StateRecords == IF stateInode = NoInode THEN NoRecords ELSE disk[stateInode]
StateReadable == StateRecords \in RoutedMaps

\* Inodes the kernel may hand out for a new file.
FreeInodes == Inodes \ ({stateInode, tmpInode} \cup {run[s].fd : s \in Runners})

\* Writing a document from offset 0: over a document that another run has put
\* there since the open truncated the file, the longer one's tail may remain.
Overlaid(old, new) == IF old = Empty THEN {new} ELSE {new, Torn}

-----------------------------------------------------------------------------
Init ==
  /\ stateInode = NoInode
  /\ tmpInode = NoInode
  /\ disk = [i \in Inodes |-> Empty]
  /\ run = [r \in Runners |-> IdleRun]
  /\ tickets = << >>
  /\ openSessions = 0
  /\ faults = MaxFaults
  /\ failedPosts = 0

\* Mutant of StartRun: TicketState starts empty instead of loading the file.
ForgetfulStartRun(r, batch, dry) ==
  /\ run[r].pc = "idle"
  /\ StateReadable
  /\ Update(r, Started(batch, dry, NoRecords))
  /\ UNCHANGED <<files, glpi, faults, failedPosts>>

\* main: load the events, then the state file, then enter route_events.  A state
\* file that is not JSON ends the run here, with nothing changed.
StartRun(r, batch, dry) ==
  /\ run[r].pc = "idle"
  /\ StateReadable
  /\ Update(r, Started(batch, dry, StateRecords))
  /\ UNCHANGED <<files, glpi, faults, failedPosts>>

\* The events route_events does not post: seen before, or a dry run.
SkipEvent(r) ==
  /\ run[r].pc = "loop" /\ Pending(r)
  /\ Seen(r) \/ run[r].dry
  /\ NextEvent(r)
  /\ UNCHANGED <<files, glpi, faults, failedPosts>>

\* _init_session.  A failure raises out of route_events and ends the run; the
\* server may have opened the session whose token was lost.
InitSession(r) ==
  /\ run[r].pc = "loop" /\ Pending(r)
  /\ ~Seen(r) /\ ~run[r].dry
  /\ \/ /\ Goto(r, "post")
        /\ openSessions' = openSessions + 1
        /\ UNCHANGED faults
     \/ /\ Fault("init")
        /\ EndRun(r)
        /\ openSessions' \in {openSessions, openSessions + 1}
  /\ UNCHANGED <<files, tickets, failedPosts>>

\* Mutant of PostTicket: a failed POST leaves at once, without the finally clause.
PostTicketWithoutFinally(r) ==
  /\ run[r].pc = "post"
  /\ \/ /\ Len(tickets) < MaxTickets
        /\ tickets' = Append(tickets, Key(r))
        /\ Update(r, [run[r] EXCEPT !.pc = "kill", !.ticket = Len(tickets) + 1])
        /\ UNCHANGED <<faults, failedPosts>>
     \/ /\ Fault("post")
        /\ failedPosts' = failedPosts + 1
        /\ EndRun(r)
        /\ UNCHANGED tickets
  /\ UNCHANGED <<files, openSessions>>

\* Mutant of PostTicket: an answer that is not a created ticket passes for one.
CredulousPostTicket(r) ==
  /\ run[r].pc = "post"
  /\ \/ /\ Len(tickets) < MaxTickets
        /\ tickets' = Append(tickets, Key(r))
        /\ UNCHANGED <<faults, failedPosts>>
     \/ /\ Fault("post")
        /\ failedPosts' = failedPosts + 1
        /\ UNCHANGED tickets
  /\ Update(r, [run[r] EXCEPT !.pc = "kill", !.ticket = Len(tickets) + 1])
  /\ UNCHANGED <<files, openSessions>>

\* POST /Ticket.  A failure leaves ticket_id unset and the exception pending
\* while the finally clause runs; the server may have opened the ticket.
PostTicket(r) ==
  /\ run[r].pc = "post"
  /\ \/ /\ Len(tickets) < MaxTickets
        /\ tickets' = Append(tickets, Key(r))
        /\ Update(r, [run[r] EXCEPT !.pc = "kill", !.ticket = Len(tickets) + 1])
        /\ UNCHANGED <<faults, failedPosts>>
     \/ /\ Fault("post")
        /\ failedPosts' = failedPosts + 1
        /\ \/ UNCHANGED tickets
           \/ Len(tickets) < MaxTickets /\ tickets' = Append(tickets, Key(r))
        /\ Goto(r, "kill")
  /\ UNCHANGED <<files, openSessions>>

\* Mutant of LeaveCreateTicket: a failed event is passed over, the batch goes on.
LeaveCarryingOn(r) == IF run[r].ticket # 0 THEN Goto(r, "mark") ELSE NextEvent(r)

\* After the finally clause: return the ticket id, or re-raise what is pending.
LeaveCreateTicket(r) == IF run[r].ticket # 0 THEN Goto(r, "mark") ELSE EndRun(r)

\* The finally clause's _kill_session.  A RuntimeError is swallowed when there is
\* a ticket id; any other exception replaces the return value and ends the run.
KillSession(r) ==
  /\ run[r].pc = "kill"
  /\ \/ /\ LeaveCreateTicket(r)
        /\ openSessions' = openSessions - 1
        /\ UNCHANGED faults
     \/ /\ Fault("kill_refused")
        /\ LeaveCreateTicket(r)
        /\ UNCHANGED openSessions
     \/ /\ Fault("kill_lost")
        /\ EndRun(r)
        /\ openSessions' \in {openSessions, openSessions - 1}
  /\ UNCHANGED <<files, tickets, failedPosts>>

\* Mutant of MarkOpen: the state file is rewritten in place.
MarkOpenInPlace(r) ==
  /\ run[r].pc = "mark"
  /\ \E i \in IF stateInode = NoInode THEN FreeInodes ELSE {stateInode} :
       /\ tmpInode' = i
       /\ disk' = [disk EXCEPT ![i] = Empty]
       /\ Update(r, [run[r] EXCEPT !.pc = "write", !.fd = i,
                                   !.routed = [@ EXCEPT ![Key(r)] = run[r].ticket]])
  /\ UNCHANGED <<stateInode, glpi, faults, failedPosts>>

\* Mutant of MarkOpen: the ticket is not entered in the map that is written.
MarkOpenWithoutEntry(r) ==
  /\ run[r].pc = "mark"
  /\ \E i \in IF tmpInode = NoInode THEN FreeInodes ELSE {tmpInode} :
       /\ tmpInode' = i
       /\ disk' = [disk EXCEPT ![i] = Empty]
       /\ Update(r, [run[r] EXCEPT !.pc = "write", !.fd = i])
  /\ UNCHANGED <<stateInode, glpi, faults, failedPosts>>

\* TicketState.mark, first half: enter the ticket in the run's own map, then open
\* <state>.tmp for writing, which truncates it or creates it.
MarkOpen(r) ==
  /\ run[r].pc = "mark"
  /\ \E i \in IF tmpInode = NoInode THEN FreeInodes ELSE {tmpInode} :
       /\ tmpInode' = i
       /\ disk' = [disk EXCEPT ![i] = Empty]
       /\ Update(r, [run[r] EXCEPT !.pc = "write", !.fd = i,
                                   !.routed = [@ EXCEPT ![Key(r)] = run[r].ticket]])
  /\ UNCHANGED <<stateInode, glpi, faults, failedPosts>>

\* write_text writes the run's whole map and closes the descriptor.
WriteTmp(r) ==
  /\ run[r].pc = "write"
  /\ \E c \in Overlaid(disk[run[r].fd], run[r].routed) :
       disk' = [disk EXCEPT ![run[r].fd] = c]
  /\ Update(r, [run[r] EXCEPT !.pc = "replace", !.fd = NoInode])
  /\ UNCHANGED <<stateInode, tmpInode, glpi, faults, failedPosts>>

\* Mutant of ReplaceState: the temporary file is left where it is.
NeverReplaceState(r) ==
  /\ run[r].pc = "replace"
  /\ NextEvent(r)
  /\ UNCHANGED <<files, glpi, faults, failedPosts>>

\* chmod and replace, then the "created" result.  When another run has renamed the
\* temporary file away, FileNotFoundError ends this run.
ReplaceState(r) ==
  /\ run[r].pc = "replace"
  /\ \/ /\ tmpInode # NoInode
        /\ stateInode' = tmpInode
        /\ tmpInode' = NoInode
        /\ NextEvent(r)
     \/ /\ tmpInode = NoInode
        /\ EndRun(r)
        /\ UNCHANGED <<stateInode, tmpInode>>
  /\ UNCHANGED <<disk, glpi, faults, failedPosts>>

\* The loop is over: the results are printed and the process exits.
FinishRun(r) ==
  /\ run[r].pc = "loop" /\ ~Pending(r)
  /\ EndRun(r)
  /\ UNCHANGED <<files, glpi, faults, failedPosts>>

\* The process is killed, or a local file operation raises OSError.
Crash(r) ==
  /\ run[r].pc # "idle"
  /\ Fault("crash")
  /\ EndRun(r)
  /\ UNCHANGED <<files, glpi, failedPosts>>

RunStep(r) == \/ SkipEvent(r) \/ InitSession(r) \/ PostTicket(r) \/ KillSession(r)
              \/ MarkOpen(r) \/ WriteTmp(r) \/ ReplaceState(r) \/ FinishRun(r)

Next == \E r \in Runners : \/ \E b \in Batches, d \in BOOLEAN : StartRun(r, b, d)
                           \/ RunStep(r)
                           \/ Crash(r)

Spec == Init /\ [][Next]_vars

\* A started run keeps going (every request has a timeout), and the operator's
\* runtime invokes the live helper again and again on each batch.
Fairness == \A r \in Runners : /\ WF_vars(RunStep(r))
                               /\ \A b \in Batches : SF_vars(StartRun(r, b, FALSE))

FairSpec == Spec /\ Fairness

-----------------------------------------------------------------------------
(***************************************************************************)
(* Properties.                                                             *)
(***************************************************************************)

\* Every variable keeps its type, and a run's position stays within one past the
\* end of its batch (the loop of route_events).
TypeOK ==
  /\ stateInode \in Inodes \cup {NoInode}
  /\ tmpInode \in Inodes \cup {NoInode}
  /\ disk \in [Inodes -> Contents]
  /\ run \in [Runners -> Runs]
  /\ \A r \in Runners : run[r].pos \in 1..Len(run[r].batch) + 1
  /\ tickets \in Seq(Keys)
  /\ openSessions \in Int
  /\ faults \in 0..MaxFaults
  /\ failedPosts \in Nat

\* A map is genuine when each ticket id in it is a ticket issued for that key.
Genuine(m, issued) == \A k \in Keys : m[k] # 0 => /\ m[k] \in 1..Len(issued)
                                                  /\ issued[m[k]] = k

\* Whatever overlaps, fails or dies, an entry of a readable state file names a
\* ticket that GLPI opened for that very source:event_id (create_ticket, mark).
RecordedTicketsExist == StateReadable => Genuine(StateRecords, tickets)

\* Runs that do not overlap never leave the state file unreadable, wherever they
\* die: the temporary file takes the damage (mark's write, chmod and replace).
StateFileReadable == StateReadable

\* Runs that do not overlap keep the promise of the ledger: no ticket is opened for
\* a listed key and no listed key is lost or relisted (seen, create_ticket, mark).
Ledger == INSTANCE TicketLedger WITH ledger <- StateRecords
ImplementsLedger == Ledger!Spec

\* What a live run has got past, and so reports as created or duplicate, is in the
\* state file at that moment, not only in the run's memory (route_events, mark).
ReportedEventsRecorded ==
  \A r \in Runners :
    run[r].pc = "loop" /\ ~run[r].dry =>
      \A i \in 1..run[r].pos - 1 : StateRecords[KeyOf[run[r].batch[i]]] # 0

\* Tickets that the state file does not list are paid for by faults: when runs do
\* not overlap, each fault leaves at most one, and a run in progress holds one more
\* (route_events stops at the first failure instead of posting the rest).
UnlistedTicketsPaidFor ==
  Len(tickets) <= Cardinality({k \in Keys : StateRecords[k] # 0})
                  + (MaxFaults - faults)
                  + Cardinality({r \in Runners : run[r].ticket # 0})

\* create_ticket leaves no GLPI session behind except through a failing initSession
\* or killSession or the death of the process, at most one per fault: a POST that
\* fails costs no session, for the finally clause kills it on every path out.
SessionsPaidFor ==
  LET inSession == Cardinality({r \in Runners : run[r].pc \in {"post", "kill"}})
      chargeable == MaxFaults - faults - failedPosts
  IN  openSessions \in inSession .. inSession + chargeable

\* Once the faults stop, every event the runtime keeps submitting gets listed: no
\* failure leaves behind a state that blocks the runs that follow.
EventuallyRecorded ==
  \A b \in Batches : \A i \in 1..Len(b) : <>(StateRecords[KeyOf[b[i]]] # 0)

\* docs/runbooks/glpi-alert-ticket-routing-runbook.md:174: "The helper creates one
\* ticket for a new source:event_id pair".
OneTicketPerKey ==
  \A i, j \in 1..Len(tickets) : tickets[i] = tickets[j] => i = j

\* The same runbook, lines 174-176: the ticket id is recorded in the state file and
\* "Re-running the same event is treated as a duplicate"; so a key once listed in
\* the state file stays listed.
ListedStaysListed ==
  [][\A k \in Keys : StateReadable /\ StateRecords[k] # 0
                       => (StateReadable /\ StateRecords[k] # 0)']_vars
=============================================================================
