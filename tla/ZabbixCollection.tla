-------------------------- MODULE ZabbixCollection --------------------------
(***************************************************************************)
(* One timer-driven chain after another: collect-zabbix-problems-for-glpi  *)
(* with --live-candidates-only, then route-glpi-alerts on what it printed. *)
(*                                                                         *)
(* The collector reads the operator's host lists, asks Zabbix for the      *)
(* newest problems and then, in a second request, for the hosts of their   *)
(* triggers, and only then drops what is not to be routed live.  Zabbix    *)
(* and the operator's files move on between any two of these steps.        *)
(*                                                                         *)
(* The routing run is taken by its abstract specification, TicketLedger,   *)
(* which AlertRouting implements when runs do not overlap: each event of   *)
(* the batch is skipped, or a ticket is issued and then listed.            *)
(***************************************************************************)
EXTENDS Integers, Sequences, FiniteSets

CONSTANTS
  Hosts,        \* normalized host names (stripped, in lower case)
  Unknown,      \* the host of a problem whose trigger was not answered
  Kinds,        \* what a problem can be: subset of ProblemKinds
  MinSeverity,  \* --min-severity
  Limit,        \* --limit, positive: what Zabbix takes 0 for is not in the code
  Documents,    \* contents an operator file may have
  InitialFiles, \* the files and options an operator may start with
  NotGiven,     \* the option that names the file is absent
  NoValue,      \* stands for a lookup path that is missing, or null
  BadValue,     \* stands for a value that is no list of texts
  Unparsable,   \* a document the parser refuses with ValueError
  Unreadable,   \* a document that cannot be read: OSError, YAMLError
  MaxProblems, MaxEdits, MaxFaults   \* bounds of a behaviour

\* What the phrases of a problem's texts match.
Matches == {"host_unavailable", "expected_storage", "disk", "backup", "ad_dns", "core"}

ProblemKinds == [host: Hosts, matches: SUBSET Matches, severity: 0..5, suppressed: BOOLEAN]

\* The paths under which a document may hold a list, in the order of the lookups.
InfraPaths == <<"alert_routing.zabbix.infrastructure_hosts", "zabbix.infrastructure_hosts",
                "infrastructure_hosts">>
ShadowPaths == <<"alert_routing.zabbix.host_down_policy.shadow_only_hosts",
                 "zabbix.host_down_policy.shadow_only_hosts",
                 "host_down_policy.shadow_only_hosts",
                 "alert_routing.zabbix.expected_off_hosts", "zabbix.expected_off_hosts",
                 "expected_off_hosts">>

\* What a lookup may give: a list of hosts, nothing, or something unusable.
Absent == {NoValue}
Malformed == {BadValue}
Values == (SUBSET Hosts) \cup {Absent, Malformed}
Paths == {InfraPaths[i] : i \in 1..3} \cup {ShadowPaths[i] : i \in 1..6}
Mappings == [Paths -> Values]
Files == {"infra", "expected_off", "policy"}

ASSUME CollectionAssumption ==
  /\ {Unknown, NoValue, BadValue} \cap Hosts = {} /\ NoValue # BadValue
  /\ Kinds \subseteq ProblemKinds
  /\ MinSeverity \in 0..5 /\ Limit \in Nat \ {0}
  /\ Documents \ {Unparsable, Unreadable} \subseteq Mappings
  /\ NotGiven \notin Documents
  /\ InitialFiles \subseteq {f \in [Files -> Documents \cup {NotGiven}] :
                               f["infra"] # NotGiven}
  /\ MaxProblems \in Nat /\ MaxEdits \in Nat /\ MaxFaults \in Nat

VARIABLES
  problems,  \* Zabbix: the problems so far, by event id
  open,      \* Zabbix: the event ids not resolved
  orphaned,  \* Zabbix: the event ids whose trigger is not answered any more
  files,     \* Files -> the content of the operator's files
  run,       \* the chain in progress
  tickets, ledger,   \* GLPI and the state file, as in TicketLedger
  edits, faults      \* edits and faults still allowed

vars == <<problems, open, orphaned, files, run, tickets, ledger, edits, faults>>
zabbix == <<problems, open, orphaned>>

EventIds == 1..MaxProblems
Ledger == INSTANCE TicketLedger WITH Keys <- EventIds

Runs == [pc: {"idle", "shadow", "problems", "hosts", "route", "list"},
         infra: SUBSET Hosts, shadow: SUBSET Hosts, policy: Documents \cup {NotGiven},
         open: SUBSET EventIds, fetched: SUBSET EventIds, batch: SUBSET EventIds]

IdleRun == [pc |-> "idle", infra |-> {}, shadow |-> {}, policy |-> NotGiven,
            open |-> {}, fetched |-> {}, batch |-> {}]

-----------------------------------------------------------------------------
\* Mutant of FirstPresent: only the current path is looked up, not the older ones.
CurrentPathOnly(document, paths) ==
  IF document[paths[1]] # Absent THEN document[paths[1]] ELSE Malformed

\* The chain of _lookup calls: the first path that is not missing decides.
FirstPresent(document, paths) ==
  LET present == {i \in DOMAIN paths : document[paths[i]] # Absent}
  IN  IF present = {} THEN Malformed
      ELSE document[paths[CHOOSE i \in present : \A j \in present : i <= j]]

\* load_infrastructure_hosts_file, load_host_down_shadow_only_hosts_file: the list, or
\* Malformed for ValueError.
HostList(document, paths) ==
  IF document \in {Unparsable, Unreadable} THEN Malformed ELSE FirstPresent(document, paths)

\* args.host_down_policy_file or args.expected_off_host_file or args.infra_host_file
PolicyFile == IF files["policy"] # NotGiven THEN "policy"
              ELSE IF files["expected_off"] # NotGiven THEN "expected_off" ELSE "infra"

\* zabbix_live_routing_decision(...).route = "live_candidate", rule by rule: an
\* unavailable host first, then any alert of an infrastructure host that is on the
\* allowlist, storage pressure that is expected excepted.
LiveCandidate(host, matches, infra, shadow) ==
  IF "host_unavailable" \in matches
    THEN host \notin shadow /\ host \in infra
    ELSE /\ host \in infra
         /\ "expected_storage" \notin matches
         /\ matches \cap {"disk", "backup", "ad_dns", "core"} # {}

\* _hosts_by_trigger_id: the hosts the second answer gives for a problem's trigger.
TriggerHosts(e) == IF e \in orphaned THEN {} ELSE {problems[e].host}

\* _problem_host
HostOf(e) == IF TriggerHosts(e) = {} THEN Unknown ELSE problems[e].host

\* filter_zabbix_live_candidate_events
LiveCandidates(events) ==
  {e \in events : LiveCandidate(HostOf(e), problems[e].matches, run.infra, run.shadow)}

\* What the severities and suppressed parameters of problem.get select.
Selected(e) == problems[e].severity >= MinSeverity /\ ~problems[e].suppressed

\* Mutant of Newest: the oldest problems first.
Oldest(s) == {e \in s : Cardinality({f \in s : f < e}) < Limit}

\* sortfield eventid, sortorder DESC, limit.
Newest(s) == {e \in s : Cardinality({f \in s : f > e}) < Limit}

-----------------------------------------------------------------------------
Init ==
  /\ problems = << >> /\ open = {} /\ orphaned = {}
  /\ files \in InitialFiles
  /\ run = IdleRun
  /\ Ledger!Init
  /\ edits = MaxEdits /\ faults = MaxFaults

Fault == faults > 0 /\ faults' = faults - 1

\* Zabbix: a problem starts, ends, or loses its trigger (deleted, or not visible).
OpenProblem(kind) ==
  /\ Len(problems) < MaxProblems
  /\ problems' = Append(problems, kind)
  /\ open' = open \cup {Len(problems) + 1}
  /\ UNCHANGED <<orphaned, files, run, tickets, ledger, edits, faults>>

ResolveProblem(e) ==
  /\ open' = open \ {e}
  /\ UNCHANGED <<problems, orphaned, files, run, tickets, ledger, edits, faults>>

OrphanProblem(e) ==
  /\ orphaned' = orphaned \cup {e}
  /\ UNCHANGED <<problems, open, files, run, tickets, ledger, edits, faults>>

\* The operator rewrites a file the options name.
EditFile(f, document) ==
  /\ edits > 0 /\ edits' = edits - 1
  /\ files[f] \notin {NotGiven, document}
  /\ files' = [files EXCEPT ![f] = document]
  /\ UNCHANGED <<zabbix, run, tickets, ledger, faults>>

\* _load_infra_hosts: a list that is not usable ends the collector, and the chain.
LoadInfra ==
  LET list == HostList(files["infra"], InfraPaths)
  IN  /\ run.pc = "idle"
      /\ files["infra"] # Unreadable /\ list # Malformed
      /\ run' = [IdleRun EXCEPT !.pc = "shadow", !.infra = list]
      /\ UNCHANGED <<zabbix, files, tickets, ledger, edits, faults>>

\* Mutant of LoadShadow: a list that is not usable ends the collector here too.
LoadShadowStrictly ==
  LET document == files[PolicyFile]
      list == HostList(document, ShadowPaths)
  IN  /\ run.pc = "shadow"
      /\ run' = IF list = Malformed THEN IdleRun
                ELSE [run EXCEPT !.pc = "problems", !.policy = document, !.shadow = list]
      /\ UNCHANGED <<zabbix, files, tickets, ledger, edits, faults>>

\* _load_host_down_shadow_only_hosts: a list that is not usable is an empty one.  An
\* unreadable file ends the collector.
LoadShadow ==
  LET document == files[PolicyFile]
      list == HostList(document, ShadowPaths)
  IN  /\ run.pc = "shadow"
      /\ run' = IF document = Unreadable THEN IdleRun
                ELSE [run EXCEPT !.pc = "problems", !.policy = document,
                                 !.shadow = IF list = Malformed THEN {} ELSE list]
      /\ UNCHANGED <<zabbix, files, tickets, ledger, edits, faults>>

\* problem.get.  Without any problem there is no second request and no event.  A
\* failing request, here and below, ends the collector with nothing printed.
GetProblems ==
  /\ run.pc = "problems"
  /\ \/ LET fetched == Newest({e \in open : Selected(e)})
        IN  /\ run' = [run EXCEPT !.pc = IF fetched = {} THEN "route" ELSE "hosts",
                                  !.open = open, !.fetched = fetched]
            /\ UNCHANGED faults
     \/ Fault /\ run' = IdleRun
  /\ UNCHANGED <<zabbix, files, tickets, ledger, edits>>

\* Mutant of GetHosts: the problems are read once more with their hosts.
GetHostsOfAll ==
  /\ run.pc = "hosts"
  /\ \/ /\ run' = [run EXCEPT !.pc = "route",
                              !.batch = LiveCandidates(Newest({e \in open : Selected(e)}))]
        /\ UNCHANGED faults
     \/ Fault /\ run' = IdleRun
  /\ UNCHANGED <<zabbix, files, tickets, ledger, edits>>

\* trigger.get, the events, the live filter, and the file the routing run is given.
GetHosts ==
  /\ run.pc = "hosts"
  /\ \/ /\ run' = [run EXCEPT !.pc = "route",
                              !.batch = LiveCandidates(run.fetched)]
        /\ UNCHANGED faults
     \/ Fault /\ run' = IdleRun
  /\ UNCHANGED <<zabbix, files, tickets, ledger, edits>>

\* The event the routing run is working on: the collector printed the newest first.
Current == CHOOSE e \in run.batch : \A f \in run.batch : f <= e

\* route_events: a listed event is passed over, for any other a ticket is opened.
RouteEvent ==
  /\ run.pc = "route" /\ run.batch # {}
  /\ IF ledger[Current] # 0
       THEN run' = [run EXCEPT !.batch = @ \ {Current}] /\ UNCHANGED <<tickets, ledger>>
       ELSE run' = [run EXCEPT !.pc = "list"] /\ Ledger!Issue(Current)
  /\ UNCHANGED <<zabbix, files, edits, faults>>

\* The ticket just opened is listed in the state file.
ListTicket ==
  /\ run.pc = "list"
  /\ run' = [run EXCEPT !.pc = "route", !.batch = @ \ {Current}]
  /\ Ledger!List(Current, Len(tickets))
  /\ UNCHANGED <<zabbix, files, edits, faults>>

\* The routing run fails: at the ticket's request, or before the ticket is listed.
RoutingFails ==
  /\ run.pc \in {"route", "list"} /\ run.batch # {}
  /\ Fault
  /\ run' = IdleRun
  /\ UNCHANGED <<zabbix, files, tickets, ledger, edits>>

\* The batch is routed; the timer starts the next chain some time later.
FinishRun ==
  /\ run.pc = "route" /\ run.batch = {}
  /\ run' = IdleRun
  /\ UNCHANGED <<zabbix, files, tickets, ledger, edits, faults>>

ChainStep == \/ LoadInfra \/ LoadShadow \/ GetProblems \/ GetHosts
             \/ RouteEvent \/ ListTicket \/ RoutingFails \/ FinishRun

Next == \/ \E kind \in Kinds : OpenProblem(kind)
        \/ \E e \in open : ResolveProblem(e) \/ (e \notin orphaned /\ OrphanProblem(e))
        \/ \E f \in Files, d \in Documents : EditFile(f, d)
        \/ ChainStep

Spec == Init /\ [][Next]_vars

\* The timer starts the chain again and again, and each of its requests has a timeout.
FairSpec == Spec /\ WF_vars(ChainStep)

-----------------------------------------------------------------------------
(***************************************************************************)
(* Properties.                                                             *)
(***************************************************************************)

\* Every variable keeps its type, and a chain works on what it fetched.
TypeOK ==
  /\ problems \in Seq(Kinds) /\ Len(problems) <= MaxProblems
  /\ open \subseteq 1..Len(problems)
  /\ orphaned \subseteq 1..Len(problems)
  /\ files \in [Files -> Documents \cup {NotGiven}]
  /\ run \in Runs
  /\ run.batch \subseteq run.fetched /\ run.fetched \subseteq run.open
  /\ run.open \subseteq 1..Len(problems)
  /\ tickets \in Seq(EventIds)
  /\ ledger \in [EventIds -> Nat]
  /\ edits \in 0..MaxEdits /\ faults \in 0..MaxFaults

\* The hosts a document declares shadow-only, wherever in it, if it says so once and
\* in a usable form.
PresentShadow(document) ==
  {ShadowPaths[i] : i \in {j \in 1..6 : document[ShadowPaths[j]] # Absent}}
DeclaredShadow(document) ==
  IF /\ document \notin {Unparsable, Unreadable, NotGiven}
     /\ \E path \in Paths : PresentShadow(document) = {path}
    THEN UNION ({document[path] : path \in PresentShadow(document)} \ {Malformed})
    ELSE {}

\* A ticket is opened only for a problem that was open when the chain fetched it,
\* severe enough and not suppressed, on an infrastructure host by the list the chain
\* read; and never for the unavailability of a host that the policy file declares
\* shadow-only in a usable form, whichever of the six paths it uses
\* (load_host_down_shadow_only_hosts_file, zabbix_live_routing_decision).
TicketsWarranted ==
  [][\A e \in EventIds :
       tickets' # tickets /\ tickets'[Len(tickets')] = e =>
         /\ e \in run.open
         /\ problems[e].severity >= MinSeverity /\ ~problems[e].suppressed
         /\ problems[e].host \in run.infra
         /\ "host_unavailable" \in problems[e].matches =>
              problems[e].host \notin DeclaredShadow(run.policy)]_vars

\* Which problems the rules send to GLPI under the lists of the present chain.
Routable(e) == LiveCandidate(problems[e].host, problems[e].matches, run.infra, run.shadow)

\* A chain that gets to its end leaves no routable problem without a listed ticket,
\* unless its trigger was lost or at least Limit newer problems were selected before
\* it: those count even when none of them is routable (problem.get's limit comes
\* before filter_zabbix_live_candidate_events).
NothingElseLeftOut ==
  run.pc = "route" /\ run.batch = {} =>
    \A e \in run.open \ orphaned :
      Selected(e) /\ Routable(e) /\ ledger[e] = 0 =>
        Cardinality({f \in run.open : f > e /\ Selected(f)}) >= Limit

\* A problem that the files in force send to GLPI, while it stays open, keeps its
\* trigger and is not crowded out.
Standing(e) ==
  /\ e \in open /\ e \in Newest({f \in open : Selected(f)})
  /\ e \notin orphaned
  /\ HostList(files["infra"], InfraPaths) # Malformed
  /\ Unreadable \notin {files["infra"], files[PolicyFile]}
  /\ LET shadow == HostList(files[PolicyFile], ShadowPaths)
     IN  LiveCandidate(problems[e].host, problems[e].matches,
                       HostList(files["infra"], InfraPaths),
                       IF shadow = Malformed THEN {} ELSE shadow)

\* A routable problem that stands long enough gets a listed ticket, whatever failed
\* before: no failed chain leaves behind what stops the next (main of both scripts).
StandingProblemsTicketed ==
  \A e \in EventIds : <>[](e \in DOMAIN problems /\ Standing(e)) => <>(ledger[e] # 0)
=============================================================================
