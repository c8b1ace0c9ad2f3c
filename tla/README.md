# TLA+ models of Tecrax

Tecrax is a domain profile for the RExecOp operations engine: connectors,
normalizers, facts contracts, workflows and reaction rules for a small
infrastructure, plus operator scripts, among them a helper that turns monitoring
alerts into GLPI tickets.  This directory holds TLA+ models of the parts of it
that keep state or whose result depends on what fails and when, TLC
configurations that check them on small instances, and proofs checked by TLAPS
that hold for every value of the constants.

Paths below are relative to the repository.  `PROJECT.json` lists, for every
definition that models code, the lines it stands for.

## 1. Inventory

| Component | State it keeps | Operations | What is hard | What makes it correct | Modelled |
|---|---|---|---|---|---|
| Alert ticket routing (`src/tecrax/alert_routing.py`, `scripts/route-glpi-alerts.py`) | state file `routed`: dedupe key to ticket id; a copy per run; GLPI's tickets and sessions | load, per event: skip, initSession, POST, killSession, rewrite file | lost answers, death between POST and write, overlapping runs, one name for the temporary file | no ticket for a listed key, no listed key lost, every unlisted ticket has a cause, a session is killed on every path | yes, `AlertRouting` |
| Zabbix collection and live routing policy (`src/tecrax/zabbix_glpi_events.py`, `scripts/collect-zabbix-problems-for-glpi.py`) | none of its own; reads the operator's host files | load two host lists, problem.get, trigger.get, live filter; then a routing run on the result | two requests between which the server moves on; filter applied after the limit, so old problems can starve; six paths under which a list may stand, unusable lists that fail open | a ticket is warranted by what the chain read; nothing routable is left out but by the limit; every problem that stands long enough gets a ticket | yes, `ZabbixCollection` |
| Chrony connector, fixture (`src/tecrax/connectors/chrony.py`) | process-wide registry and its lock | read, apply, rollback from many threads and backends | read-then-store, removal of entries equal to the default, policy check before the lock | calls behave as one atomic switch per key, nothing mutates unadmitted | yes, `ChronyFixture` |
| Chrony connector, live wrapper, and the mutation workflow (`chrony.py:215`, `workflows/configure_chrony_ntp_server.yaml`) | the host's managed file (external) | pre-read, apply, post-read, receipt, validation; recovery rollback | an effect that outlives a timed-out answer; validation looks at apply's own answer, not at the post-read; overlapping operations on one file | nothing is done unadmitted or twice; validated means applied, recovered means removed, unless a named later change came | yes, `ChronyMutation` |
| Monitoring host diagnosis (`workflows/diagnose_monitoring_host.yaml`, `src/tecrax/normalizers/`, `src/tecrax/internal_actions.py`) | the operation's shared state | 21 reads that may fail, 8 normalizers, aggregation, projection, receipt | partial failures that look like observations; one step id in two normalizers; limits reached when much fails | healthy means read; outages stay local; every failure is listed and acted on | yes, `MonitoringDiagnosis` over `HostFacts` |
| Facts contracts (`src/tecrax/contracts.py`) | none | build, finalize, validate | contracts that reject what a partial failure produces | what a normalizer builds is accepted | those of the diagnosis, in `HostFacts` and `MonitoringDiagnosis` |
| Reaction pack and triggers (`src/tecrax/profile/reactions/`, `triggers/`, `src/tecrax/reactions.py`) | none; the engine is RExecOp's | matching rules on the observation | states no rule matches, or that the workflow cannot produce | a failure is reacted to, a healthy host is left alone | which rules match, in `MonitoringDiagnosis` |
| Escalation proposals (`src/tecrax/escalation.py`) | none | refuse or build a proposal with an explanation of the findings | length limits reached when much is wrong; entries cut at eight | what the reaction pack runs can be proposed, a proposal names the trouble it is about | yes, `EscalationProposals` |
| Alert hygiene (`src/tecrax/alert_hygiene.py`) | none | counting, a fixed decision list | thresholds | counts add up | no, section 6 |
| Inventory, network and posture parsers (`src/tecrax/normalizers/`) | none | text to facts | odd input | bounded, total | only which answers they take |
| Backup script (`scripts/vaultwarden-app-backup.sh`) | backup directory, two links | copy the database, copy the files, pack, checksum, manifest, move the links | a service that goes on, in an order the script does not know; death between any two commands; names with a resolution of one second; overlapping runs | a manifest fits its archive, no attachment that was whole when the database was copied is missing unless removed, the links name finished files | yes, `VaultwardenBackup` |
| Directory provisioning (`scripts/provision-samba-ad-users.sh`) | the directory (external) | check the rows it reads, then create and add | check-then-act in two calls; failing calls; overlap; logins that differ in case | only what accepted rows say is done, and only when all are accepted; success means provisioned; rerunning repairs | yes, `DirectoryProvisioning` |
| Other scripts, CLI, local fixture, validation gates, deployment files, runbooks | none | reads and prints | none found that a step order decides | | no |

**Interactions.** The RExecOp engine, which is not in the repository, runs the
workflows: connector steps through a backend (`chrony.py` is one, the SSH and HTTP
backends are RExecOp's), internal steps through
`internal_actions.register_handlers`.  Steps share a dictionary, `shared_state`:
results per step id, `continued_failures`, facts per component, the diagnosis and
the observation the reaction pack is matched with.  The alert helpers are separate
processes: the collector reads the operator's host files and asks Zabbix, writes an
event file, and the router reads that together with its state file and talks to GLPI
over HTTP; a timer runs the two one after the other.  The two shell scripts work on
their own, against a service and a directory that others use at the same time.

## 2. Modules

### AlertRouting, TicketLedger

`AlertRouting` has one local state per run (`run[r]`: where it is in
`route_events`, its batch, its copy of the state file, the ticket it is about to
record, its open descriptor), the two directory entries and the inodes behind
them, GLPI's tickets and the number of its open sessions, and the faults still
allowed.  One action per step of the code between which something else can
happen: `StartRun` (load), `SkipEvent`, `InitSession`, `PostTicket`, `KillSession`
(the `finally` clause with its three outcomes), `MarkOpen`, `WriteTmp`,
`ReplaceState` (the three file operations of `TicketState.mark`), `FinishRun`, and
`Crash`.  A request may fail before or after the server acted on it.  Files are
modelled as inodes because overlapping runs share the name of the temporary file:
a run goes on writing to a file that another run has already renamed.
`failedPosts` is a history variable that only `SessionsPaidFor` looks at.

`TicketLedger` is what the helper promises: tickets are opened for unlisted keys
only, and a listed key stays listed under its ticket.  `ImplementsLedger` states
that runs which do not overlap implement it, with the state file's records as the
ledger.

### ChronyFixture, ChronySwitch

`ChronyFixture` has the registry, the lock and, per thread, the call in progress:
`Invoke` (with the policy checks that answer at once), `Acquire`, `Update` (look up
and store, inside the lock), `Release`, `Respond`, and `ResetRegistry`.
`ChronySwitch` is one atomic switch per key: a call is invoked, takes effect in one
step, and is answered.  `ImplementsSwitch` is the refinement.

### MonitoringDiagnosis

One operation of `diagnose_monitoring_host`, step for step: `AnswerRead` and
`FailRead` for the 21 connector steps, `Normalize` for the eight internal steps,
`Aggregate`, `Observe`, `ProduceReceipt`.  The order of steps is the workflow's.  A
read's answer is "good", "bad" (well-formed, showing a problem) or "void" (the
parser does not find what it needs); `Offers` says which of them each read can get,
following the parsers.  `Built` is what the normalizers of `HostFacts` make of the
answers; a normalizer whose facts are rejected ends the operation.  `WithinContract`
is the contract of the diagnosis and `Projection` its second validation, when the
observation is made; `Reactions` is the set of rules of the reaction pack that match.
Which connectors were down at their last read is kept in `down`, so that an outage
has a length and counts once.  A failed read's entry under `continued_failures` may come
without an error class (`classless`), which the contract of the diagnosis refuses.

Taken from the engine's declared behaviour, not from code in this repository: a
failed read with `continue_on_error` is listed and leaves no result, a handler that
raises ends the operation, `max_attempts: 0` means no step is tried twice, and
reactions are planned for completed operations only.

### HostFacts

The eight normalizers of the diagnosis, as functions of the reads' answers.  Per
component: the normalizer that parses answers into a class, the class's health key
derived from its fields, the contract's shape that may reject them, and the builder
that adds coverage and assessment (`FinalizeFacts`).  Health is derived twice in the
code, by the class and by the builder; the module keeps both, and the proofs compare
them.  It has no state of its own.

### EscalationProposals

`escalation.py` on top of the diagnosis: a proposal is a pure function of the
observation and a request, so the module adds no variables to `MonitoringDiagnosis`.
A request is refused for its outcome and intent, for an intent that may change
something, or for its references (`RequestAccepted`).  Of the explanation the module
keeps which findings and failures it names, the first eight of each in the code's
order (`Summarized`), and its length: the fixed texts are counted, the class of an
error is the constant `ErrorClassLength`, which the aggregation cuts at 64
characters.  A proposal whose explanation would be longer than 768 is refused.

### ChronyMutation

The workflow `configure_chrony_ntp_server` of several operations over one host:
`Start`, `Invoke` (the connector's refusals and the exceptions that leave it, in their
order, or a started wrapper process), `Exit` and `TimeOut` (what `_wrapper` makes of the
process), `Validate` (the rule, which reads apply's `after_state`), `RollBack` (the
recovery child). A started wrapper's change is in `inFlight` until it `Land`s on the
host: before the answer, after the process was given up, or never. `landed` and
`admitted` are
history variables; the properties relate the end of an operation to the order in
which changes landed.  `Result` is the wrapper's contract as the connector and the
mutation runbook use it: one managed file, one subnet.

### ZabbixCollection

One chain after another of collector and routing run: `LoadInfra`, `LoadShadow`,
`GetProblems`, `GetHosts`, then per event `RouteEvent` and `ListTicket`, and
`RoutingFails`, `FinishRun`.  The routing run is taken by its abstract
specification, `TicketLedger` (`Ledger!Issue`, `Ledger!List`), which `AlertRouting`
implements.  Between any two steps Zabbix may open, resolve or orphan a problem
(`OpenProblem`, `ResolveProblem`, `OrphanProblem`) and the operator may rewrite a
file (`EditFile`).  A document maps the nine lookup paths to a list, to nothing, or
to something unusable; `HostList` is the chain of lookups with its early exits, and
`LiveCandidate` the decision list of `zabbix_live_routing_decision` on the set of
phrases a problem's texts match.

### DirectoryProvisioning

Runs of the script in several shells: `Start`, the first pass over the file
(`CheckLine`, `CheckGroup`, `ReadPassword`), the second pass (`ShowUser`,
`CreateUser`, `ListMembers`, `AddMember`), `Finish`, `Crash`, and `DeleteGroup` by an
administrator.  Every samba-tool call is a step, and may fail before or after it took
effect.  The directory is `spelling` (which account exists, and how it was spelled),
`groups` and `members`; `AccountOf` is its comparison of logins, which ignores case
where the script's does not.  `Lines` leaves out an unterminated last row, as `read`
does, and `Accepted` speaks of the rows that are left.

### VaultwardenBackup

Runs of the script over the live data: `CopyDatabase`, `BeginTar` and `EndTar` (what
tar finds while the service goes on), `BeginArchive` and `EndArchive`, `Checksum`,
`BeginManifest` and `EndManifest`, `LinkArchive`, `LinkManifest`, and `Stop` (a failing
command or a kill; the trap removes the work directory only).  `Live` moves an
attachment through its life.  The service is not in the repository, which says nothing
of the order in which it writes an attachment's file and its row: either may come first,
and either may go first.  An archive's content is the run that wrote it, the attachments
that were whole (row and file both there) when its database was copied, and the files
in it; a checksum stands for what was summed; a file that is being written, or
was written by two runs at once, is `Broken`.

## 3. Runs

| Run | Instance | What it shows |
|---|---|---|
| `alert_sequential` | one runner, three events, two of one key, three batches, three faults | the state file stays readable, names only tickets that exist and holds what a run got past; tickets left over are paid for by faults; the ledger is implemented; every event submitted again and again is recorded in the end |
| `alert_kill_lost` | one runner, one fault | finding: a killSession that fails below HTTP loses the id of a ticket that exists |
| `alert_overlap_loss` | two runners, no fault | finding: the later write drops the earlier run's records |
| `chrony_fixture` | two threads, three backends, one registry | linearizability, changes that add up, no redundant entry, no unadmitted mutation, every call answered |
| `diagnosis` | the real workflow, two outages of any length, one odd answer, a limit of ten listed failures, eight requests | what a diagnosis and the reactions to it say of the reads behind them; that the reactions can be proposed and that a proposal names the trouble; that the operation ends |
| `diagnosis_aborts` | one outage, the real limit of 16 | finding: an unanswered state word ends the operation without a diagnosis |
| `diagnosis_missing` | one outage, the real limit | finding: a component that was not read at all is "unhealthy" and an intent is proposed for it |
| `chrony_mutation` | two operations, two subnets, one host in any state | no change unadmitted or made twice; what a validated and a recovered operation left on the host, and whose later change can hide it; every operation ends |
| `zabbix_collection` | two problems out of four kinds, limit one, five documents, one edit, one fault | tickets are warranted; only the limit, a lost trigger or the lists leave a problem out; standing problems get tickets |
| `directory_provisioning` | two shells, three files, one account under two spellings, one fault | nothing but what the rows read say, once all are accepted; success means provisioned; rerunning converges |
| `provisioning_last_row` | one shell, the same files, no fault | finding: a malformed last row without a newline does not keep the rows before it from being applied |
| `vaultwarden_backup` | three runs, two at a time, two seconds, one attachment, one kill | a manifest fits its archive; no attachment that was whole is missing unless removed; an undisturbed run repairs whatever it finds |

**Bounds.** Alert routing: two keys and a batch with a repeated key give every
relation between an event and the records; three faults allow a failure, a failure
of the retry and one more; the overlap
finding needs two runners, and what is claimed of overlapping runs is proved for any
number of them.
`MaxTickets` only cuts behaviours in which GLPI opens more tickets than events and
faults can ask for.  Chrony: two threads contend, a third backend differs in its
key; `MaxCalls` bounds the calls.  Diagnosis: the workflow is not scaled down; two
outages cover two components failing, or one failing, recovering and failing
again; an odd answer, or an entry without an error class, next to an outage covers the
contracts' rejections.
`MaxBlockers` is 10 in the passing run, so that the limit is reached within these
bounds and more than eight failures, which is what an explanation names, fit below
it; it is the code's 16 in the two others.  The requests are two that are accepted and
one for each thing that can be wrong with one; error classes have 25 characters, and
the proofs hold for the 64 that the aggregation allows.  Chrony mutation:
each operation applies and rolls back at most once, so two of them give every order
of four changes; nothing else is bounded.  Zabbix: two problems and a limit of one
make the newer crowd out the older; the documents have the lists at the first and at
a last path, an unusable list and both ways of not being readable; one edit and one
fault (`MaxEdits`, `MaxFaults`) fall between any two steps of any chain, and the
number of chains is not bounded.  Provisioning: the three files hold a row that is
never read, two spellings of one account, and a refused row; one fault is a failing
call, a death or a deleted group, the number of runs is not bounded.  Backup: two
overlapping runs and one before or after them, on two ids, so that ids are shared
or not; one attachment is enough for a property about each attachment
separately.  The proofs hold without any of these bounds.

**Symmetry** is used in `vaultwarden_backup`, on the runs, which checks no liveness
property.

**Deadlock** is not checked where the system may stop: a bounded number of
tickets (`alert_overlap_loss`), a bounded number of calls
(`chrony_fixture`), an operation that has ended (`diagnosis*`, `chrony_mutation`),
backups that are all made (`vaultwarden_backup`), and a chain that cannot read its
host list once nobody edits it any more (`zabbix_collection`).

**Fairness.** Alert routing: weak fairness for the steps of a started run, since
every request has a timeout, and strong fairness for starting a run on each batch,
since the live runtime invokes the helper again and again.  Chrony: weak fairness
of each thread's steps; a thread that waits for the lock gets it because the number
of calls is bounded.  Diagnosis: weak fairness of the workflow's steps, each of
which has a timeout; nothing is assumed about connectors coming back.  Chrony
mutation: weak fairness of an operation's steps including the timeout of
`subprocess.run`; nothing is assumed of the wrapper, which may never exit.  Zabbix:
weak fairness of the chain, which a timer starts again and whose requests have
timeouts; nothing is assumed of Zabbix or the operator.  Provisioning: weak fairness
of a begun run, and strong fairness of starting each file with `--apply` in some shell:
the operator runs a file again until it succeeds.  The backup has no liveness
property: nothing in the repository says who runs it again.

## 4. What the findings say

- `OneTicketPerKey` (`alert_routing.py:305`): only a `RuntimeError` of killSession
  is swallowed once there is a ticket id.
- `ListedStaysListed` (`alert_routing.py:251`): overlapping runs write back whole
  copies, without a lock.
- `DiagnosisSurvives` (`contracts.py:1105`): the reads may fail, but the contracts
  of ntp, docker and ntp_server demand their values.  `FailsOnlyByContract` and its
proof say that nothing else ends a diagnosis, except more than `MAX_BLOCKERS`
failures or an entry without an error class.
- `MissingObservationsEscalate` (`diagnostics.py:139`): a normalizer always stores
  an object, so "unavailable" does not occur in this workflow.
- `MalformedRowStopsAll` (`provision-samba-ad-users.sh:155`): `while read` ends before a
  last row that has no newline, so that row is neither refused nor provisioned, and the
  rows before it are applied although the runbook (`samba-ad-user-provisioning-runbook.md`,
  lines 34-36) says a later malformed row must not let them be.  What the other
  properties of `DirectoryProvisioning` say, they say of the rows the script reads.

What the later modules show that no document contradicts outright, and a reader
should know:

- A host-down policy file whose list is not usable is taken for an empty list
  (`collect-zabbix-problems-for-glpi.py:161`), so the hosts it names are routed live;
  the GLPI routing runbook (line 132) says that listed hosts are shadow-only.
  `TicketsWarranted` therefore speaks of lists in a usable form.
- Two overlapping backup runs with different ids can leave `latest.tar.gz` on one
  backup and `latest.manifest.txt` on the other without any failure: the runbook's
  "archive checksum matches manifest" then fails for the two links although it holds
  for each backup.  `UndisturbedRunLeavesAPair` therefore speaks of runs that no
  other overlapped; the next such run repairs the links.
- Two rows of a CSV file whose logins differ in case pass as different users and end as
  one account with the groups of both.
- A backup may lack an attachment that is still there: if the service writes the row
  before the file, the database can be copied with the row, tar pass, and the file be
  stored only then.  No document of the repository promises the attachments, or says in
  which order the service writes.  `ReferencedFilesKept` therefore speaks of attachments
  whose row and file were both there when the database was copied, and holds for either
  order.
- A proposal can be refused for the length of its explanation just when much is wrong:
  eight unhealthy components fill 741 of the 768 characters, and one failed read beside
  them, which brings its step's name and its error class, goes beyond the limit unless
  both are short (`escalation.py:163`).  `ReactionsCanBeProposed` says where this cannot
  happen.
- Overlapping routing runs can leave the state file torn, which ends every later run
  until someone repairs it.  `StateFileReadable` speaks of runs kept apart.
- The chrony validation rule reads the state that apply reported.  An operation can
  be validated although its post-read shows another operation's subnet, if the
  runtime does not keep operations on one target apart.
- Problems that are never routed count against the collector's limit: newer ones can
  keep a routable problem out for as long as they stay open.

## 5. Proofs

All by TLAPS, for every value of the constants that satisfies the named
assumptions.

`AlertRoutingProofs` assumes `ConstantsAssumption`.  For any number of overlapping
runs: `TypeCorrect`, and `RecordsAreGenuine`, whose invariant says that every map
in sight (the file, a temporary file, each run's copy) is genuine and that a
ticket waiting to be recorded is one issued for the event at hand.  For behaviours in
which runs do not overlap, whoever starts them and however many processes there are
(`Spec /\ []KeptApart`, where `KeptApart` says that two runs are not in progress at
once): the state file stays readable, what a run got past is on disk, the ledger is
implemented, and a listed key stays listed, which is what the overlap finding violates.
The strengthening relates the file to the copy of the run in progress: they agree
except between `MarkOpen` and `ReplaceState`, when the copy is one entry ahead and the
temporary file is a different inode.  `OneTicketUnlessLost` says under which
conditions the runbook's "one ticket for a new `source:event_id` pair" is true: runs
are kept apart, and no POST's answer is lost, no killSession fails below HTTP and no
process dies (`NothingLost`).  Its invariant is that every ticket is listed under its
key or held by a run.

`ChronyFixtureProofs` assumes `FixtureAssumption`.  `TypeCorrect` and
`MutationsAllowed` need nothing else.  The other three need `UniformDefaults`: all
backends of one key read a missing entry alike; without it an entry that one
backend removes as its default means something else to the next.  The invariant
says that the lock is held exactly while a thread is inside, that what a thread
looked up is still the registry's state until it stores, and that the switch of
each key equals what any backend would read.

`MonitoringDiagnosisProofs` assumes `BoundsAssumption`.  The invariant `Inv` has
one part per stage: each read before the current one left a result or was listed,
not both (`ReadsInv`); facts that are stored passed their contract and hold what
the results say (`FactsInv`); the diagnosis is the aggregate of the facts and the
observation its copy (`DiagnosisInv`).  The safety properties alone are not
inductive: they speak of the end of the operation, and relate it to reads made
many steps earlier.  `HealthyWasRead`, `OutagesAreLocal`, `EveryFailureListed` and
`EveryFailureActedOn` follow from `Inv` by cases on the eight components;
`FailsByContract` is a part of it.  Lemmas give each normalizer of `HostFacts` in
closed form, so that the health the class derives and the status the builder assesses
are shown to agree.  Three results have no run of their own.  `NothingIsUnavailable` is
the cause behind the finding `MissingObservationsEscalate`.  `DiagnosisAcceptedTwice`:
the second validation never rejects what the first accepted.  `OperationsAreBounded`:
every step leaves one step less to come or fails the operation, which is the part of
`OperationEnds` that needs no fairness.

`EscalationProposalsProofs` adds `ErrorClassAssumption`.  The module has no variables,
so `Inv` carries over and the work is in lemmas about a completed diagnosis.  A list
cut at eight entries has exactly eight (`PlacesAreRanks`, `CutListsAreFull`): what
`TroubleNamed` says of what is left out.  For `ReactionsProposable`, an explanation has
at most 761 characters when every read was answered, and at most
509 + 4 * `ErrorClassLength` when only services are in trouble, which fits for every
class the aggregation lets through.

Two theorems of `AlertRoutingProofs` count.  `SessionsArePaidFor` holds for any
number of overlapping runs: the strengthening adds that the set of runs in a session
is finite, and one lemma (`SessionBalance`) reduces each action to what it opens, what
it is charged and whether its run enters or leaves a session.
`SequentialTicketsArePaidFor` assumes `[]KeptApart`: `TicketInv` adds that a run holds a
ticket only between the answer to its POST and the renamed file, and `TicketBalance`
compares what a step opens with what it lists, drops or is charged.

`ChronyMutationProofs` assumes `MutationAssumption`.  `MutInv` says, per operation and
for any number of them: no change of a step that was not reached has been made, a
running step's change is in flight or landed, a successful step's has landed, what the
post-read saw was on the host after the apply, an apply still in flight after its step
belongs to an operation that failed with an error class that leaves the outcome open;
and that the host shows the last change that landed.  The two properties about ended
operations are not inductive without the order of landed changes in it.
`SoleOperationDoes` draws the consequence for a runtime that keeps operations on one
target apart: validated means applied and recovered means removed, unless the
operation's own apply was given up and may have come late.  `OperationsNeverGoBack` is
the part of `EveryOperationEnds` that needs no fairness: each step of an operation
takes it forward, so it takes at most eleven.

`ZabbixCollectionProofs` assumes `CollectionAssumption` and holds for every limit,
every set of documents and every history of problems.  `ChainInv` follows the chain:
once the lists are read, every host declared shadow-only in a usable form is among
them (`ListsInv`); the batch holds only what the lists let through (`BatchInv`); what
is neither in the batch nor listed was crowded out by `Limit` newer problems or has
lost its trigger (`LeftInv`).  The chain takes its routing run from `TicketLedger`;
`ListingIsNeverHeldUp` shows that the guards this brings in never stop it, and
`ChainImplementsLedger` that the chain as a whole is again a ledger.

`DirectoryProvisioningProofs` assumes `ProvisioningAssumption`.  `ProvInv` says of each
run where it may be in its file (`PlaceInv`: in the second pass the file is accepted
and all its groups are checked) and what is done of it (`DoneInv`: rows before the
present one are provisioned, of the present one all groups but those to do).  That
other runs keep it is one lemma: accounts stay, and members go with their group only
(`DirectoryGrows`).

`VaultwardenBackupProofs` assumes `BackupAssumption` and `NamesAssumption` (contents are
not the two markers).  `KeptInv` follows the attachments that were whole when
the database was copied through the run: a file is still to be read, was read, or was
removed; it needs no order of the service's writes, only that no attachment's life runs
backwards.  `DestInv` ties the files
of an id to the place of the run that owns it, for runs that own their id alone and for
runs that nothing overlapped.

**Only model-checked:** the liveness properties (`EventuallyRecorded`,
`EveryCallAnswered`, `OperationEnds`, `EveryOperationEnds`, `StandingProblemsTicketed`,
`RerunsConverge`), which rest on fairness.  Every invariant, every action property and
both refinements that the passing runs check are proved.

## 6. Not modelled, and why

- The engine: step execution, admission, leases, receipts and the choice between
  matching rules are RExecOp's.
- Text: parsing, wording, length limits and redaction, except as far as they decide
  whether an answer is taken.
- Of escalation proposals: the wording, the identifier and its hash.  Error classes are
  taken for plain identifiers, in which none of the words occurs that make an
  explanation unsafe, and the engine's own validation is taken to accept a proposal
  that is well-formed.
- Alert hygiene: one file of events in, counts and a fixed decision list out.
- Network device parsers and the contracts outside the diagnosis: one document in, one
  facts object out; no step order decides anything.  Of the parsers `HostFacts` uses,
  only which answers they tell apart.
- Ticket drafts: category and urgency tables and runbook links of `alert_routing.py`,
  on which no state change depends.
- Windows endpoint preparation, update status, RBAC audit: they read another system
  once and print.  The command line dispatches to RExecOp, the local fixture has fixed
  answers, the validation gates check this repository's files in CI.
- Power loss: the state file is renamed without fsync; the model's crash is the
  process's.
- Hand edits of the state file, among them one whose JSON is no object, which reads as
  an empty file.
- The collector's `--include-suppressed`, which widens what Zabbix returns and changes
  no step.
- A host that takes a change of the chrony wrapper back by itself.
- `ln -sfn` is taken to replace a link in one step, as recent GNU coreutils do.
- Fields that nothing in the program reads back, such as the used and available
  blocks of the root file system, whose names in parser and contract differ.

## 7. Plan

1. Proofs that remain: no safety property that the runs check is open.  What could be
   added is the part of the other liveness properties that needs no fairness, as
   `OperationsAreBounded` is for the diagnosis and `OperationsNeverGoBack` for the
   mutation, and a bound on the records that overlapping runs can lose.
2. Alert routing over a file system that loses what was not synced: what a power loss
   costs, and what would have to be synced.
3. The composition of `AlertRouting` itself, in place of `TicketLedger`, with the
   collector, on smaller instances.
