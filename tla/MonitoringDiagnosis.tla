------------------------- MODULE MonitoringDiagnosis -------------------------
(***************************************************************************)
(* One operation of the intent diagnose_monitoring_host.                   *)
(*                                                                         *)
(* The workflow makes 21 reads through four connectors, one at a time.     *)
(* Each may fail without ending the operation: the step is then listed     *)
(* under continued_failures and leaves nothing in connector_results.       *)
(* Eight normalizers turn what was read into one facts object per          *)
(* component, an aggregation turns those into a diagnosis, and a           *)
(* projection of the diagnosis is what the reaction pack is matched with.  *)
(* Those later steps may not fail: an exception ends the operation.        *)
(*                                                                         *)
(* The far end of a connector may stop answering, and come back, between   *)
(* any two reads that go through it.                                       *)
(* What a read answers is kept as far as the normalizers tell apart, as    *)
(* "good", "bad" or "void" (module HostFacts).                             *)
(***************************************************************************)
EXTENDS HostFacts, Sequences, FiniteSets

CONSTANTS
  MaxBlockers,  \* continued failures a diagnosis may list (16 in the code)
  MaxOutages,   \* bound: how often a connector goes down in a behaviour
  MaxAnomalies  \* bound: how many answers are not "good" in a behaviour

ASSUME BoundsAssumption ==
  MaxBlockers \in Nat /\ MaxOutages \in Nat /\ MaxAnomalies \in Nat

\* The connector steps of the workflow, in its order.
ReadOrder == <<
  "read_os_release", "read_kernel_identity", "read_hostname", "read_uptime",
  "read_load_average", "read_filesystem_usage", "read_memory_summary",
  "read_ntp_sync_state", "read_ntp_service_state", "read_docker_service_state",
  "read_docker_socket_state", "read_unattended_upgrades_state",
  "read_available_updates_summary", "read_aslr_state", "read_dmesg_restrict_state",
  "read_reboot_required_marker", "read_ntp_server_variables",
  "read_zabbix_api_version", "read_adguard_dns_resolution",
  "read_adguard_login_status", "read_portainer_status" >>

Reads == {ReadOrder[i] : i \in DOMAIN ReadOrder}

Connectors == {"monitoring_host", "zabbix_api", "adguard_health", "portainer_api"}

ConnectorOf(r) ==
  CASE r = "read_zabbix_api_version" -> "zabbix_api"
    [] r \in {"read_adguard_dns_resolution", "read_adguard_login_status"} -> "adguard_health"
    [] r = "read_portainer_status" -> "portainer_api"
    [] OTHER -> "monitoring_host"

\* The answers a read may get.  Two-valued ones either have no unhealthy form (an
\* inventory field, a version) or no form the parser rejects (a yes or no, a count of
\* lines).  A state word may be empty.
Offers(r) ==
  CASE r \in InventoryReads \cup {"read_zabbix_api_version", "read_portainer_status"} ->
         {"good", "void"}
    [] r \in {"read_ntp_sync_state", "read_reboot_required_marker",
              "read_adguard_dns_resolution", "read_adguard_login_status"} -> {"good", "bad"}
    [] OTHER -> {"good", "bad", "void"}

\* The internal steps, in their order, by the component whose facts each stores.
NormalizerOrder == << "host_inventory", "ntp", "docker", "zabbix", "adguard",
                      "portainer", "host_security", "ntp_server" >>

Components == {NormalizerOrder[i] : i \in DOMAIN NormalizerOrder}

\* The reads whose answers a component's normalizer looks at.
Needs(c) ==
  CASE c = "host_inventory" -> InventoryReads
    [] c = "ntp" -> {"read_ntp_sync_state", "read_ntp_service_state"}
    [] c = "docker" -> {"read_docker_service_state", "read_docker_socket_state"}
    [] c = "zabbix" -> {"read_zabbix_api_version"}
    [] c = "adguard" -> {"read_adguard_dns_resolution", "read_adguard_login_status"}
    [] c = "portainer" -> {"read_portainer_status"}
    [] c = "host_security" -> {"read_unattended_upgrades_state",
         "read_available_updates_summary", "read_aslr_state",
         "read_dmesg_restrict_state", "read_reboot_required_marker"}
    [] c = "ntp_server" -> {"read_ntp_service_state", "read_ntp_server_variables"}

VARIABLES
  phase,       \* which part of the workflow the operation is in, or how it ended
  at,          \* the step's index within that part
  results,     \* shared_state["connector_results"]; "none" where there is no entry
  continued,   \* shared_state["continued_failures"]: the steps in it
  classless,   \* those of them whose entry is no object, or names no error class
  facts,       \* the components' facts objects: per component none or one
  diagnosis,   \* shared_state["monitoring_host_diagnosis"]: a set of none or one
  observation, \* the facts of shared_state["reaction_observation"]: none or one
  down,        \* connectors whose far end did not answer when last read
  outages,     \* outages still allowed
  anomalies    \* answers other than "good" still allowed

vars == <<phase, at, results, continued, classless, facts, diagnosis, observation,
          down, outages, anomalies>>
failures == <<continued, classless>>
env == <<down, outages, anomalies>>
products == <<facts, diagnosis, observation>>

Phases == {"read", "normalize", "aggregate", "observe", "receipt", "completed", "failed"}
Answers == {"good", "bad", "void"}

-----------------------------------------------------------------------------
\* The handlers of the internal steps: what each component's normalizer builds.
Built(c) ==
  CASE c = "host_inventory" -> BuildBasicHostInventory(results)
    [] c = "ntp" -> BuildNtpLocalHealth(results)
    [] c = "docker" -> BuildDockerServiceHealth(results)
    [] c = "zabbix" -> NormalizeZabbix(results)
    [] c = "adguard" -> NormalizeAdguard(results)
    [] c = "portainer" -> NormalizePortainer(results)
    [] c = "host_security" -> BuildHostSecurityPosture(results)
    [] c = "ntp_server" -> BuildNtpServerObservation(results)

-----------------------------------------------------------------------------
\* The aggregation.
ComponentStatus(c) ==
  CASE facts[c] = {} -> "unavailable"
    [] \E f \in facts[c] : f.health = "healthy" -> "healthy"
    [] OTHER -> "unhealthy"

FindingKind(status) == IF status = "unavailable" THEN "component_unavailable" ELSE "unhealthy"

\* One finding per component that is not healthy, or one that says all are.
Findings(components) ==
  LET troubled == {c \in Components : components[c] # "healthy"}
  IN  IF troubled = {} THEN {[component |-> "monitoring_host", kind |-> "observed_healthy"]}
      ELSE {[component |-> c, kind |-> FindingKind(components[c])] : c \in troubled}

\* Mutant of Diagnosed: coverage is judged by the components instead of the reads.
DiagnosedByComponents ==
  LET components == [c \in Components |-> ComponentStatus(c)]
      healthy == \A c \in Components : components[c] = "healthy"
  IN  [components |-> components,
       findings |-> Findings(components),
       observed_health |-> IF healthy THEN "healthy" ELSE "degraded",
       coverage_status |-> IF healthy THEN "complete" ELSE "partial",
       continued_failures |-> continued,
       classless |-> classless]

Diagnosed ==
  LET components == [c \in Components |-> ComponentStatus(c)]
      healthy == \A c \in Components : components[c] = "healthy"
  IN  [components |-> components,
       findings |-> Findings(components),
       observed_health |-> IF healthy THEN "healthy" ELSE "degraded",
       coverage_status |-> IF continued = {} THEN "complete" ELSE "partial",
       continued_failures |-> continued,
       classless |-> classless]

\* The diagnosis contract bounds the list of continued failures, and asks for the error
\* class of each.
WithinContract(d) == Cardinality(d.continued_failures) <= MaxBlockers /\ d.classless = {}

\* Mutant of Reactions: the pack has no rules for the last component.
ReactionsWithoutNtpServer(d) ==
  {[component |-> c,
    outcome |-> IF d.components[c] = "unhealthy" THEN "run_intent" ELSE "escalate"] :
     c \in {x \in Components \ {"ntp_server"} : d.components[x] # "healthy"}}
  \cup {[component |-> "monitoring_host", outcome |-> "no_op"] :
          h \in {d.observed_health} \cap {"healthy"}}

\* The rules of the reaction pack that match: per component one for "unhealthy",
\* which runs that component's own intent, and one for "unavailable"; and one for
\* a healthy host.  Which of them the engine acts on is not decided here.
Reactions(d) ==
  {[component |-> c,
    outcome |-> IF d.components[c] = "unhealthy" THEN "run_intent" ELSE "escalate"] :
     c \in {x \in Components : d.components[x] # "healthy"}}
  \cup {[component |-> "monitoring_host", outcome |-> "no_op"] :
          h \in {d.observed_health} \cap {"healthy"}}

-----------------------------------------------------------------------------
Init ==
  /\ phase = "read" /\ at = 1
  /\ results = [r \in Reads |-> "none"]
  /\ continued = {} /\ classless = {}
  /\ facts = [c \in Components |-> {}]
  /\ diagnosis = {} /\ observation = {}
  /\ down = {}
  /\ outages = MaxOutages /\ anomalies = MaxAnomalies

\* Mutant of Advance: one step too many before the next part.
AdvancePast(part, next) ==
  IF at <= Len(part) THEN at' = at + 1 /\ UNCHANGED phase ELSE at' = 1 /\ phase' = next

\* On to the next step of this part of the workflow, or to the next part.
Advance(part, next) ==
  IF at < Len(part) THEN at' = at + 1 /\ UNCHANGED phase ELSE at' = 1 /\ phase' = next

\* The step whose turn it is in a part of the workflow: none in another part.
Due(part, order) == IF phase = part THEN {order[at]} ELSE {}

\* A read is answered: its result is entered under its step id.
AnswerRead(r, answer) ==
  /\ r \in Due("read", ReadOrder)
  /\ IF answer = "good" THEN UNCHANGED anomalies ELSE anomalies > 0 /\ anomalies' = anomalies - 1
  /\ results' = [results EXCEPT ![r] = answer]
  /\ down' = down \ {ConnectorOf(r)}
  /\ Advance(ReadOrder, "normalize")
  /\ UNCHANGED <<failures, products, outages>>

\* A read fails or times out, because its connector is down or goes down now.
\* continue_on_error: it is listed, with or without an error class, and the workflow
\* goes on; max_attempts is 0.
FailRead(r) ==
  /\ r \in Due("read", ReadOrder)
  /\ IF ConnectorOf(r) \in down THEN UNCHANGED <<down, outages>>
     ELSE /\ outages > 0 /\ outages' = outages - 1
          /\ down' = down \cup {ConnectorOf(r)}
  /\ continued' = continued \cup {r}
  /\ \/ UNCHANGED <<classless, anomalies>>
     \/ /\ anomalies > 0 /\ anomalies' = anomalies - 1
        /\ classless' = classless \cup {r}
  /\ Advance(ReadOrder, "normalize")
  /\ UNCHANGED <<results, products>>

\* Mutant of Normalize: rejected facts leave the step to be tried again.
NormalizeAndRetry(c) ==
  /\ c \in Due("normalize", NormalizerOrder)
  /\ Built(c) # {}
  /\ facts' = [facts EXCEPT ![c] = Built(c)]
  /\ Advance(NormalizerOrder, "aggregate")
  /\ UNCHANGED <<results, failures, diagnosis, observation, env>>

\* A normalizer stores its component's facts, or finalize_facts raises and the
\* operation fails.
Normalize(c) ==
  /\ c \in Due("normalize", NormalizerOrder)
  /\ \/ /\ Built(c) # {}
        /\ facts' = [facts EXCEPT ![c] = Built(c)]
        /\ Advance(NormalizerOrder, "aggregate")
     \/ /\ Built(c) = {}
        /\ phase' = "failed"
        /\ UNCHANGED <<at, facts>>
  /\ UNCHANGED <<results, failures, diagnosis, observation, env>>

\* aggregate_monitoring_host_diagnosis.
Aggregate ==
  /\ phase = "aggregate"
  /\ \/ /\ WithinContract(Diagnosed)
        /\ diagnosis' = {Diagnosed}
        /\ phase' = "observe"
     \/ /\ ~WithinContract(Diagnosed)
        /\ phase' = "failed"
        /\ UNCHANGED diagnosis
  /\ UNCHANGED <<at, results, failures, facts, observation, env>>

\* The projection copies a diagnosis into the envelope, once it has passed its
\* contract's validation for the second time.
Projection(diagnoses) == {d \in diagnoses : WithinContract(d)}

\* build_monitoring_host_reaction_observation: without a diagnosis it raises.
Observe ==
  /\ phase = "observe"
  /\ Projection(diagnosis) # {} /\ observation' = Projection(diagnosis)
  /\ phase' = "receipt"
  /\ UNCHANGED <<at, results, failures, facts, diagnosis, env>>

\* produce_receipt, the engine's last step.
ProduceReceipt ==
  /\ phase = "receipt"
  /\ phase' = "completed"
  /\ UNCHANGED <<at, results, failures, products, env>>

WorkflowStep ==
  \/ \E r \in Due("read", ReadOrder) :
       FailRead(r) \/ \E answer \in Offers(r) : AnswerRead(r, answer)
  \/ \E c \in Due("normalize", NormalizerOrder) : Normalize(c)
  \/ Aggregate \/ Observe \/ ProduceReceipt

Spec == Init /\ [][WorkflowStep]_vars

\* Every step has a timeout, so the engine gets on with the operation.
FairSpec == Spec /\ WF_vars(WorkflowStep)

-----------------------------------------------------------------------------
(***************************************************************************)
(* Properties.                                                             *)
(***************************************************************************)
Diagnoses ==
  [components: [Components -> {"healthy", "unhealthy", "unavailable"}],
   findings: SUBSET [component: Components \cup {"monitoring_host"},
                     kind: {"observed_healthy", "unhealthy", "component_unavailable"}],
   observed_health: {"healthy", "degraded"},
   coverage_status: {"complete", "partial"},
   continued_failures: SUBSET Reads,
   classless: SUBSET Reads]

FactsObjects ==
  [health: {"healthy", "unhealthy"}, coverage: {"complete", "partial"},
   assessment: {"healthy", "degraded", "unhealthy", "unknown"}]

\* Every variable keeps its type; a diagnosis has the shape its contract demands
\* (_validate_monitoring_host_diagnosis_v1_shape) and each step is reached once.
TypeOK ==
  /\ phase \in Phases
  /\ at \in 1..Len(ReadOrder)
  /\ results \in [Reads -> Answers \cup {"none"}]
  /\ classless \subseteq continued /\ continued \subseteq Reads
  /\ facts \in [Components -> SUBSET FactsObjects]
  /\ \A c \in Components : \A f, g \in facts[c] : f = g
  /\ diagnosis \subseteq Diagnoses /\ Cardinality(diagnosis) <= 1
  /\ observation \subseteq diagnosis
  /\ down \subseteq Connectors
  /\ outages \in 0..MaxOutages /\ anomalies \in 0..MaxAnomalies

\* What the operation leads to: reactions are planned for a completed one only.
Proposed == IF phase = "completed" THEN UNION {Reactions(d) : d \in observation} ELSE {}

\* Aggregation of partial observations: a diagnosis calls a component healthy exactly
\* if the component's own facts, whose health key and assessment are computed apart,
\* are assessed so, and then only if every read behind it was answered.  The reboot
\* marker is the one exception: a missing answer is taken for a missing marker
\* (normalize_host_security_posture).
HealthyMeansRead ==
  \A d \in diagnosis, c \in Components :
    /\ d.components[c] = "healthy" <=> \E f \in facts[c] : f.assessment = "healthy"
    /\ d.components[c] = "healthy" =>
         Needs(c) \cap d.continued_failures \subseteq {"read_reboot_required_marker"}

\* Whatever else is down or odd, a component whose own reads were all answered well
\* is diagnosed healthy: outages of other connectors do not leak into it.
OutagesStayLocal ==
  \A d \in diagnosis, c \in Components :
    (\A r \in Needs(c) : results[r] = "good") => d.components[c] = "healthy"

\* The diagnosis lists exactly the reads that left no result, and claims complete
\* coverage only when there are none (aggregate_monitoring_host_diagnosis).
FailuresListed ==
  \A d \in diagnosis :
    /\ d.continued_failures = {r \in Reads : results[r] = "none"}
    /\ d.coverage_status = "complete" <=> \A r \in Reads : results[r] # "none"

\* End to end, through normalizer, aggregation, projection and pack: for every read
\* that failed, the reboot marker apart, some rule reacts on a component behind
\* which that read stands, and the host is not called healthy.
FailuresAreActedOn ==
  phase = "completed" =>
    \A r \in continued \ {"read_reboot_required_marker"} :
      /\ \E p \in Proposed : p.outcome \in {"run_intent", "escalate"} /\ r \in Needs(p.component)
      /\ \A p \in Proposed : p.outcome # "no_op"

\* The operation fails only for what a contract rejects: the state word of the ntp
\* service or of one of docker's two units is missing, more reads failed than a
\* diagnosis may list, or one was listed without its error class.  No other read's
\* failure ends it (finalize_facts).
FailsOnlyByContract ==
  phase = "failed" =>
    \/ results["read_ntp_service_state"] \in {"none", "void"}
    \/ \E r \in Needs("docker") : results[r] \in {"none", "void"}
    \/ Cardinality(continued) > MaxBlockers
    \/ classless # {}

\* Every operation ends, whatever is down: no step waits for a connector to return.
OperationEnds == <>(phase \in {"completed", "failed"})

\* src/tecrax/profile/intents/diagnose_monitoring_host.yaml:18: "Aggregate bounded
\* host, NTP, Docker, Zabbix, AdGuard and Portainer observations while preserving
\* partial failures": failing reads do not end the operation without a diagnosis.
DiagnosisSurvives == phase # "failed"

\* docs/domain-contracts.md:123-126: an unavailable component "escalates without
\* proposing a child intent", "without pretending that missing observations are safe
\* to remediate automatically": no intent for a component of which nothing was read.
MissingObservationsEscalate ==
  \A p \in Proposed : p.component \in Components /\ p.outcome = "run_intent"
                        => ~(Needs(p.component) \subseteq continued)
=============================================================================
