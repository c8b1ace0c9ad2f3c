------------------------ MODULE EscalationProposals -------------------------
(***************************************************************************)
(* Advisory proposals about a diagnosis of the monitoring host.            *)
(*                                                                         *)
(* A proposal is built from the diagnosis and a request: an outcome, an    *)
(* intent for the outcomes that need one, and references to evidence.  It  *)
(* is refused with an exception when the request names an intent that may  *)
(* change something, or evidence outside the operation's directory, and    *)
(* when its explanation, which lists findings and failed reads as text,    *)
(* grows too long.  Building one changes nothing, so this module adds no   *)
(* variables to the diagnosis: a refused proposal is the empty set.        *)
(*                                                                         *)
(* Of the explanation only its length and what it names are kept.  Words   *)
(* that make an explanation unsafe occur in none of the fixed texts, and   *)
(* the class of an error is taken for a plain name, as long as possible.   *)
(***************************************************************************)
EXTENDS MonitoringDiagnosis

CONSTANTS
  ErrorClassLength, \* bound: the longest name of an error's class
  Requests          \* the requests that are made

\* The aggregation cuts the class of an error at 64 characters.
ASSUME ErrorClassAssumption == ErrorClassLength \in 1..64

\* Mutant of ExplanationLimit: half of it.
ExplanationLimitHalved == 384

ExplanationLimit == 768

\* Mutant of SummaryLimit: half as many entries.
SummaryLimitFour == 4

SummaryLimit == 8

-----------------------------------------------------------------------------
\* The request.
IntentOutcomes == {"run_intent", "retry_intent"}
Outcomes == {"escalate", "no_op"} \cup IntentOutcomes

ReadOnlyModes == {"read_only", "dry_run", "observe", "emergency_readonly"}

\* The intents of the profile; all but one may only read.
ReadingIntents ==
  {"assess_network_device_management_posture_readonly", "check_adguard_health",
   "check_docker_services_health", "check_ntp_health", "check_ntp_server_health",
   "check_portainer_health", "check_zabbix_container_health",
   "collect_basic_host_inventory", "collect_host_security_posture_readonly",
   "collect_network_device_inventory_readonly",
   "collect_zabbix_host_availability_summary_readonly",
   "collect_zabbix_problem_summary_readonly", "diagnose_monitoring_host"}
ProfileIntents == ReadingIntents \cup {"configure_chrony_ntp_server"}

Modes(intent) == IF intent \in ReadingIntents THEN {"read_only", "dry_run"} ELSE {"apply"}

\* The intent that the reaction pack's rule for an unhealthy component runs.
IntentOf(c) ==
  CASE c = "host_inventory" -> "collect_basic_host_inventory"
    [] c = "ntp" -> "check_ntp_health"
    [] c = "docker" -> "check_docker_services_health"
    [] c = "zabbix" -> "check_zabbix_container_health"
    [] c = "adguard" -> "check_adguard_health"
    [] c = "portainer" -> "check_portainer_health"
    [] c = "host_security" -> "collect_host_security_posture_readonly"
    [] c = "ntp_server" -> "check_ntp_server_health"

\* An intent goes with the outcomes that run one, and with no other.
NormalizedIntent(request) == request.outcome \in IntentOutcomes <=> request.intent # "none"

ReadOnlyIntent(intent) == intent \in ProfileIntents /\ Modes(intent) \subseteq ReadOnlyModes

\* A reference is a relative path below the operation, or one of the unsafe kinds.
References == {"relative", "absolute", "parent", "home", "url", "backslash", "empty"}
SafeReference(ref) == ref = "relative"

RequestAccepted(request) ==
  /\ NormalizedIntent(request)
  /\ request.intent # "none" => ReadOnlyIntent(request.intent)
  /\ request.refs # {} /\ \A ref \in request.refs : SafeReference(ref)

-----------------------------------------------------------------------------
\* The explanation.
\* Findings keep the order of the diagnosis' components; failures are sorted by step.
FindingOrder == << "host_inventory", "ntp", "zabbix", "docker", "adguard", "portainer",
                   "host_security", "ntp_server", "monitoring_host" >>
FailureOrder == <<
  "read_adguard_dns_resolution", "read_adguard_login_status", "read_aslr_state",
  "read_available_updates_summary", "read_dmesg_restrict_state",
  "read_docker_service_state", "read_docker_socket_state", "read_filesystem_usage",
  "read_hostname", "read_kernel_identity", "read_load_average", "read_memory_summary",
  "read_ntp_server_variables", "read_ntp_service_state", "read_ntp_sync_state",
  "read_os_release", "read_portainer_status", "read_reboot_required_marker",
  "read_unattended_upgrades_state", "read_uptime", "read_zabbix_api_version" >>

\* Where an item stands in an order of all of them.
FindingPosition == [c \in Components \cup {"monitoring_host"} |->
                      CHOOSE i \in DOMAIN FindingOrder : FindingOrder[i] = c]
FailurePosition == [r \in Reads |-> CHOOSE i \in DOMAIN FailureOrder : FailureOrder[i] = r]

\* The place of an item in the list that holds some items in an order.
Place(position, items, item) == Cardinality({x \in items : position[x] <= position[item]})

\* The entries of a list that its summary keeps: the first few.
Summarized(position, items) == {x \in items : Place(position, items, x) <= SummaryLimit}

NamedComponents(d) == Summarized(FindingPosition, {f.component : f \in d.findings})
NamedFailures(d) == Summarized(FailurePosition, d.continued_failures)

\* component/kind/reason/severity, by component and kind.
FindingLength(c, kind) ==
  CASE kind = "observed_healthy" -> 80
    [] kind = "unhealthy" ->
         (CASE c = "host_inventory" -> 82 [] c = "ntp" -> 49 [] c = "zabbix" -> 58
            [] c = "docker" -> 76 [] c = "adguard" -> 61 [] c = "portainer" -> 67
            [] c = "host_security" -> 77 [] c = "ntp_server" -> 70)
    [] kind = "component_unavailable" ->
         (CASE c = "host_inventory" -> 78 [] c = "ntp" -> 56 [] c = "zabbix" -> 62
            [] c = "docker" -> 62 [] c = "adguard" -> 64 [] c = "portainer" -> 68
            [] c = "host_security" -> 76 [] c = "ntp_server" -> 70)

\* step/error, by step.
FailureLength(r) ==
  1 + ErrorClassLength +
  CASE r = "read_uptime" -> 11 [] r = "read_hostname" -> 13
    [] r \in {"read_os_release", "read_aslr_state"} -> 15
    [] r = "read_load_average" -> 17
    [] r \in {"read_memory_summary", "read_ntp_sync_state"} -> 19
    [] r = "read_kernel_identity" -> 20
    [] r \in {"read_filesystem_usage", "read_portainer_status"} -> 21
    [] r = "read_ntp_service_state" -> 22
    [] r = "read_zabbix_api_version" -> 23
    [] r = "read_docker_socket_state" -> 24
    [] r \in {"read_docker_service_state", "read_dmesg_restrict_state",
              "read_ntp_server_variables", "read_adguard_login_status"} -> 25
    [] r \in {"read_reboot_required_marker", "read_adguard_dns_resolution"} -> 27
    [] r \in {"read_unattended_upgrades_state", "read_available_updates_summary"} -> 30

\* A text of at most eight entries with a comma between two, and "none" without any.
Joined(length) ==
  LET slot(i) == IF length[i] > 0 THEN length[i] + 1 ELSE 0
      total == slot(1) + slot(2) + slot(3) + slot(4) + slot(5) + slot(6) + slot(7) + slot(8)
  IN  IF total = 0 THEN 4 ELSE total - 1

\* A finding has its component's slot; the one of a healthy host stands alone.
FindingsLength(d) ==
  IF [component |-> "monitoring_host", kind |-> "observed_healthy"] \in d.findings
  THEN FindingLength("monitoring_host", "observed_healthy")
  ELSE Joined([i \in 1..8 |->
         IF FindingOrder[i] \in NamedComponents(d)
         THEN FindingLength(FindingOrder[i], FindingKind(d.components[FindingOrder[i]]))
         ELSE 0])

\* A failure has the slot of its place in the list.
FailuresLength(d) ==
  Joined([i \in 1..8 |->
    LET entry == {r \in NamedFailures(d) : Place(FailurePosition, d.continued_failures, r) = i}
    IN  IF entry = {} THEN 0 ELSE FailureLength(CHOOSE r \in entry : TRUE)])

ExplanationLength(d) ==
  179 + (IF d.observed_health = "healthy" THEN 7 ELSE 8)
      + (IF d.coverage_status = "complete" THEN 8 ELSE 7)
      + FindingsLength(d) + FailuresLength(d)

-----------------------------------------------------------------------------
\* The proposal, with what its explanation names, or nothing.
Proposal(d, request) ==
  IF WithinContract(d) /\ RequestAccepted(request) /\ ExplanationLength(d) <= ExplanationLimit
  THEN {[suggested_outcome |-> request.outcome, intent_ref |-> request.intent,
         findings |-> NamedComponents(d), continued_failures |-> NamedFailures(d)]}
  ELSE {}

-----------------------------------------------------------------------------
(***************************************************************************)
(* Properties.                                                             *)
(***************************************************************************)
\* The proposal that hands a reaction of the pack on.
RequestFor(reaction) ==
  [outcome |-> reaction.outcome,
   intent |-> IF reaction.outcome = "run_intent" THEN IntentOf(reaction.component) ELSE "none",
   refs |-> {"relative"}]

ServiceReads == {r \in Reads : ConnectorOf(r) # "monitoring_host"}

\* Whatever the pack reacts with can be proposed: no intent it runs is refused as one
\* that may change something, and the explanation's bound, which the many lengths of
\* the texts add up against, cannot refuse it while all reads were answered, however
\* many components are unhealthy, nor while only the three services are in trouble,
\* however long the error classes are (_validate_readonly_intent,
\* _validate_explanation, _monitoring_host_explanation).
ReactionsCanBeProposed ==
  phase = "completed" =>
    \A d \in observation : \A reaction \in Reactions(d) :
      /\ RequestAccepted(RequestFor(reaction))
      /\ \/ continued = {}
         \/ \A r \in Reads \ ServiceReads : results[r] = "good"
         => Proposal(d, RequestFor(reaction)) # {}

\* What a proposal leaves out: its findings name a component behind each read that
\* failed, the reboot marker apart, and every component that the pack reacts to; the
\* read itself is left out only if eight others are listed (_summarize_findings,
\* _summarize_failures).
ProposalsNameTheTrouble ==
  phase = "completed" =>
    \A d \in observation, request \in Requests : \A proposal \in Proposal(d, request) :
      /\ \A c \in Components : d.components[c] # "healthy" => c \in proposal.findings
      /\ \A r \in continued \ {"read_reboot_required_marker"} :
           \E c \in proposal.findings \cap Components : r \in Needs(c)
      /\ \A r \in continued \ proposal.continued_failures :
           Cardinality(proposal.continued_failures) = 8
=============================================================================
