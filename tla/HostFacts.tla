------------------------------ MODULE HostFacts ------------------------------
(***************************************************************************)
(* How the answers of the diagnosis workflow's reads become facts.         *)
(*                                                                         *)
(* Per component there is a normalizer, which parses the answers into the  *)
(* fields of a contract's class; the class, which derives the health key   *)
(* from its own fields; the contract's shape, which says what is rejected; *)
(* and a builder, which adds coverage and assessment to it.  Three         *)
(* components have no class and no shape: their normalizer is the builder. *)
(*                                                                         *)
(* Everything here is a function of "answers", which holds per read what   *)
(* the parsers tell apart:                                                 *)
(*   "good"  what a healthy system answers                                 *)
(*   "bad"   a well-formed answer that shows a problem                     *)
(*   "void"  an answer in which the parser does not find what it needs     *)
(*   "none"  no result: the read failed                                    *)
(* A facts object is a set of one record, and the empty set stands for the *)
(* ValueError of facts that their contract rejects.                        *)
(***************************************************************************)
EXTENDS Integers

\* A state word of systemd, and the empty text of a step without a result or of a
\* property that the unit does not have.
Word(answer) ==
  CASE answer = "good" -> "active"
    [] answer = "bad" -> "inactive"
    [] OTHER -> ""

\* A number in an answer: none where the text holds none.
Number(answer, healthy, other) ==
  CASE answer = "good" -> {healthy}
    [] answer = "bad" -> {other}
    [] OTHER -> {}

\* _bounded_string: a required text is not empty.
BoundedString(text, required) == required => text # ""

\* Adds the envelope to a payload and validates the whole.  Coverage is partial when
\* something is named as not observed.  The payload's health key is "complete" for
\* the inventory and "healthy" for all others.
FinalizeFacts(shape, key, not_observed, assessment) ==
  IF shape
  THEN {[health |-> IF key THEN "healthy" ELSE "unhealthy",
         coverage |-> IF not_observed THEN "partial" ELSE "complete",
         assessment |-> assessment]}
  ELSE {}

-----------------------------------------------------------------------------
\* Host inventory: seven reads, a field or two of each.
InventoryReads == {"read_os_release", "read_kernel_identity", "read_hostname",
                   "read_uptime", "read_load_average", "read_filesystem_usage",
                   "read_memory_summary"}

BasicHostInventory(answers) == {r \in InventoryReads : answers[r] = "good"}

InventoryComplete(found) == found = InventoryReads

\* The shape lets the load average be absent, unlike the class.
InventoryShape(found) ==
  InventoryComplete(found) => InventoryReads \ {"read_load_average"} \subseteq found

BuildBasicHostInventory(answers) ==
  LET found == BasicHostInventory(answers)
      complete == InventoryComplete(found)
  IN  FinalizeFacts(InventoryShape(found), complete, ~complete,
                    IF complete THEN "healthy" ELSE "unknown")

-----------------------------------------------------------------------------
\* NTP as the host sees it.
NtpLocalHealth(answers) ==
  [synchronized |-> IF answers["read_ntp_sync_state"] = "good" THEN "yes" ELSE "no",
   service_state |-> Word(answers["read_ntp_service_state"])]

NtpLocalHealthy(model) == model.synchronized = "yes" /\ model.service_state = "active"

NtpLocalShape(model) == BoundedString(model.service_state, TRUE)

\* Its coverage is complete even when nothing was read of the synchronisation.
BuildNtpLocalHealth(answers) ==
  LET model == NtpLocalHealth(answers)
      healthy == NtpLocalHealthy(model)
  IN  FinalizeFacts(NtpLocalShape(model), healthy, FALSE,
                    IF healthy THEN "healthy" ELSE "unhealthy")

-----------------------------------------------------------------------------
\* Docker's two units.  Each has four state words; one stands for them, the empty
\* one for a unit of which some word is missing.
DockerServiceHealth(answers) ==
  [service_state |-> Word(answers["read_docker_service_state"]),
   socket_state |-> Word(answers["read_docker_socket_state"])]

\* The socket is reported, but the health key is the service's alone.
DockerServiceHealthy(model) == model.service_state = "active"

DockerShape(model) ==
  BoundedString(model.service_state, TRUE) /\ BoundedString(model.socket_state, TRUE)

\* Containers, images and stacks are always listed as not observed.
BuildDockerServiceHealth(answers) ==
  LET model == DockerServiceHealth(answers)
      healthy == DockerServiceHealthy(model)
  IN  FinalizeFacts(DockerShape(model), healthy, TRUE,
                    IF healthy THEN "healthy" ELSE "unhealthy")

-----------------------------------------------------------------------------
\* Three reachability checks, whose payload the normalizer finalizes itself.
Reachability(reachable) ==
  FinalizeFacts(TRUE, reachable, TRUE, IF reachable THEN "healthy" ELSE "unhealthy")

\* Mutant of NormalizeZabbix: reachability facts are rejected without a version.
NormalizeZabbixWithVersion(answers) ==
  IF answers["read_zabbix_api_version"] = "good" THEN Reachability(TRUE) ELSE {}

NormalizeZabbix(answers) == Reachability(answers["read_zabbix_api_version"] = "good")

\* Mutant of NormalizeAdguard: one of the two signs suffices.
NormalizeAdguardEither(answers) ==
  Reachability(\/ answers["read_adguard_dns_resolution"] = "good"
               \/ answers["read_adguard_login_status"] = "good")

NormalizeAdguard(answers) ==
  Reachability(/\ answers["read_adguard_dns_resolution"] = "good"
               /\ answers["read_adguard_login_status"] = "good")

\* Mutant of NormalizePortainer: the version is taken from another step's result.
NormalizePortainerFromZabbix(answers) == Reachability(answers["read_zabbix_api_version"] = "good")

NormalizePortainer(answers) == Reachability(answers["read_portainer_status"] = "good")

-----------------------------------------------------------------------------
\* Host security.  A count of security updates is taken only from a summary that
\* knows it.  A marker that was not read counts as one that is absent.
HostSecuritySignals(answers) ==
  [unattended |-> Word(answers["read_unattended_upgrades_state"]),
   security_updates |-> Number(answers["read_available_updates_summary"], 0, 1),
   aslr_mode |-> Number(answers["read_aslr_state"], 2, 0),
   dmesg_restrict |-> Number(answers["read_dmesg_restrict_state"], 1, 0),
   reboot_required |-> IF answers["read_reboot_required_marker"] = "bad" THEN "yes" ELSE "no"]

SignalsComplete(signals) ==
  /\ BoundedString(signals.unattended, TRUE)
  /\ signals.security_updates # {}
  /\ signals.aslr_mode # {} /\ signals.dmesg_restrict # {}

SignalsHealthy(signals) ==
  /\ SignalsComplete(signals)
  /\ signals.unattended = "active"
  /\ signals.security_updates = {0}
  /\ signals.reboot_required = "no"
  /\ signals.aslr_mode = {2} /\ signals.dmesg_restrict = {1}

\* The class takes both verdicts from the normalizer, and lets neither stand while
\* the number of updates is unknown.
HostSecurityPosture(signals) ==
  LET complete == SignalsComplete(signals) /\ signals.security_updates # {}
  IN  [complete |-> IF complete THEN "yes" ELSE "no",
       healthy |-> IF SignalsHealthy(signals) /\ complete THEN "yes" ELSE "no"]

\* Numbers that were parsed are not negative, and absent ones are allowed.
HostSecurityShape(signals) ==
  \A field \in {signals.security_updates, signals.aslr_mode, signals.dmesg_restrict} :
    field \subseteq Nat

\* healthy, degraded or unknown.
Assessment(healthy, complete) ==
  CASE healthy -> "healthy" [] ~healthy /\ complete -> "degraded" [] OTHER -> "unknown"

BuildHostSecurityPosture(answers) ==
  LET signals == HostSecuritySignals(answers)
      model == HostSecurityPosture(signals)
  IN  FinalizeFacts(HostSecurityShape(signals), model.healthy = "yes", model.complete = "no",
                    Assessment(model.healthy = "yes", model.complete = "yes"))

-----------------------------------------------------------------------------
\* The NTP daemon as a server.  An unsynchronised one reports stratum 16.
NtpServerObservation(answers) ==
  [daemon_state |-> Word(answers["read_ntp_service_state"]),
   stratum |-> Number(answers["read_ntp_server_variables"], 2, 16),
   leap |-> Number(answers["read_ntp_server_variables"], 0, 3)]

\* Computed twice, by the normalizer for its verdict and by the class for coverage.
NtpServerComplete(model) ==
  model.daemon_state = "active" /\ model.stratum # {} /\ model.leap # {}

NtpServerHealthy(model) ==
  /\ NtpServerComplete(model)
  /\ model.stratum \subseteq 1..15
  /\ 3 \notin model.leap

NtpServerShape(model) ==
  /\ BoundedString(model.daemon_state, TRUE)
  /\ model.stratum \cup model.leap \subseteq Nat

BuildNtpServerObservation(answers) ==
  LET model == NtpServerObservation(answers)
      healthy == NtpServerHealthy(model)
      complete == NtpServerComplete(model)
  IN  FinalizeFacts(NtpServerShape(model), healthy, ~complete, Assessment(healthy, complete))
=============================================================================
