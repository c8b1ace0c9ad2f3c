---------------------- MODULE MonitoringDiagnosisProofs ----------------------
(***************************************************************************)
(* Proofs about MonitoringDiagnosis for every limit on the failures a      *)
(* diagnosis may list and every number of outages and odd answers.         *)
(***************************************************************************)
EXTENDS MonitoringDiagnosis, FiniteSetTheorems, TLAPS

\* No step of the workflow reads what another reads.
LEMMA ReadsDistinct ==
  \A i, j \in 1..21 : ReadOrder[i] = ReadOrder[j] => i = j
  BY DEF ReadOrder

LEMMA Lengths == /\ Len(ReadOrder) = 21 /\ DOMAIN ReadOrder = 1..21
                 /\ Len(NormalizerOrder) = 8 /\ DOMAIN NormalizerOrder = 1..8
  BY DEF ReadOrder, NormalizerOrder

LEMMA ReadsFinite == IsFiniteSet(Reads)
<1>1. ReadOrder \in Surjection(1..21, Reads)
  <2>1. ReadOrder = [i \in 1..21 |-> ReadOrder[i]]
    BY DEF ReadOrder
  <2>2. Reads = {ReadOrder[i] : i \in 1..21}
    BY Lengths DEF Reads
  <2>3. QED
    BY <2>1, <2>2 DEF Surjection
<1>2. QED
  BY <1>1, FS_NatSurjection DEF ExistsSurjection

LEMMA ComponentNames ==
  Components = {"host_inventory", "ntp", "docker", "zabbix", "adguard", "portainer",
                "host_security", "ntp_server"}
  BY DEF Components, NormalizerOrder

LEMMA ReadNames ==
  /\ \A c \in Components : Needs(c) \subseteq Reads
  /\ \A r \in Reads : \E c \in Components : r \in Needs(c)
  BY DEF Reads, Needs, Components, ReadOrder, NormalizerOrder, InventoryReads
-----------------------------------------------------------------------------
(***************************************************************************)
(* What the handlers build, in closed form.                                *)
(***************************************************************************)
Good(reads) == \A r \in reads : results[r] = "good"

\* The answers with which a component's facts say that it is healthy.
HealthKey(c) ==
  CASE c = "docker" -> results["read_docker_service_state"] = "good"
    [] c = "host_security" -> /\ Good(Needs(c) \ {"read_reboot_required_marker"})
                              /\ results["read_reboot_required_marker"] # "bad"
    [] OTHER -> Good(Needs(c))
Status(c) == IF HealthKey(c) THEN "healthy" ELSE "unhealthy"

\* The answers with which a component's facts pass their contract.
Accepted(c) ==
  CASE c \in {"ntp", "ntp_server"} -> results["read_ntp_service_state"] \in {"good", "bad"}
    [] c = "docker" -> \A r \in Needs("docker") : results[r] \in {"good", "bad"}
    [] OTHER -> TRUE

\* One facts object with a health key, whose assessment agrees with the key.
OneObject(objects, health) ==
  \E f \in FactsObjects :
    /\ objects = {f} /\ f.health = health
    /\ f.assessment = "healthy" <=> health = "healthy"

LEMMA FinalizedFacts ==
  ASSUME NEW health \in {"healthy", "unhealthy"}, NEW coverage \in {"complete", "partial"},
         NEW verdict \in {"healthy", "degraded", "unhealthy", "unknown"},
         verdict = "healthy" <=> health = "healthy"
  PROVE  OneObject({[health |-> health, coverage |-> coverage, assessment |-> verdict]}, health)
<1> DEFINE f == [health |-> health, coverage |-> coverage, assessment |-> verdict]
<1>1. f \in FactsObjects
  BY DEF FactsObjects
<1>2. f.health = health /\ f.assessment = verdict
  OBVIOUS
<1>3. QED
  BY <1>1, <1>2 DEF OneObject

\* A component's facts are rejected, or they are such an object.
Summarizes(objects, accepted, healthy) ==
  IF accepted THEN OneObject(objects, IF healthy THEN "healthy" ELSE "unhealthy")
  ELSE objects = {}

LEMMA InventoryFacts ==
  Summarizes(BuildBasicHostInventory(results), TRUE, Good(InventoryReads))
<1> DEFINE found == BasicHostInventory(results)
<1>1. InventoryComplete(found) <=> Good(InventoryReads)
  BY DEF BasicHostInventory, InventoryComplete, Good
<1>2. InventoryShape(found)
  BY DEF InventoryShape, InventoryComplete
<1>3. BuildBasicHostInventory(results) =
        {[health |-> IF InventoryComplete(found) THEN "healthy" ELSE "unhealthy",
          coverage |-> IF ~InventoryComplete(found) THEN "partial" ELSE "complete",
          assessment |-> IF InventoryComplete(found) THEN "healthy" ELSE "unknown"]}
  BY <1>2 DEF BuildBasicHostInventory, FinalizeFacts
<1>4. QED
  BY <1>1, <1>3, FinalizedFacts DEF Summarizes

LEMMA NtpFacts ==
  Summarizes(BuildNtpLocalHealth(results),
             results["read_ntp_service_state"] \in {"good", "bad"},
             Good({"read_ntp_sync_state", "read_ntp_service_state"}))
<1> DEFINE model == NtpLocalHealth(results)
<1>1. NtpLocalHealthy(model) <=> Good({"read_ntp_sync_state", "read_ntp_service_state"})
  BY DEF NtpLocalHealth, NtpLocalHealthy, Word, Good
<1>2. NtpLocalShape(model) <=> results["read_ntp_service_state"] \in {"good", "bad"}
  BY DEF NtpLocalShape, NtpLocalHealth, Word, BoundedString
<1>3. BuildNtpLocalHealth(results) =
        IF NtpLocalShape(model)
        THEN {[health |-> IF NtpLocalHealthy(model) THEN "healthy" ELSE "unhealthy",
               coverage |-> "complete",
               assessment |-> IF NtpLocalHealthy(model) THEN "healthy" ELSE "unhealthy"]}
        ELSE {}
  BY DEF BuildNtpLocalHealth, FinalizeFacts
<1>4. QED
  BY <1>1, <1>2, <1>3, FinalizedFacts DEF Summarizes

LEMMA DockerFacts ==
  Summarizes(BuildDockerServiceHealth(results),
             \A r \in Needs("docker") : results[r] \in {"good", "bad"},
             results["read_docker_service_state"] = "good")
<1> DEFINE model == DockerServiceHealth(results)
<1>1. DockerServiceHealthy(model) <=> results["read_docker_service_state"] = "good"
  BY DEF DockerServiceHealth, DockerServiceHealthy, Word
<1>2. DockerShape(model) <=> \A r \in Needs("docker") : results[r] \in {"good", "bad"}
  BY DEF DockerShape, DockerServiceHealth, Word, BoundedString, Needs
<1>3. BuildDockerServiceHealth(results) =
        IF DockerShape(model)
        THEN {[health |-> IF DockerServiceHealthy(model) THEN "healthy" ELSE "unhealthy",
               coverage |-> "partial",
               assessment |-> IF DockerServiceHealthy(model) THEN "healthy" ELSE "unhealthy"]}
        ELSE {}
  BY DEF BuildDockerServiceHealth, FinalizeFacts
<1>4. QED
  BY <1>1, <1>2, <1>3, FinalizedFacts DEF Summarizes

LEMMA ReachabilityFacts ==
  /\ Summarizes(NormalizeZabbix(results), TRUE, Good({"read_zabbix_api_version"}))
  /\ Summarizes(NormalizeAdguard(results), TRUE,
                Good({"read_adguard_dns_resolution", "read_adguard_login_status"}))
  /\ Summarizes(NormalizePortainer(results), TRUE, Good({"read_portainer_status"}))
<1>1. NormalizeZabbix(results) =
        {[health |-> IF Good({"read_zabbix_api_version"}) THEN "healthy" ELSE "unhealthy",
          coverage |-> "partial",
          assessment |-> IF Good({"read_zabbix_api_version"}) THEN "healthy" ELSE "unhealthy"]}
  BY DEF NormalizeZabbix, Reachability, FinalizeFacts, Good
<1> DEFINE both == {"read_adguard_dns_resolution", "read_adguard_login_status"}
<1>2. NormalizeAdguard(results) =
        {[health |-> IF Good(both) THEN "healthy" ELSE "unhealthy",
          coverage |-> "partial",
          assessment |-> IF Good(both) THEN "healthy" ELSE "unhealthy"]}
  BY DEF NormalizeAdguard, Reachability, FinalizeFacts, Good
<1>3. NormalizePortainer(results) =
        {[health |-> IF Good({"read_portainer_status"}) THEN "healthy" ELSE "unhealthy",
          coverage |-> "partial",
          assessment |-> IF Good({"read_portainer_status"}) THEN "healthy" ELSE "unhealthy"]}
  BY DEF NormalizePortainer, Reachability, FinalizeFacts, Good
<1>4. QED
  BY <1>1, <1>2, <1>3, FinalizedFacts DEF Summarizes

LEMMA HostSecurityFacts ==
  Summarizes(BuildHostSecurityPosture(results), TRUE,
             /\ Good(Needs("host_security") \ {"read_reboot_required_marker"})
             /\ results["read_reboot_required_marker"] # "bad")
<1> DEFINE signals == HostSecuritySignals(results)
           model == HostSecurityPosture(signals)
           well == /\ results["read_unattended_upgrades_state"] = "good"
                   /\ results["read_available_updates_summary"] = "good"
                   /\ results["read_aslr_state"] = "good"
                   /\ results["read_dmesg_restrict_state"] = "good"
                   /\ results["read_reboot_required_marker"] # "bad"
<1>1. /\ model.complete = "yes" <=> SignalsComplete(signals)
      /\ model.healthy = "yes" <=> SignalsHealthy(signals)
  BY DEF HostSecurityPosture, SignalsComplete, SignalsHealthy
<1>2. SignalsHealthy(signals) <=> well
  <2>1. /\ signals.unattended = "active" <=> results["read_unattended_upgrades_state"] = "good"
        /\ signals.security_updates = {0} <=> results["read_available_updates_summary"] = "good"
        /\ signals.aslr_mode = {2} <=> results["read_aslr_state"] = "good"
        /\ signals.dmesg_restrict = {1} <=> results["read_dmesg_restrict_state"] = "good"
        /\ signals.reboot_required = "no" <=> results["read_reboot_required_marker"] # "bad"
    BY DEF HostSecuritySignals, Number, Word
  <2>2. SignalsHealthy(signals) => well
    BY <2>1 DEF SignalsHealthy
  <2>3. well => SignalsHealthy(signals)
    BY <2>1 DEF SignalsHealthy, SignalsComplete, BoundedString
  <2>4. QED
    BY <2>2, <2>3
<1>3. HostSecurityShape(signals)
  BY DEF HostSecurityShape, HostSecuritySignals, Number
<1>4. well <=> /\ Good(Needs("host_security") \ {"read_reboot_required_marker"})
              /\ results["read_reboot_required_marker"] # "bad"
  BY DEF Good, Needs
<1>5. BuildHostSecurityPosture(results) =
        {[health |-> IF model.healthy = "yes" THEN "healthy" ELSE "unhealthy",
          coverage |-> IF model.complete = "no" THEN "partial" ELSE "complete",
          assessment |-> CASE model.healthy = "yes" -> "healthy"
                           [] model.healthy # "yes" /\ model.complete = "yes" -> "degraded"
                           [] OTHER -> "unknown"]}
  BY <1>3 DEF BuildHostSecurityPosture, FinalizeFacts, Assessment
<1> HIDE DEF model, well
<1>6. QED
  BY <1>1, <1>2, <1>4, <1>5, FinalizedFacts DEF Summarizes

LEMMA NtpServerFacts ==
  Summarizes(BuildNtpServerObservation(results),
             results["read_ntp_service_state"] \in {"good", "bad"},
             Good({"read_ntp_service_state", "read_ntp_server_variables"}))
<1> DEFINE model == NtpServerObservation(results)
<1>1. NtpServerHealthy(model)
        <=> Good({"read_ntp_service_state", "read_ntp_server_variables"})
  <2>1. model.daemon_state = "active" <=> results["read_ntp_service_state"] = "good"
    BY DEF NtpServerObservation, Word
  <2>2. /\ results["read_ntp_server_variables"] = "good" => model.stratum = {2} /\ model.leap = {0}
        /\ results["read_ntp_server_variables"] = "bad" => model.stratum = {16} /\ model.leap = {3}
        /\ results["read_ntp_server_variables"] \notin {"good", "bad"} => model.stratum = {}
    BY DEF NtpServerObservation, Number
  <2>3. NtpServerHealthy(model)
          => Good({"read_ntp_service_state", "read_ntp_server_variables"})
    BY <2>1, <2>2 DEF NtpServerHealthy, NtpServerComplete, Good
  <2>4. Good({"read_ntp_service_state", "read_ntp_server_variables"})
          => NtpServerHealthy(model)
    BY <2>1, <2>2 DEF NtpServerHealthy, NtpServerComplete, Good
  <2>5. QED
    BY <2>3, <2>4
<1>2. NtpServerShape(model) <=> results["read_ntp_service_state"] \in {"good", "bad"}
  BY DEF NtpServerShape, NtpServerObservation, Word, Number, BoundedString
<1>3. BuildNtpServerObservation(results) =
        IF NtpServerShape(model)
        THEN {[health |-> IF NtpServerHealthy(model) THEN "healthy" ELSE "unhealthy",
               coverage |-> IF ~NtpServerComplete(model) THEN "partial" ELSE "complete",
               assessment |-> CASE NtpServerHealthy(model) -> "healthy"
                                [] ~NtpServerHealthy(model) /\ NtpServerComplete(model) -> "degraded"
                                [] OTHER -> "unknown"]}
        ELSE {}
  BY DEF BuildNtpServerObservation, FinalizeFacts, Assessment
<1> HIDE DEF model
<1>4. QED
  BY <1>1, <1>2, <1>3, FinalizedFacts DEF Summarizes

\* All eight handlers together.
LEMMA BuiltFacts ==
  ASSUME NEW c \in Components
  PROVE  Summarizes(Built(c), Accepted(c), HealthKey(c))
<1> USE DEF Built, Accepted, HealthKey, Needs
<1>1. CASE c = "host_inventory"
  BY <1>1, InventoryFacts
<1>2. CASE c = "ntp"
  BY <1>2, NtpFacts
<1>3. CASE c = "docker"
  BY <1>3, DockerFacts
<1>4. CASE c = "zabbix"
  BY <1>4, ReachabilityFacts
<1>5. CASE c = "adguard"
  BY <1>5, ReachabilityFacts
<1>6. CASE c = "portainer"
  BY <1>6, ReachabilityFacts
<1>7. CASE c = "host_security"
  BY <1>7, HostSecurityFacts
<1>8. CASE c = "ntp_server"
  BY <1>8, NtpServerFacts
<1>9. QED
  BY <1>1, <1>2, <1>3, <1>4, <1>5, <1>6, <1>7, <1>8, ComponentNames
-----------------------------------------------------------------------------
(***************************************************************************)
(* The inductive invariant.                                                *)
(***************************************************************************)
Done(i) == phase # "read" \/ i < at

\* Each read before the current one left a result or was listed as failed, not
\* both; those from the current one on left nothing yet.
ReadsInv ==
  /\ \A r \in Reads : results[r] \in Offers(r) \cup {"none"}
  /\ classless \subseteq continued /\ continued \subseteq Reads
  /\ \A i \in 1..21 :
       IF Done(i) THEN ReadOrder[i] \in continued <=> results[ReadOrder[i]] = "none"
       ELSE ReadOrder[i] \notin continued /\ results[ReadOrder[i]] = "none"

\* Facts that are stored are those that the results still give.
FactsInv ==
  /\ \A c \in Components : facts[c] # {} => facts[c] = Built(c)
  /\ phase = "read" => \A c \in Components : facts[c] = {}
  /\ phase = "normalize" => \A i \in 1..at - 1 : facts[NormalizerOrder[i]] # {}
  /\ phase \in {"aggregate", "observe", "receipt", "completed"} =>
       \A c \in Components : facts[c] # {}

\* The diagnosis is the aggregate of the facts, and the observation its copy.
DiagnosisInv ==
  /\ diagnosis = IF phase \in {"observe", "receipt", "completed"} THEN {Diagnosed} ELSE {}
  /\ observation = IF phase \in {"receipt", "completed"} THEN diagnosis ELSE {}
  /\ \A d \in diagnosis : WithinContract(d)

\* The position stays within the part of the workflow that is running.
PositionInv ==
  /\ phase \in Phases /\ at \in 1..21
  /\ phase = "normalize" => at \in 1..8
  /\ results \in [Reads -> Answers \cup {"none"}]
  /\ facts \in [Components -> SUBSET FactsObjects]
  /\ down \subseteq Connectors
  /\ outages \in 0..MaxOutages /\ anomalies \in 0..MaxAnomalies

Inv == PositionInv /\ ReadsInv /\ FactsInv /\ DiagnosisInv /\ FailsOnlyByContract

LEMMA OfferedAnswers == \A r \in Reads : Offers(r) \subseteq Answers /\ "good" \in Offers(r)
  BY DEF Offers, Answers

LEMMA ConnectorType == \A r \in Reads : ConnectorOf(r) \in Connectors
  BY DEF ConnectorOf, Connectors

LEMMA InitInv == Init => Inv
<1> SUFFICES ASSUME Init PROVE Inv
  OBVIOUS
<1> USE DEF Init
<1>1. PositionInv
  BY BoundsAssumption DEF PositionInv, Phases
<1>2. ReadsInv
  <2>1. \A i \in 1..21 : ReadOrder[i] \in Reads
    BY Lengths DEF Reads
  <2>2. QED
    BY <2>1 DEF ReadsInv, Done
<1>3. FactsInv
  BY DEF FactsInv
<1>4. DiagnosisInv /\ FailsOnlyByContract
  BY DEF DiagnosisInv, FailsOnlyByContract
<1>5. QED
  BY <1>1, <1>2, <1>3, <1>4 DEF Inv

\* Going on keeps the position and leaves everything before it done.
LEMMA AdvanceRead ==
  ASSUME PositionInv, phase = "read", Advance(ReadOrder, "normalize")
  PROVE  /\ phase' \in {"read", "normalize"} /\ at' \in 1..21
         /\ phase' = "normalize" => at' = 1
         /\ \A i \in 1..21 : Done(i)' <=> Done(i) \/ i = at
  BY Lengths DEF PositionInv, Advance, Done

LEMMA AdvanceNormalize ==
  ASSUME PositionInv, phase = "normalize", Advance(NormalizerOrder, "aggregate")
  PROVE  \/ phase' = "normalize" /\ at' = at + 1 /\ at' \in 1..8
         \/ phase' = "aggregate" /\ at' = 1 /\ at = 8
  BY Lengths DEF PositionInv, Advance

\* Facts are one object at most, and none exactly when their contract rejects them.
LEMMA FactsOfResults ==
  ASSUME NEW c \in Components
  PROVE  /\ Built(c) \in SUBSET FactsObjects
         /\ \A f, g \in Built(c) : f = g
         /\ Built(c) = {} <=> ~Accepted(c)
         /\ \A f \in Built(c) : f.health = Status(c) /\ (f.assessment = "healthy" <=> HealthKey(c))
<1>1. Summarizes(Built(c), Accepted(c), HealthKey(c))
  BY BuiltFacts
<1>2. CASE Accepted(c)
  <2>1. OneObject(Built(c), Status(c))
    BY <1>1, <1>2 DEF Summarizes, Status
  <2>2. Status(c) = "healthy" <=> HealthKey(c)
    BY DEF Status
  <2>3. QED
    BY <1>2, <2>1, <2>2 DEF OneObject
<1>3. CASE ~Accepted(c)
  BY <1>1, <1>3 DEF Summarizes
<1>4. QED
  BY <1>2, <1>3

\* A step that leaves the results alone leaves what the handlers would build alone.
LEMMA SameResults ==
  ASSUME UNCHANGED results
  PROVE  \A c \in Components : Built(c)' = Built(c)
  BY DEF Built

\* While the reads go on there are no facts.
LEMMA NoFactsYet ==
  ASSUME FactsInv, phase = "read", UNCHANGED facts,
         phase' \in {"read", "normalize"}, phase' = "normalize" => at' = 1
  PROVE  FactsInv'
<1>1. \A c \in Components : facts'[c] = {}
  BY DEF FactsInv
<1>2. phase' = "normalize" => 1..at' - 1 = {}
  OBVIOUS
<1>3. QED
  BY <1>1, <1>2 DEF FactsInv

LEMMA AnswerReadInv ==
  ASSUME Inv, NEW r \in Reads, NEW answer \in Offers(r), AnswerRead(r, answer)
  PROVE  Inv'
<1>0. phase = "read" /\ at \in 1..21 /\ r = ReadOrder[at] /\ answer # "none"
  BY OfferedAnswers DEF AnswerRead, Due, Inv, PositionInv, Answers
<1>1. /\ phase' \in {"read", "normalize"} /\ at' \in 1..21
      /\ phase' = "normalize" => at' = 1
      /\ \A i \in 1..21 : Done(i)' <=> Done(i) \/ i = at
  BY <1>0, AdvanceRead DEF AnswerRead, Inv
<1>2. PositionInv'
  <2>1. results' \in [Reads -> Answers \cup {"none"}]
    BY OfferedAnswers DEF AnswerRead, Inv, PositionInv
  <2>2. outages' \in 0..MaxOutages /\ anomalies' \in 0..MaxAnomalies
    BY BoundsAssumption DEF AnswerRead, Inv, PositionInv
  <2>3. down' \subseteq Connectors /\ UNCHANGED facts
    BY DEF AnswerRead, Inv, PositionInv, products
  <2>4. QED
    BY <1>1, <2>1, <2>2, <2>3 DEF Inv, PositionInv, Phases
<1>3. ReadsInv'
  <2>0. /\ results' = [results EXCEPT ![r] = answer] /\ UNCHANGED <<continued, classless>>
        /\ results \in [Reads -> Answers \cup {"none"}]
    BY DEF AnswerRead, Inv, PositionInv, failures
  <2>1. \A x \in Reads : results'[x] \in Offers(x) \cup {"none"}
    BY <2>0 DEF Inv, ReadsInv
  <2>2. ASSUME NEW i \in 1..21
        PROVE  IF Done(i)' THEN ReadOrder[i] \in continued' <=> results'[ReadOrder[i]] = "none"
               ELSE ReadOrder[i] \notin continued' /\ results'[ReadOrder[i]] = "none"
    <3>0. ReadOrder[i] \in Reads
      BY Lengths DEF Reads
    <3>1. CASE i = at
      <4>1. ~Done(i)
        BY <1>0, <3>1 DEF Done
      <4>2. ReadOrder[i] \notin continued
        BY <4>1 DEF Inv, ReadsInv
      <4>3. results'[ReadOrder[i]] = answer
        BY <1>0, <2>0, <3>1
      <4>4. QED
        BY <1>0, <1>1, <2>0, <3>1, <4>2, <4>3
    <3>2. CASE i # at
      <4>1. ReadOrder[i] # r
        BY <1>0, <3>2, ReadsDistinct
      <4>2. results'[ReadOrder[i]] = results[ReadOrder[i]]
        BY <2>0, <3>0, <4>1
      <4>3. QED
        BY <1>1, <2>0, <3>2, <4>2 DEF Inv, ReadsInv
    <3>3. QED
      BY <3>1, <3>2
  <2>3. QED
    BY <2>0, <2>1, <2>2 DEF Inv, ReadsInv
<1>4. FactsInv'
  BY <1>0, <1>1, NoFactsYet DEF AnswerRead, Inv, products
<1>5. DiagnosisInv' /\ FailsOnlyByContract'
  <2>1. UNCHANGED <<diagnosis, observation>> /\ diagnosis = {} /\ observation = {}
    BY <1>0 DEF AnswerRead, Inv, DiagnosisInv, products
  <2>2. DiagnosisInv'
    BY <1>1, <2>1 DEF DiagnosisInv
  <2>3. FailsOnlyByContract'
    BY <1>1 DEF FailsOnlyByContract
  <2>4. QED
    BY <2>2, <2>3
<1>6. QED
  BY <1>2, <1>3, <1>4, <1>5 DEF Inv

LEMMA FailReadInv ==
  ASSUME Inv, NEW r \in Reads, FailRead(r)
  PROVE  Inv'
<1>0. phase = "read" /\ at \in 1..21 /\ r = ReadOrder[at]
  BY DEF FailRead, Due, Inv, PositionInv
<1>1. /\ phase' \in {"read", "normalize"} /\ at' \in 1..21
      /\ phase' = "normalize" => at' = 1
      /\ \A i \in 1..21 : Done(i)' <=> Done(i) \/ i = at
  BY <1>0, AdvanceRead DEF FailRead, Inv
<1>2. PositionInv'
  <2>1. UNCHANGED <<results, facts>> /\ anomalies' \in 0..MaxAnomalies
    BY BoundsAssumption DEF FailRead, Inv, PositionInv, products
  <2>2. outages' \in 0..MaxOutages
    BY BoundsAssumption DEF FailRead, Inv, PositionInv
  <2>3. down' \subseteq Connectors
    BY ConnectorType DEF FailRead, Inv, PositionInv
  <2>4. QED
    BY <1>1, <2>1, <2>2, <2>3 DEF Inv, PositionInv, Phases
<1>3. ReadsInv'
  <2>0. /\ UNCHANGED results /\ continued' = continued \cup {r}
        /\ classless' \subseteq classless \cup {r}
    BY DEF FailRead
  <2>1. ASSUME NEW i \in 1..21
        PROVE  IF Done(i)' THEN ReadOrder[i] \in continued' <=> results'[ReadOrder[i]] = "none"
               ELSE ReadOrder[i] \notin continued' /\ results'[ReadOrder[i]] = "none"
    <3>1. CASE i = at
      <4>1. ~Done(i)
        BY <1>0, <3>1 DEF Done
      <4>2. results[ReadOrder[i]] = "none"
        BY <4>1 DEF Inv, ReadsInv
      <4>3. QED
        BY <1>0, <1>1, <2>0, <3>1, <4>2
    <3>2. CASE i # at
      <4>1. ReadOrder[i] # r
        BY <1>0, <3>2, ReadsDistinct
      <4>2. QED
        BY <1>1, <2>0, <3>2, <4>1 DEF Inv, ReadsInv
    <3>3. QED
      BY <3>1, <3>2
  <2>2. QED
    BY <2>0, <2>1 DEF Inv, ReadsInv
<1>4. FactsInv'
  BY <1>0, <1>1, NoFactsYet DEF FailRead, Inv, products
<1>5. DiagnosisInv' /\ FailsOnlyByContract'
  <2>1. UNCHANGED <<diagnosis, observation>> /\ diagnosis = {} /\ observation = {}
    BY <1>0 DEF FailRead, Inv, DiagnosisInv, products
  <2>2. DiagnosisInv'
    BY <1>1, <2>1 DEF DiagnosisInv
  <2>3. FailsOnlyByContract'
    BY <1>1 DEF FailsOnlyByContract
  <2>4. QED
    BY <2>2, <2>3
<1>6. QED
  BY <1>2, <1>3, <1>4, <1>5 DEF Inv

\* Once the reads are over, every read is done and stays what it is.
LEMMA ReadsOver ==
  ASSUME Inv, phase # "read", phase' # "read", UNCHANGED <<results, continued, classless>>
  PROVE  ReadsInv'
<1>1. \A i \in 1..21 : Done(i) /\ Done(i)'
  BY DEF Done
<1>2. QED
  BY <1>1 DEF Inv, ReadsInv

\* A contract rejects facts only for an ntp or a docker state word.
LEMMA RejectedFor ==
  ASSUME Inv, NEW c \in Components, ~Accepted(c)
  PROVE  \/ results["read_ntp_service_state"] \in {"none", "void"}
         \/ \E r \in Needs("docker") : results[r] \in {"none", "void"}
<1>1. CASE c \in {"ntp", "ntp_server"}
  <2>1. /\ "read_ntp_service_state" \in Reads
        /\ Offers("read_ntp_service_state") = {"good", "bad", "void"}
    BY DEF Reads, ReadOrder, Offers, InventoryReads
  <2>2. QED
    BY <1>1, <2>1 DEF Accepted, Inv, ReadsInv
<1>2. CASE c = "docker"
  <2>1. PICK r \in Needs("docker") : results[r] \notin {"good", "bad"}
    BY <1>2 DEF Accepted
  <2>2. "docker" \in Components /\ Needs("docker") \subseteq Reads
    BY ReadNames DEF Components, NormalizerOrder
  <2>3. results[r] \in Answers \cup {"none"}
    BY <2>1, <2>2 DEF Inv, PositionInv
  <2>4. QED
    BY <2>1, <2>3 DEF Answers
<1>3. CASE c \notin {"ntp", "ntp_server", "docker"}
  BY <1>3 DEF Accepted
<1>4. QED
  BY <1>1, <1>2, <1>3

LEMMA NormalizeInv ==
  ASSUME Inv, NEW c \in Components, Normalize(c)
  PROVE  Inv'
<1>0. /\ phase = "normalize" /\ at \in 1..8 /\ c = NormalizerOrder[at]
      /\ UNCHANGED <<results, continued, classless, diagnosis, observation, down, outages, anomalies>>
      /\ diagnosis = {} /\ observation = {}
  BY DEF Normalize, Due, Inv, PositionInv, DiagnosisInv, env, failures
<1>1. CASE Built(c) # {} /\ Advance(NormalizerOrder, "aggregate")
           /\ facts' = [facts EXCEPT ![c] = Built(c)]
  <2>1. \/ phase' = "normalize" /\ at' = at + 1 /\ at' \in 1..8
        \/ phase' = "aggregate" /\ at' = 1 /\ at = 8
    BY <1>0, <1>1, AdvanceNormalize DEF Inv
  <2>3. facts' \in [Components -> SUBSET FactsObjects]
    BY <1>1, FactsOfResults DEF Inv, PositionInv
  <2>4. PositionInv'
    BY <1>0, <2>1, <2>3 DEF Inv, PositionInv, Phases
  <2>5. ReadsInv'
    BY <1>0, <2>1, ReadsOver
  <2>6. FactsInv'
    <3>1. \A x \in Components : facts'[x] = IF x = c THEN Built(c) ELSE facts[x]
      BY <1>1 DEF Inv, PositionInv
    <3>2. \A x \in Components : facts'[x] # {} => facts'[x] = Built(x)'
      BY <1>0, <1>1, <3>1, SameResults DEF Inv, FactsInv
    <3>3. \A i \in 1..at : facts'[NormalizerOrder[i]] # {}
      <4> SUFFICES ASSUME NEW i \in 1..at PROVE facts'[NormalizerOrder[i]] # {}
        OBVIOUS
      <4>1. NormalizerOrder[i] \in Components
        BY <1>0, Lengths DEF Components
      <4>2. i = at \/ i \in 1..at - 1
        BY <1>0
      <4>3. QED
        BY <1>0, <1>1, <3>1, <4>1, <4>2 DEF Inv, FactsInv
    <3>4. at = 8 => \A x \in Components : facts'[x] # {}
      BY <3>3, Lengths DEF Components
    <3>5. QED
      BY <1>0, <2>1, <3>2, <3>3, <3>4 DEF FactsInv
  <2>7. DiagnosisInv' /\ FailsOnlyByContract'
    BY <1>0, <2>1 DEF DiagnosisInv, FailsOnlyByContract
  <2>8. QED
    BY <2>4, <2>5, <2>6, <2>7 DEF Inv
<1>2. CASE Built(c) = {} /\ phase' = "failed" /\ UNCHANGED <<at, facts>>
  <2>1. PositionInv'
    BY <1>0, <1>2 DEF Inv, PositionInv, Phases
  <2>2. ReadsInv'
    BY <1>0, <1>2, ReadsOver
  <2>3. FactsInv'
    BY <1>0, <1>2, SameResults DEF Inv, FactsInv
  <2>4. DiagnosisInv'
    BY <1>0, <1>2 DEF DiagnosisInv
  <2>5. FailsOnlyByContract'
    BY <1>0, <1>2, FactsOfResults, RejectedFor DEF FailsOnlyByContract
  <2>6. QED
    BY <2>1, <2>2, <2>3, <2>4, <2>5 DEF Inv
<1>3. QED
  BY <1>1, <1>2 DEF Normalize

LEMMA AggregateInv ==
  ASSUME Inv, Aggregate
  PROVE  Inv'
<1>0. /\ phase = "aggregate" /\ phase' \in {"observe", "failed"}
      /\ UNCHANGED <<at, results, continued, classless, facts, observation, down, outages,
                      anomalies>>
      /\ diagnosis = {} /\ observation = {}
  BY DEF Aggregate, Inv, DiagnosisInv, env, failures
<1>1. PositionInv'
  BY <1>0 DEF Inv, PositionInv, Phases
<1>2. ReadsInv'
  BY <1>0, ReadsOver
<1>3. FactsInv'
  BY <1>0, SameResults DEF Inv, FactsInv
<1>4. Diagnosed' = Diagnosed
  BY <1>0 DEF Diagnosed, ComponentStatus
<1>5. DiagnosisInv'
  BY <1>0, <1>4 DEF Aggregate, DiagnosisInv
<1>6. FailsOnlyByContract'
  <2>1. phase' = "failed" => ~(Cardinality(continued') <= MaxBlockers) \/ classless' # {}
    BY <1>0 DEF Aggregate, WithinContract, Diagnosed
  <2>2. Cardinality(continued') \in Nat
    BY <1>2, ReadsFinite, FS_Subset, FS_CardinalityType DEF ReadsInv
  <2>3. QED
    BY <2>1, <2>2, BoundsAssumption DEF FailsOnlyByContract
<1>7. QED
  BY <1>1, <1>2, <1>3, <1>5, <1>6 DEF Inv

\* The two steps that only pass a finished diagnosis on.
LEMMA PassOnInv ==
  ASSUME Inv, Observe \/ ProduceReceipt
  PROVE  Inv'
<1>0. /\ phase \in {"observe", "receipt"} /\ phase' \in {"receipt", "completed"}
      /\ UNCHANGED <<at, results, continued, classless, facts, diagnosis, down, outages,
                      anomalies>>
  BY DEF Observe, ProduceReceipt, products, env, failures
<1>1. PositionInv'
  BY <1>0 DEF Inv, PositionInv, Phases
<1>2. ReadsInv'
  BY <1>0, ReadsOver
<1>3. FactsInv'
  BY <1>0, SameResults DEF Inv, FactsInv
<1>4. Diagnosed' = Diagnosed
  BY <1>0 DEF Diagnosed, ComponentStatus
<1>5. diagnosis = {Diagnosed} /\ observation' = diagnosis
  <2>1. diagnosis = {Diagnosed}
    BY <1>0 DEF Inv, DiagnosisInv
  <2>2. CASE Observe
    BY <2>1, <2>2 DEF Observe, Projection
  <2>3. CASE ProduceReceipt
    BY <2>3 DEF ProduceReceipt, products, Inv, DiagnosisInv
  <2>4. QED
    BY <2>1, <2>2, <2>3
<1>6. DiagnosisInv'
  <2>1. \A d \in diagnosis' : WithinContract(d)
    BY <1>0 DEF Inv, DiagnosisInv
  <2>2. diagnosis' = {Diagnosed'}
    BY <1>0, <1>4, <1>5
  <2>3. observation' = diagnosis'
    BY <1>0, <1>5
  <2>4. \A d \in diagnosis' : WithinContract(d)'
    BY <2>1 DEF WithinContract
  <2>5. QED
    BY <1>0, <2>2, <2>3, <2>4 DEF DiagnosisInv
<1>7. FailsOnlyByContract'
  BY <1>0 DEF FailsOnlyByContract
<1>8. QED
  BY <1>1, <1>2, <1>3, <1>6, <1>7 DEF Inv

LEMMA StepInv == Inv /\ [WorkflowStep]_vars => Inv'
<1> SUFFICES ASSUME Inv, [WorkflowStep]_vars PROVE Inv'
  OBVIOUS
<1>1. CASE UNCHANGED vars
  <2>1. Diagnosed' = Diagnosed
    BY <1>1 DEF vars, Diagnosed, ComponentStatus
  <2>2. PositionInv' /\ ReadsInv' /\ DiagnosisInv' /\ FailsOnlyByContract'
    BY <1>1, <2>1 DEF vars, Inv, PositionInv, ReadsInv, Done, DiagnosisInv, FailsOnlyByContract
  <2>3. FactsInv'
    BY <1>1, SameResults DEF vars, Inv, FactsInv
  <2>4. QED
    BY <2>2, <2>3 DEF Inv
<1>2. CASE WorkflowStep
  <2>1. Due("read", ReadOrder) \subseteq Reads
    BY Lengths DEF Due, Reads, Inv, PositionInv
  <2>2. Due("normalize", NormalizerOrder) \subseteq Components
    BY Lengths DEF Due, Components, Inv, PositionInv
  <2>3. QED
    BY <1>2, <2>1, <2>2, AnswerReadInv, FailReadInv, NormalizeInv, AggregateInv, PassOnInv
       DEF WorkflowStep
<1>3. QED
  BY <1>1, <1>2

LEMMA Invariance == Spec => []Inv
  BY InitInv, StepInv, PTL DEF Spec

-----------------------------------------------------------------------------
(***************************************************************************)
(* The theorems.                                                           *)
(***************************************************************************)
\* The operation fails only for a missing state word or too many failures.
THEOREM FailsByContract == Spec => []FailsOnlyByContract
  BY Invariance, PTL DEF Inv

\* What is behind a healthy component of a diagnosis.
LEMMA HealthyFacts ==
  ASSUME Inv, NEW d \in diagnosis, NEW c \in Components
  PROVE  /\ d = Diagnosed
         /\ d.components[c] = Status(c)
         /\ d.continued_failures = continued
         /\ Accepted(c)
         /\ (\E f \in facts[c] : f.assessment = "healthy") <=> HealthKey(c)
<1>1. phase \in {"observe", "receipt", "completed"} /\ d = Diagnosed
  BY DEF Inv, DiagnosisInv
<1>2. facts[c] # {} /\ facts[c] = Built(c)
  BY <1>1 DEF Inv, FactsInv
<1>3. Accepted(c) /\ \A f \in facts[c] : f.health = Status(c)
  BY <1>2, FactsOfResults
<1>4. ComponentStatus(c) = Status(c)
  BY <1>2, <1>3 DEF ComponentStatus, Status
<1>5. (\E f \in facts[c] : f.assessment = "healthy") <=> HealthKey(c)
  BY <1>2, FactsOfResults
<1>6. QED
  BY <1>1, <1>3, <1>4, <1>5 DEF Diagnosed

\* Whatever is behind a health key was read, the reboot marker apart.
LEMMA HealthKeyReads ==
  ASSUME NEW c \in Components, HealthKey(c), Accepted(c),
         NEW r \in Needs(c) \ {"read_reboot_required_marker"}
  PROVE  results[r] # "none"
<1>1. CASE c = "docker"
  BY <1>1 DEF Accepted, Needs
<1>2. CASE c = "host_security"
  BY <1>2 DEF HealthKey, Good
<1>3. CASE c \notin {"docker", "host_security"}
  BY <1>3 DEF HealthKey, Good
<1>4. QED
  BY <1>1, <1>2, <1>3

\* A read is listed exactly when it left no result, once the reads are over.
LEMMA ListedWithoutResult ==
  ASSUME Inv, phase # "read", NEW r \in Reads
  PROVE  r \in continued <=> results[r] = "none"
<1>1. PICK i \in 1..21 : r = ReadOrder[i]
  BY Lengths DEF Reads
<1>2. QED
  BY <1>1 DEF Inv, ReadsInv, Done

LEMMA DiagnosedAfterReads ==
  ASSUME Inv, diagnosis # {} PROVE phase # "read"
  BY DEF Inv, DiagnosisInv

\* A component that a diagnosis calls healthy was read, all of it but the marker.
LEMMA HealthyReadInv == ASSUME Inv PROVE HealthyMeansRead
<1> SUFFICES ASSUME NEW d \in diagnosis, NEW c \in Components
             PROVE  /\ d.components[c] = "healthy" <=> \E f \in facts[c] : f.assessment = "healthy"
                    /\ d.components[c] = "healthy" =>
                         Needs(c) \cap d.continued_failures \subseteq {"read_reboot_required_marker"}
  BY DEF HealthyMeansRead
<1>1. d.components[c] = "healthy" <=> HealthKey(c)
  BY HealthyFacts DEF Status
<1>2. ASSUME HealthKey(c), NEW r \in Needs(c) \cap d.continued_failures,
             r # "read_reboot_required_marker"
      PROVE  FALSE
  <2>1. Accepted(c) /\ r \in continued
    BY HealthyFacts
  <2>2. results[r] # "none"
    BY <1>2, <2>1, HealthKeyReads
  <2>3. QED
    BY <1>2, <2>1, <2>2, ReadNames, ListedWithoutResult, DiagnosedAfterReads
<1>3. (\E f \in facts[c] : f.assessment = "healthy") <=> HealthKey(c)
  BY HealthyFacts
<1>4. QED
  BY <1>1, <1>2, <1>3

\* What a healthy component of a diagnosis rests on (_component_status).
THEOREM HealthyWasRead == Spec => []HealthyMeansRead
  BY HealthyReadInv, Invariance, PTL

\* A component all of whose reads were answered well is diagnosed healthy.
LEMMA OutagesInv == ASSUME Inv PROVE OutagesStayLocal
<1> SUFFICES ASSUME NEW d \in diagnosis, NEW c \in Components,
                    \A r \in Needs(c) : results[r] = "good"
             PROVE  d.components[c] = "healthy"
  BY DEF OutagesStayLocal
<1>1. HealthKey(c)
  <2>1. CASE c \in {"docker", "host_security"}
    BY <2>1 DEF Needs, HealthKey, Good
  <2>2. CASE c \notin {"docker", "host_security"}
    BY <2>2 DEF HealthKey, Good
  <2>3. QED
    BY <2>1, <2>2
<1>2. QED
  BY <1>1, HealthyFacts DEF Status

\* What fails around a component does not touch it (fail-forward steps of the workflow).
THEOREM OutagesAreLocal == Spec => []OutagesStayLocal
  BY OutagesInv, Invariance, PTL

\* The diagnosis lists exactly the reads without a result, and its coverage says so.
THEOREM EveryFailureListed == Spec => []FailuresListed
<1>1. Inv => FailuresListed
  <2> SUFFICES ASSUME Inv, NEW d \in diagnosis
               PROVE  /\ d.continued_failures = {r \in Reads : results[r] = "none"}
                      /\ d.coverage_status = "complete" <=> \A r \in Reads : results[r] # "none"
    BY DEF FailuresListed
  <2>1. continued = {r \in Reads : results[r] = "none"}
    BY ListedWithoutResult, DiagnosedAfterReads DEF Inv, ReadsInv
  <2>2. d = Diagnosed
    BY DEF Inv, DiagnosisInv
  <2>3. d.coverage_status = IF continued = {} THEN "complete" ELSE "partial"
    BY <2>2 DEF Diagnosed
  <2>4. d.continued_failures = continued
    BY <2>2 DEF Diagnosed
  <2>5. QED
    BY <2>1, <2>3, <2>4
<1>2. QED
  BY <1>1, Invariance, PTL

\* Every failed read leads to a reaction on a component it stands behind.
THEOREM EveryFailureActedOn == Spec => []FailuresAreActedOn
<1>1. Inv /\ HealthyMeansRead => FailuresAreActedOn
  <2> SUFFICES ASSUME Inv, HealthyMeansRead, phase = "completed",
                      NEW r \in continued \ {"read_reboot_required_marker"}
               PROVE  /\ \E p \in Proposed : /\ p.outcome \in {"run_intent", "escalate"}
                                             /\ r \in Needs(p.component)
                      /\ \A p \in Proposed : p.outcome # "no_op"
    BY DEF FailuresAreActedOn
  <2>1. diagnosis = {Diagnosed} /\ Proposed = Reactions(Diagnosed)
    BY DEF Inv, DiagnosisInv, Proposed
  <2>2. PICK c \in Components : r \in Needs(c)
    BY ReadNames DEF Inv, ReadsInv
  <2>3. Diagnosed.components[c] # "healthy"
    BY <2>1, <2>2, HealthyFacts DEF HealthyMeansRead
  <2>4. Diagnosed.observed_health = "degraded"
    BY <2>3 DEF Diagnosed
  <2> DEFINE p == [component |-> c, outcome |->
                     IF Diagnosed.components[c] = "unhealthy" THEN "run_intent" ELSE "escalate"]
  <2>5. p \in Proposed
    BY <2>1, <2>2, <2>3 DEF Reactions
  <2>6. p.outcome \in {"run_intent", "escalate"} /\ p.component = c
    OBVIOUS
  <2>7. \A q \in Proposed : q.outcome # "no_op"
    BY <2>1, <2>4 DEF Reactions
  <2>8. QED
    BY <2>2, <2>5, <2>6, <2>7
<1>2. QED
  <2>1. Spec => []HealthyMeansRead
    BY HealthyWasRead
  <2>2. QED
    BY <1>1, <2>1, Invariance, PTL

\* Types: the bounds of the positions and budgets, and the shape of a diagnosis.
THEOREM TypeCorrect == Spec => []TypeOK
<1>1. Inv => TypeOK
  <2> SUFFICES ASSUME Inv PROVE TypeOK
    OBVIOUS
  <2>1. Diagnosed \in Diagnoses
    <3>1. [c \in Components |-> ComponentStatus(c)]
             \in [Components -> {"healthy", "unhealthy", "unavailable"}]
      BY DEF ComponentStatus, Inv, PositionInv
    <3>2. ASSUME NEW s PROVE FindingKind(s) \in {"unhealthy", "component_unavailable"}
      BY DEF FindingKind
    <3>3. ASSUME NEW cs \in [Components -> {"healthy", "unhealthy", "unavailable"}]
          PROVE  Findings(cs) \in SUBSET [component: Components \cup {"monitoring_host"},
                   kind: {"observed_healthy", "unhealthy", "component_unavailable"}]
      BY <3>2 DEF Findings
    <3>4. continued \in SUBSET Reads /\ classless \in SUBSET Reads
      BY DEF Inv, ReadsInv
    <3>5. QED
      BY <3>1, <3>3, <3>4 DEF Diagnosed, Diagnoses
  <2>2. /\ diagnosis = {} \/ diagnosis = {Diagnosed}
        /\ observation \subseteq diagnosis
    BY DEF Inv, DiagnosisInv
  <2>3. diagnosis \subseteq Diagnoses /\ Cardinality(diagnosis) <= 1
    BY <2>1, <2>2, FS_EmptySet, FS_Singleton
  <2>4. \A c \in Components : \A f, g \in facts[c] : f = g
    <3> SUFFICES ASSUME NEW c \in Components, NEW f \in facts[c], NEW g \in facts[c]
                 PROVE  f = g
      OBVIOUS
    <3>1. facts[c] = Built(c)
      BY DEF Inv, FactsInv
    <3>2. QED
      BY <3>1, FactsOfResults
  <2>5. QED
    BY <2>2, <2>3, <2>4, Lengths DEF TypeOK, Inv, PositionInv, ReadsInv
<1>2. QED
  BY <1>1, Invariance, PTL

-----------------------------------------------------------------------------
(***************************************************************************)
(* What no run checks as such: why MissingObservationsEscalate fails, and  *)
(* the part of OperationEnds that does not rest on fairness.               *)
(***************************************************************************)
\* No diagnosis calls a component unavailable: when the aggregation runs, every
\* normalizer has stored an object, whatever it could read.  So the pack's rules for
\* unavailable components match nothing that this workflow produces, and a component of
\* which nothing was read is reported unhealthy (_component_status).
NeverUnavailable ==
  \A d \in diagnosis, c \in Components : d.components[c] \in {"healthy", "unhealthy"}

THEOREM NothingIsUnavailable == Spec => []NeverUnavailable
<1>1. Inv => NeverUnavailable
  BY HealthyFacts DEF NeverUnavailable, Status
<1>2. QED
  BY <1>1, Invariance, PTL

\* What the aggregation let through passes its contract for the second time, so the
\* projection never raises (build_monitoring_host_reaction_observation).
ProjectionAccepts == phase = "observe" => Projection(diagnosis) = diagnosis /\ diagnosis # {}

THEOREM DiagnosisAcceptedTwice == Spec => []ProjectionAccepts
<1>1. Inv => ProjectionAccepts
  BY DEF Inv, DiagnosisInv, ProjectionAccepts, Projection
<1>2. QED
  BY <1>1, Invariance, PTL

\* The steps of the workflow that are still to come when none of them fails it.
StepsLeft ==
  CASE phase = "read" -> 33 - at
    [] phase = "normalize" -> 12 - at
    [] phase = "aggregate" -> 3
    [] phase = "observe" -> 2
    [] phase = "receipt" -> 1
    [] OTHER -> 0

\* No step is repeated, skipped or waited for: each one leaves exactly one less to
\* come, or fails the operation, which is then over.  An operation takes at most 32.
EveryStepCounts ==
  [][/\ StepsLeft \in 1..32
     /\ IF phase' = "failed" THEN StepsLeft' = 0 ELSE StepsLeft' = StepsLeft - 1]_vars

THEOREM OperationsAreBounded == Spec => EveryStepCounts
<1> DEFINE Counts == /\ StepsLeft \in 1..32
                     /\ IF phase' = "failed" THEN StepsLeft' = 0
                        ELSE StepsLeft' = StepsLeft - 1
<1>1. ASSUME Inv, WorkflowStep PROVE Counts
  <2>0. PositionInv
    BY <1>1 DEF Inv
  <2>1. ASSUME NEW r, FailRead(r) \/ \E answer : AnswerRead(r, answer)
        PROVE  Counts
    <3>1. phase = "read" /\ Advance(ReadOrder, "normalize")
      BY <2>1 DEF FailRead, AnswerRead, Due
    <3>2. \/ phase' = "read" /\ at' = at + 1 /\ at < 21
          \/ phase' = "normalize" /\ at' = 1 /\ at = 21
      BY <2>0, <3>1, Lengths DEF Advance, PositionInv
    <3>3. QED
      BY <2>0, <3>1, <3>2 DEF StepsLeft, PositionInv
  <2>2. ASSUME NEW c, Normalize(c) PROVE Counts
    <3>1. phase = "normalize" /\ (Advance(NormalizerOrder, "aggregate") \/ phase' = "failed")
      BY <2>2 DEF Normalize, Due
    <3>2. at \in 1..8
      BY <2>0, <3>1 DEF PositionInv
    <3>3. CASE Advance(NormalizerOrder, "aggregate")
      BY <2>0, <3>1, <3>2, <3>3, AdvanceNormalize DEF StepsLeft
    <3>4. CASE phase' = "failed"
      BY <3>1, <3>2, <3>4 DEF StepsLeft
    <3>5. QED
      BY <3>1, <3>3, <3>4
  <2>3. ASSUME Aggregate \/ Observe \/ ProduceReceipt PROVE Counts
    BY <2>3 DEF Aggregate, Observe, ProduceReceipt, StepsLeft
  <2>4. QED
    BY <1>1, <2>1, <2>2, <2>3 DEF WorkflowStep
<1>2. Inv /\ [WorkflowStep]_vars => [Counts]_vars
  BY <1>1
<1>3. QED
  BY <1>2, Invariance, PTL DEF Spec, EveryStepCounts
=============================================================================
