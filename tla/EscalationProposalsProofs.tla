---------------------- MODULE EscalationProposalsProofs ----------------------
(***************************************************************************)
(* Proofs about EscalationProposals for every length of an error's class   *)
(* that the aggregation lets through, whatever is requested, and whatever  *)
(* limits and outages the diagnosis has.                                   *)
(***************************************************************************)
EXTENDS EscalationProposals, MonitoringDiagnosisProofs, FunctionTheorems

-----------------------------------------------------------------------------
(***************************************************************************)
(* A list that is cut after its first entries.                             *)
(***************************************************************************)
\* The items of a list take the places from 1 up, each its own.
LEMMA PlacesAreRanks ==
  ASSUME NEW items, IsFiniteSet(items), NEW position,
         \A x \in items : position[x] \in Nat,
         \A x, y \in items : position[x] = position[y] => x = y
  PROVE  [x \in items |-> Place(position, items, x)] \in Bijection(items, 1..Cardinality(items))
<1> DEFINE n == Cardinality(items)
           upto(x) == {y \in items : position[y] <= position[x]}
           place == [x \in items |-> Place(position, items, x)]
<1>0. n \in Nat
  BY FS_CardinalityType
<1>1. ASSUME NEW x \in items
      PROVE  /\ IsFiniteSet(upto(x))
             /\ Cardinality(upto(x)) \in 1..n
             /\ place[x] = Cardinality(upto(x))
  <2>1. upto(x) \in SUBSET items /\ x \in upto(x)
    OBVIOUS
  <2>2. IsFiniteSet(upto(x)) /\ Cardinality(upto(x)) <= n
    BY <2>1, FS_Subset
  <2>3. Cardinality(upto(x)) \in Nat /\ Cardinality(upto(x)) # 0
    BY <2>1, <2>2, FS_CardinalityType, FS_EmptySet
  <2>4. place[x] = Cardinality(upto(x))
    BY DEF Place
  <2> HIDE DEF upto, place
  <2>5. QED
    BY <1>0, <2>2, <2>3, <2>4
<1>2. ASSUME NEW x \in items, NEW y \in items, position[x] < position[y]
      PROVE  place[x] < place[y]
  <2>1. upto(x) \in SUBSET upto(y) /\ y \in upto(y) /\ y \notin upto(x)
    BY <1>2
  <2>2. /\ Cardinality(upto(x)) <= Cardinality(upto(y))
        /\ Cardinality(upto(x)) # Cardinality(upto(y))
    BY <1>1, <2>1, FS_Subset
  <2> HIDE DEF upto, place
  <2>3. QED
    BY <1>0, <1>1, <2>2
<1>3. \A x, y \in items : place[x] = place[y] => x = y
  <2> SUFFICES ASSUME NEW x \in items, NEW y \in items, place[x] = place[y], x # y
               PROVE  FALSE
    OBVIOUS
  <2>1. position[x] < position[y] \/ position[y] < position[x]
    OBVIOUS
  <2>2. ASSUME NEW z \in items PROVE place[z] \in Int
    <3>1. place[z] = Cardinality(upto(z)) /\ Cardinality(upto(z)) \in 1..n
      BY <1>1
    <3> HIDE DEF place, upto, n
    <3>2. QED
      BY <3>1
  <2>3. position[x] < position[y] => place[x] < place[y]
    BY <1>2
  <2>4. position[y] < position[x] => place[y] < place[x]
    BY <1>2
  <2> HIDE DEF place
  <2>5. QED
    BY <2>1, <2>2, <2>3, <2>4
<1>4. place \in [items -> 1..n]
  BY <1>1
<1>5. place \in Injection(items, 1..n)
  BY <1>3, <1>4, Fun_IsInj
<1>6. IsFiniteSet(1..n) /\ Cardinality(1..n) = n
  BY <1>0, FS_Interval
<1>7. place \in Surjection(items, 1..n)
  BY <1>5, <1>6, FS_Injection
<1>8. QED
  BY <1>5, <1>7, Fun_IsBij

\* A list of which something is cut off is cut to as many entries as allowed.
LEMMA CutListsAreFull ==
  ASSUME NEW items, IsFiniteSet(items), NEW position,
         \A x \in items : position[x] \in Nat,
         \A x, y \in items : position[x] = position[y] => x = y,
         NEW left \in items \ Summarized(position, items)
  PROVE  Cardinality(Summarized(position, items)) = 8
<1> DEFINE n == Cardinality(items)
           place == [x \in items |-> Place(position, items, x)]
           kept == Summarized(position, items)
           slot == [x \in kept |-> place[x]]
<1>1. place \in Bijection(items, 1..n)
  BY PlacesAreRanks
<1>2. n \in Nat
  BY FS_CardinalityType
<1>3. kept = {x \in items : place[x] <= 8}
  BY DEF Summarized, SummaryLimit
<1> HIDE DEF place, n
<1>4. /\ place \in [items -> 1..n]
      /\ \A x, y \in items : place[x] = place[y] => x = y
      /\ \A t \in 1..n : \E x \in items : place[x] = t
  <2>1. place \in Injection(items, 1..n) /\ place \in Surjection(items, 1..n)
    BY <1>1, Fun_BijectionProperties
  <2>2. QED
    BY <2>1 DEF Injection, IsInjective, Surjection
<1> HIDE DEF kept
<1>5. left \in items /\ ~(place[left] <= 8)
  BY <1>3 DEF kept
<1>6. 8 < n /\ 1..8 \subseteq 1..n
  BY <1>2, <1>4, <1>5
<1>7. slot \in [kept -> 1..8]
  BY <1>2, <1>3, <1>4
<1>8. \A x, y \in kept : slot[x] = slot[y] => x = y
  BY <1>3, <1>4
<1>9. \A t \in 1..8 : \E x \in kept : slot[x] = t
  BY <1>3, <1>4, <1>6
<1>10. slot \in Bijection(kept, 1..8)
  BY <1>7, <1>8, <1>9, Fun_IsBij
<1>11. ExistsBijection(kept, 1..8) /\ IsFiniteSet(kept)
  BY <1>3, <1>10, FS_Subset, Fun_ExistsBij
<1>12. Cardinality(1..8) = 8
  <2>1. 1 \in Int /\ 8 \in Int
    OBVIOUS
  <2>2. Cardinality(1..8) = IF 1 > 8 THEN 0 ELSE 8 - 1 + 1
    BY <2>1, FS_Interval, Zenon
  <2>3. QED
    BY <2>2
<1>13. QED
  BY <1>11, <1>12, FS_Bijection DEF kept

\* The places of findings and failures are positions, each read its own.
LEMMA ComponentsFinite == IsFiniteSet(Components) /\ Cardinality(Components) <= 8
<1>1. NormalizerOrder \in Surjection(1..8, Components)
  <2>1. NormalizerOrder = [i \in 1..8 |-> NormalizerOrder[i]]
    BY DEF NormalizerOrder
  <2>2. Components = {NormalizerOrder[i] : i \in 1..8}
    BY Lengths DEF Components
  <2>3. QED
    BY <2>1, <2>2 DEF Surjection
<1>2. QED
  BY <1>1, FS_NatSurjection, FS_SurjCardinalityBound DEF ExistsSurjection

LEMMA FailurePositions ==
  /\ \A r \in Reads : FailurePosition[r] \in Nat
  /\ \A r, x \in Reads : FailurePosition[r] = FailurePosition[x] => r = x
<1>1. DOMAIN FailureOrder = 1..21
  BY DEF FailureOrder
<1>2. \A r \in Reads : \E i \in 1..21 : FailureOrder[i] = r
  BY DEF Reads, ReadOrder, FailureOrder
<1>3. \A r \in Reads : FailurePosition[r] \in 1..21 /\ FailureOrder[FailurePosition[r]] = r
  BY <1>1, <1>2 DEF FailurePosition
<1>4. QED
  BY <1>3

-----------------------------------------------------------------------------
(***************************************************************************)
(* What a completed diagnosis is, and what proposals can be built from it. *)
(***************************************************************************)
\* A completed operation's observation is the diagnosis, within its contract.
LEMMA ObservedDiagnosis ==
  ASSUME Inv, phase = "completed", NEW d \in observation
  PROVE  /\ d = Diagnosed /\ d \in diagnosis /\ WithinContract(d)
         /\ d.continued_failures = continued
         /\ \A c \in Components : d.components[c] = Status(c)
<1>1. observation = diagnosis /\ diagnosis = {Diagnosed}
  BY DEF Inv, DiagnosisInv
<1>2. d \in diagnosis /\ d = Diagnosed /\ WithinContract(d)
  BY <1>1 DEF Inv, DiagnosisInv
<1>3. \A c \in Components : d.components[c] = Status(c) /\ d.continued_failures = continued
  BY <1>2, HealthyFacts
<1>4. d.continued_failures = continued
  BY <1>2 DEF Diagnosed
<1>5. QED
  BY <1>2, <1>3, <1>4

\* Its findings are about the components that are not healthy, or about the host.
LEMMA FindingsOfTrouble ==
  ASSUME Inv, phase = "completed", NEW d \in observation
  PROVE  LET troubled == {c \in Components : d.components[c] # "healthy"}
             named == {f.component : f \in d.findings}
         IN  IF troubled = {}
             THEN /\ named = {"monitoring_host"}
                  /\ [component |-> "monitoring_host", kind |-> "observed_healthy"] \in d.findings
             ELSE named = troubled
<1> DEFINE troubled == {c \in Components : d.components[c] # "healthy"}
           named == {f.component : f \in d.findings}
<1>1. d.findings = Findings(d.components)
  <2>1. d = Diagnosed
    BY ObservedDiagnosis
  <2>2. d.components = [c \in Components |-> ComponentStatus(c)]
    BY <2>1 DEF Diagnosed
  <2>3. d.findings = Findings([c \in Components |-> ComponentStatus(c)])
    BY <2>1 DEF Diagnosed
  <2>4. QED
    BY <2>2, <2>3
<1>2. CASE troubled = {}
  BY <1>1, <1>2 DEF Findings
<1>3. CASE troubled # {}
  <2>1. d.findings = {[component |-> c, kind |-> FindingKind(d.components[c])] : c \in troubled}
    BY <1>1, <1>3 DEF Findings
  <2>2. \A f \in d.findings : f.component \in troubled
    BY <2>1
  <2>3. ASSUME NEW c \in troubled PROVE c \in named
    <3> DEFINE f == [component |-> c, kind |-> FindingKind(d.components[c])]
    <3>1. f \in d.findings /\ f.component = c
      BY <2>1
    <3> HIDE DEF f
    <3>2. QED
      BY <3>1
  <2>4. named = troubled
    BY <2>2, <2>3
  <2>5. QED
    BY <1>3, <2>4
<1>4. QED
  BY <1>2, <1>3

\* Every rule of the pack leads to a request that is not refused.
LEMMA RequestsOfReactions ==
  ASSUME NEW d, NEW reaction \in Reactions(d)
  PROVE  RequestAccepted(RequestFor(reaction))
<1>1. \A c \in Components : IntentOf(c) \in ReadingIntents
  BY ComponentNames DEF IntentOf, ReadingIntents
<1>2. "none" \notin ReadingIntents
  BY DEF ReadingIntents
<1>3. \A intent \in ReadingIntents : ReadOnlyIntent(intent)
  BY DEF ReadOnlyIntent, ProfileIntents, Modes, ReadOnlyModes
<1>4. \/ reaction.outcome = "run_intent" /\ reaction.component \in Components
      \/ reaction.outcome \in {"escalate", "no_op"}
  BY DEF Reactions
<1>5. CASE reaction.outcome = "run_intent" /\ reaction.component \in Components
  <2>1. /\ RequestFor(reaction).outcome = "run_intent"
        /\ RequestFor(reaction).intent \in ReadingIntents
        /\ RequestFor(reaction).refs = {"relative"}
    BY <1>1, <1>5 DEF RequestFor
  <2>2. QED
    BY <1>2, <1>3, <2>1 DEF RequestAccepted, NormalizedIntent, IntentOutcomes, SafeReference
<1>6. CASE reaction.outcome \in {"escalate", "no_op"}
  <2>1. /\ RequestFor(reaction).outcome \in {"escalate", "no_op"}
        /\ RequestFor(reaction).intent = "none"
        /\ RequestFor(reaction).refs = {"relative"}
    BY <1>6 DEF RequestFor
  <2>2. QED
    BY <2>1 DEF RequestAccepted, NormalizedIntent, IntentOutcomes, SafeReference
<1>7. QED
  BY <1>4, <1>5, <1>6

-----------------------------------------------------------------------------
(***************************************************************************)
(* The length of an explanation.                                           *)
(***************************************************************************)
\* The longest text of each finding, by its slot, whatever its kind.
Longest == << 82, 56, 62, 76, 64, 68, 77, 70 >>

LEMMA FindingLengths ==
  ASSUME NEW i \in 1..8, NEW status
  PROVE  FindingLength(FindingOrder[i], FindingKind(status)) \in 1..Longest[i]
<1>1. FindingKind(status) \in {"unhealthy", "component_unavailable"}
  BY DEF FindingKind
<1>2. ASSUME NEW kind \in {"unhealthy", "component_unavailable"}
      PROVE  /\ FindingLength("host_inventory", kind) \in 1..82
             /\ FindingLength("ntp", kind) \in 1..56
             /\ FindingLength("zabbix", kind) \in 1..62
             /\ FindingLength("docker", kind) \in 1..76
             /\ FindingLength("adguard", kind) \in 1..64
             /\ FindingLength("portainer", kind) \in 1..68
             /\ FindingLength("host_security", kind) \in 1..77
             /\ FindingLength("ntp_server", kind) \in 1..70
  BY DEF FindingLength
<1>3. i = 1 \/ i = 2 \/ i = 3 \/ i = 4 \/ i = 5 \/ i = 6 \/ i = 7 \/ i = 8
  OBVIOUS
<1>4. QED
  BY <1>1, <1>2, <1>3 DEF FindingOrder, Longest

LEMMA FailureLengths ==
  ASSUME NEW r \in ServiceReads
  PROVE  FailureLength(r) \in 1..28 + ErrorClassLength
<1>1. r \in {"read_zabbix_api_version", "read_adguard_dns_resolution",
            "read_adguard_login_status", "read_portainer_status"}
  BY DEF ServiceReads, ConnectorOf
<1>2. ErrorClassLength \in 1..64
  BY ErrorClassAssumption
<1>3. QED
  BY <1>1, <1>2 DEF FailureLength

\* Eight entries joined with commas, in numbers.
LEMMA EightEntries ==
  ASSUME NEW a \in Nat, NEW b \in Nat, NEW c \in Nat, NEW d \in Nat,
         NEW e \in Nat, NEW f \in Nat, NEW g \in Nat, NEW h \in Nat
  PROVE  LET slot(x) == IF x > 0 THEN x + 1 ELSE 0
             total == slot(a) + slot(b) + slot(c) + slot(d) + slot(e) + slot(f) + slot(g) + slot(h)
             joined == IF total = 0 THEN 4 ELSE total - 1
         IN  /\ joined \in Nat
             /\ joined <= a + b + c + d + e + f + g + h + 7
             /\ a = 0 /\ b = 0 /\ c = 0 /\ d = 0 /\ e = 0 /\ f = 0 /\ g = 0 /\ h = 0 => joined = 4
             /\ a = 0 /\ b = 0 /\ d = 0 /\ g = 0 /\ h = 0 => joined <= c + e + f + 4
             /\ e = 0 /\ f = 0 /\ g = 0 /\ h = 0 => joined <= a + b + c + d + 4
  OBVIOUS

\* The longest findings together, with the commas.
LEMMA EightBounds ==
  ASSUME NEW a \in Nat, NEW b \in Nat, NEW c \in Nat, NEW d \in Nat,
         NEW e \in Nat, NEW f \in Nat, NEW g \in Nat, NEW h \in Nat,
         a <= 82, b <= 56, c <= 62, d <= 76, e <= 64, f <= 68, g <= 77, h <= 70,
         NEW joined \in Nat, joined <= a + b + c + d + e + f + g + h + 7
  PROVE  joined \in 0..562
  OBVIOUS

\* A joined text is as long as its entries with the commas, or "none".
LEMMA JoinedLengths ==
  ASSUME NEW length \in [1..8 -> Nat]
  PROVE  /\ Joined(length) \in Nat
         /\ Joined(length) <= length[1] + length[2] + length[3] + length[4]
                             + length[5] + length[6] + length[7] + length[8] + 7
         /\ (\A i \in 1..8 : length[i] = 0) => Joined(length) = 4
         /\ (\A i \in {1, 2, 4, 7, 8} : length[i] = 0)
              => Joined(length) <= length[3] + length[5] + length[6] + 4
         /\ (\A i \in 5..8 : length[i] = 0)
              => Joined(length) <= length[1] + length[2] + length[3] + length[4] + 4
<1>1. /\ length[1] \in Nat /\ length[2] \in Nat /\ length[3] \in Nat /\ length[4] \in Nat
      /\ length[5] \in Nat /\ length[6] \in Nat /\ length[7] \in Nat /\ length[8] \in Nat
  OBVIOUS
<1>2. PICK a \in Nat, b \in Nat, c \in Nat, d \in Nat,
           e \in Nat, f \in Nat, g \in Nat, h \in Nat :
        /\ length[1] = a /\ length[2] = b /\ length[3] = c /\ length[4] = d
        /\ length[5] = e /\ length[6] = f /\ length[7] = g /\ length[8] = h
  BY <1>1
<1> DEFINE slot(x) == IF x > 0 THEN x + 1 ELSE 0
           total == slot(a) + slot(b) + slot(c) + slot(d) + slot(e) + slot(f) + slot(g) + slot(h)
           joined == IF total = 0 THEN 4 ELSE total - 1
<1>3. Joined(length) = joined
  BY <1>2 DEF Joined
<1>4. /\ joined \in Nat
      /\ joined <= a + b + c + d + e + f + g + h + 7
      /\ a = 0 /\ b = 0 /\ c = 0 /\ d = 0 /\ e = 0 /\ f = 0 /\ g = 0 /\ h = 0 => joined = 4
      /\ a = 0 /\ b = 0 /\ d = 0 /\ g = 0 /\ h = 0 => joined <= c + e + f + 4
      /\ e = 0 /\ f = 0 /\ g = 0 /\ h = 0 => joined <= a + b + c + d + 4
  BY EightEntries
<1> HIDE DEF joined
<1>5. QED
  BY <1>2, <1>3, <1>4

\* The findings of every diagnosis, and of one with only the services in trouble.
LEMMA FindingsFit ==
  ASSUME Inv, phase = "completed", NEW d \in observation
  PROVE  /\ FindingsLength(d) \in 0..562
         /\ (\A c \in Components \ {"zabbix", "adguard", "portainer"} : d.components[c] = "healthy")
              => FindingsLength(d) <= 198
<1> DEFINE troubled == {c \in Components : d.components[c] # "healthy"}
           length == [i \in 1..8 |->
             IF FindingOrder[i] \in NamedComponents(d)
             THEN FindingLength(FindingOrder[i], FindingKind(d.components[FindingOrder[i]]))
             ELSE 0]
<1>1. FindingsLength(d) = 80 \/ FindingsLength(d) = Joined(length)
  BY DEF FindingsLength, FindingLength
<1>2. ASSUME NEW i \in 1..8 PROVE length[i] \in 0..Longest[i] /\ Longest[i] \in Nat
  BY FindingLengths DEF Longest
<1>3. length \in [1..8 -> Nat]
  BY <1>2
<1>4. ASSUME \A c \in Components \ {"zabbix", "adguard", "portainer"} : d.components[c] = "healthy",
             NEW i \in {1, 2, 4, 7, 8}
      PROVE  length[i] = 0
  <2>1. FindingOrder[i] \in Components \ {"zabbix", "adguard", "portainer"}
    BY ComponentNames DEF FindingOrder
  <2>2. NamedComponents(d) \subseteq {f.component : f \in d.findings}
    BY DEF NamedComponents, Summarized
  <2>3. FindingOrder[i] \notin troubled /\ FindingOrder[i] # "monitoring_host"
    BY <1>4, <2>1, ComponentNames
  <2>4. FindingOrder[i] \notin {f.component : f \in d.findings}
    BY <2>3, FindingsOfTrouble
  <2>5. QED
    BY <2>2, <2>4
<1> HIDE DEF length
<1>5. /\ length[1] <= 82 /\ length[2] <= 56 /\ length[3] <= 62 /\ length[4] <= 76
      /\ length[5] <= 64 /\ length[6] <= 68 /\ length[7] <= 77 /\ length[8] <= 70
  BY <1>2 DEF Longest
<1>6. /\ length[1] \in Nat /\ length[2] \in Nat /\ length[3] \in Nat /\ length[4] \in Nat
      /\ length[5] \in Nat /\ length[6] \in Nat /\ length[7] \in Nat /\ length[8] \in Nat
  BY <1>3
<1>7. Joined(length) \in 0..562
  <2>1. /\ Joined(length) \in Nat
        /\ Joined(length) <= length[1] + length[2] + length[3] + length[4]
                             + length[5] + length[6] + length[7] + length[8] + 7
    BY <1>3, JoinedLengths
  <2>2. PICK a \in Nat, b \in Nat, c \in Nat, x \in Nat,
             e \in Nat, f \in Nat, g \in Nat, h \in Nat, joined \in Nat :
          /\ length[1] = a /\ length[2] = b /\ length[3] = c /\ length[4] = x
          /\ length[5] = e /\ length[6] = f /\ length[7] = g /\ length[8] = h
          /\ Joined(length) = joined
    BY <1>6, <2>1
  <2>3. joined <= a + b + c + x + e + f + g + h + 7
    BY <2>1, <2>2
  <2>4. joined \in 0..562
    BY <1>5, <2>2, <2>3, EightBounds
  <2>5. QED
    BY <2>2, <2>4
<1>8. ASSUME \A c \in Components \ {"zabbix", "adguard", "portainer"} : d.components[c] = "healthy"
      PROVE  Joined(length) <= 198
  <2>1. Joined(length) <= length[3] + length[5] + length[6] + 4
    BY <1>3, <1>4, <1>8, JoinedLengths
  <2>2. Joined(length) \in Nat
    BY <1>7
  <2>3. QED
    BY <1>5, <1>6, <2>1, <2>2
<1>9. QED
  BY <1>1, <1>7, <1>8

\* The failures of a diagnosis without any, and of one with the services' at most.
LEMMA FailuresFit ==
  ASSUME NEW d, d.continued_failures \subseteq ServiceReads
  PROVE  /\ FailuresLength(d) \in Nat
         /\ FailuresLength(d) <= 116 + 4 * ErrorClassLength
         /\ d.continued_failures = {} => FailuresLength(d) = 4
<1> DEFINE failed == d.continued_failures
           entry(i) == {r \in NamedFailures(d) : Place(FailurePosition, failed, r) = i}
           length == [i \in 1..8 |->
             IF entry(i) = {} THEN 0 ELSE FailureLength(CHOOSE r \in entry(i) : TRUE)]
<1>1. FailuresLength(d) = Joined(length)
  BY DEF FailuresLength
<1>2. \A i \in 1..8 : entry(i) \subseteq failed
  BY DEF NamedFailures, Summarized
<1>3. ErrorClassLength \in 1..64
  BY ErrorClassAssumption
<1>4. ASSUME NEW i \in 1..8 PROVE length[i] \in 0..28 + ErrorClassLength
  <2>1. CASE entry(i) = {}
    BY <1>3, <2>1
  <2>2. CASE entry(i) # {}
    <3>1. (CHOOSE r \in entry(i) : TRUE) \in ServiceReads
      BY <1>2, <2>2
    <3>2. FailureLength(CHOOSE r \in entry(i) : TRUE) \in 1..28 + ErrorClassLength
      BY <3>1, FailureLengths
    <3>3. QED
      BY <1>3, <2>2, <3>2
  <2>3. QED
    BY <2>1, <2>2
<1>5. IsFiniteSet(failed) /\ Cardinality(failed) <= 4
  <2>1. ServiceReads \subseteq {"read_zabbix_api_version", "read_adguard_dns_resolution",
                               "read_adguard_login_status", "read_portainer_status"}
    BY DEF ServiceReads, ConnectorOf
  <2> DEFINE four == << "read_zabbix_api_version", "read_adguard_dns_resolution",
                        "read_adguard_login_status", "read_portainer_status" >>
             names == {"read_zabbix_api_version", "read_adguard_dns_resolution",
                       "read_adguard_login_status", "read_portainer_status"}
  <2>2. four \in Surjection(1..4, names)
    BY DEF Surjection
  <2>3. IsFiniteSet(names) /\ Cardinality(names) <= 4
    BY <2>2, FS_NatSurjection, FS_SurjCardinalityBound DEF ExistsSurjection
  <2>4. failed \in SUBSET names
    BY <2>1
  <2>5. IsFiniteSet(failed) /\ Cardinality(failed) <= Cardinality(names)
    BY <2>3, <2>4, FS_Subset
  <2>6. Cardinality(failed) \in Nat /\ Cardinality(names) \in Nat
    BY <2>3, <2>5, FS_CardinalityType
  <2>7. QED
    BY <2>3, <2>5, <2>6
<1>6. ASSUME NEW i \in 5..8 PROVE length[i] = 0
  <2>1. ASSUME NEW r \in entry(i) PROVE FALSE
    <3>1. Place(FailurePosition, failed, r) = i
      OBVIOUS
    <3>2. {x \in failed : FailurePosition[x] <= FailurePosition[r]} \in SUBSET failed
      OBVIOUS
    <3>3. Place(FailurePosition, failed, r) <= Cardinality(failed)
      BY <1>5, <3>2, FS_Subset DEF Place
    <3>4. Cardinality(failed) \in Nat
      BY <1>5, FS_CardinalityType
    <3>5. QED
      BY <1>5, <3>1, <3>3, <3>4
  <2>2. entry(i) = {}
    BY <2>1
  <2>3. QED
    BY <2>2
<1>7. failed = {} => \A i \in 1..8 : length[i] = 0
  BY <1>2
<1> HIDE DEF length
<1>8. length \in [1..8 -> Nat]
  <2>1. \A i \in 1..8 : length[i] \in Nat
    BY <1>3, <1>4
  <2>2. QED
    BY <2>1 DEF length
<1>9. Joined(length) <= 116 + 4 * ErrorClassLength
  <2>1. Joined(length) <= length[1] + length[2] + length[3] + length[4] + 4
    BY <1>6, <1>8, JoinedLengths
  <2>2. /\ length[1] \in 0..28 + ErrorClassLength /\ length[2] \in 0..28 + ErrorClassLength
        /\ length[3] \in 0..28 + ErrorClassLength /\ length[4] \in 0..28 + ErrorClassLength
    BY <1>4
  <2>3. Joined(length) \in Nat
    BY <1>8, JoinedLengths
  <2>4. QED
    BY <1>3, <2>1, <2>2, <2>3
<1>10. QED
  BY <1>1, <1>7, <1>8, <1>9, JoinedLengths

-----------------------------------------------------------------------------
(***************************************************************************)
(* The theorems.                                                           *)
(***************************************************************************)
\* With everything read, and with all but the services' reads good, the explanation
\* stays within its bound.
LEMMA ExplanationsFit ==
  ASSUME Inv, phase = "completed", NEW d \in observation,
         continued = {} \/ \A r \in Reads \ ServiceReads : results[r] = "good"
  PROVE  ExplanationLength(d) <= ExplanationLimit
<1>1. /\ d = Diagnosed /\ d \in diagnosis /\ d.continued_failures = continued
      /\ \A c \in Components : d.components[c] = Status(c)
  BY ObservedDiagnosis
<1>2. FindingsLength(d) \in 0..562
  BY FindingsFit
<1> DEFINE health == IF d.observed_health = "healthy" THEN 7 ELSE 8
           coverage == IF d.coverage_status = "complete" THEN 8 ELSE 7
<1>3. health \in 7..8 /\ coverage \in 7..8
  OBVIOUS
<1>4. ExplanationLength(d) = 179 + health + coverage + FindingsLength(d) + FailuresLength(d)
  BY DEF ExplanationLength
<1> HIDE DEF health, coverage
<1>5. CASE continued = {}
  <2>1. FailuresLength(d) = 4
    BY <1>1, <1>5, FailuresFit
  <2>2. QED
    BY <1>2, <1>3, <1>4, <2>1 DEF ExplanationLimit
<1>6. CASE \A r \in Reads \ ServiceReads : results[r] = "good"
  <2>1. continued \subseteq ServiceReads
    <3>1. continued \subseteq Reads
      BY DEF Inv, ReadsInv
    <3>2. phase # "read"
      OBVIOUS
    <3>3. \A r \in Reads : r \in continued => results[r] = "none"
      BY <3>2, ListedWithoutResult
    <3>4. QED
      BY <1>6, <3>1, <3>3
  <2>2. FailuresLength(d) \in Nat /\ FailuresLength(d) <= 116 + 4 * ErrorClassLength
    BY <1>1, <2>1, FailuresFit
  <2>3. ASSUME NEW c \in Components \ {"zabbix", "adguard", "portainer"}
        PROVE  d.components[c] = "healthy"
    <3>1. Needs(c) \cap ServiceReads = {}
      BY ComponentNames DEF Needs, ServiceReads, ConnectorOf, InventoryReads
    <3>2. Needs(c) \subseteq Reads
      BY ReadNames
    <3>3. \A r \in Needs(c) : results[r] = "good"
      BY <1>6, <3>1, <3>2
    <3>4. OutagesStayLocal
      BY OutagesInv
    <3>5. QED
      BY <1>1, <3>3, <3>4 DEF OutagesStayLocal
  <2>4. FindingsLength(d) <= 198
    BY <2>3, FindingsFit
  <2>5. ErrorClassLength \in 1..64
    BY ErrorClassAssumption
  <2>6. QED
    BY <1>2, <1>3, <1>4, <2>2, <2>4, <2>5 DEF ExplanationLimit
<1>7. QED
  BY <1>5, <1>6

\* Whatever the pack reacts with can be proposed, as far as the bound of the
\* explanation allows (_validate_readonly_intent, _validate_explanation).
THEOREM ReactionsProposable == Spec => []ReactionsCanBeProposed
<1>1. Inv => ReactionsCanBeProposed
  <2> SUFFICES ASSUME Inv, phase = "completed", NEW d \in observation,
                      NEW reaction \in Reactions(d)
               PROVE  /\ RequestAccepted(RequestFor(reaction))
                      /\ \/ continued = {}
                         \/ \A r \in Reads \ ServiceReads : results[r] = "good"
                         => Proposal(d, RequestFor(reaction)) # {}
    BY DEF ReactionsCanBeProposed
  <2>1. RequestAccepted(RequestFor(reaction))
    BY RequestsOfReactions
  <2>2. WithinContract(d)
    BY ObservedDiagnosis
  <2>3. ASSUME continued = {} \/ \A r \in Reads \ ServiceReads : results[r] = "good"
        PROVE  ExplanationLength(d) <= ExplanationLimit
    BY <2>3, ExplanationsFit
  <2>4. QED
    BY <2>1, <2>2, <2>3 DEF Proposal
<1>2. QED
  BY <1>1, Invariance, PTL

\* A proposal names every component in trouble, and leaves a failed read out of its
\* list only if that list is full (_summarize_findings, _summarize_failures).
THEOREM TroubleNamed == Spec => []ProposalsNameTheTrouble
<1>1. ASSUME Inv PROVE ProposalsNameTheTrouble
  <2> SUFFICES ASSUME phase = "completed", NEW d \in observation, NEW request \in Requests,
                      NEW proposal \in Proposal(d, request)
               PROVE  /\ \A c \in Components : d.components[c] # "healthy" => c \in proposal.findings
                      /\ \A r \in continued \ {"read_reboot_required_marker"} :
                           \E c \in proposal.findings \cap Components : r \in Needs(c)
                      /\ \A r \in continued \ proposal.continued_failures :
                           Cardinality(proposal.continued_failures) = 8
    BY DEF ProposalsNameTheTrouble
  <2>1. /\ proposal.findings = NamedComponents(d)
        /\ proposal.continued_failures = NamedFailures(d)
    BY DEF Proposal
  <2>2. d \in diagnosis /\ d.continued_failures = continued
    BY <1>1, ObservedDiagnosis
  <2>3. \A c \in Components : d.components[c] # "healthy" => c \in NamedComponents(d)
    <3> DEFINE troubled == {c \in Components : d.components[c] # "healthy"}
               named == {f.component : f \in d.findings}
    <3> SUFFICES ASSUME NEW c \in troubled PROVE c \in NamedComponents(d)
      OBVIOUS
    <3>1. named = troubled
      BY <1>1, FindingsOfTrouble
    <3>2. {x \in named : FindingPosition[x] <= FindingPosition[c]} \in SUBSET Components
      BY <3>1
    <3>3. Place(FindingPosition, named, c) <= Cardinality(Components)
      BY <3>2, ComponentsFinite, FS_Subset DEF Place
    <3>4. Place(FindingPosition, named, c) \in Nat /\ Cardinality(Components) \in Nat
      BY <3>2, ComponentsFinite, FS_Subset, FS_CardinalityType DEF Place
    <3>5. Place(FindingPosition, named, c) <= SummaryLimit
      BY <3>3, <3>4, ComponentsFinite DEF SummaryLimit
    <3>6. QED
      BY <3>1, <3>5 DEF NamedComponents, Summarized
  <2>4. ASSUME NEW r \in continued \ {"read_reboot_required_marker"}
        PROVE  \E c \in NamedComponents(d) \cap Components : r \in Needs(c)
    <3>1. r \in Reads
      BY <1>1 DEF Inv, ReadsInv
    <3>2. PICK c \in Components : r \in Needs(c)
      BY <3>1, ReadNames
    <3>3. d.components[c] # "healthy"
      BY <1>1, <2>2, <3>2, HealthyReadInv DEF HealthyMeansRead
    <3>4. QED
      BY <2>3, <3>2, <3>3
  <2>5. ASSUME NEW r \in continued \ NamedFailures(d)
        PROVE  Cardinality(NamedFailures(d)) = 8
    <3>1. continued \subseteq Reads /\ IsFiniteSet(continued)
      BY <1>1, ReadsFinite, FS_Subset DEF Inv, ReadsInv
    <3>2. r \in continued \ Summarized(FailurePosition, continued)
      BY <2>2 DEF NamedFailures
    <3>3. Cardinality(Summarized(FailurePosition, continued)) = 8
      BY <3>1, <3>2, FailurePositions, CutListsAreFull
    <3>4. QED
      BY <2>2, <3>3 DEF NamedFailures
  <2>6. QED
    BY <2>1, <2>3, <2>4, <2>5
<1>2. QED
  BY <1>1, Invariance, PTL
=============================================================================
