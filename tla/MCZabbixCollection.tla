------------------------ MODULE MCZabbixCollection -------------------------
(***************************************************************************)
(* An infrastructure host that may be down by policy, another one, and a   *)
(* workstation; problems of each rule that differ for the properties.      *)
(***************************************************************************)
EXTENDS ZabbixCollection

CONSTANTS lab, core, desk

Problem(host, matches, severity) ==
  [host |-> host, matches |-> matches, severity |-> severity, suppressed |-> FALSE]

MCKinds == {Problem(lab, {"host_unavailable"}, 4),
            Problem(lab, {"backup"}, 3),
            Problem(core, {"host_unavailable", "core"}, 4),
            Problem(desk, {"disk"}, 2)}

Document(infraPath, infra, shadowPath, shadow) ==
  [path \in Paths |-> IF path = infraPath THEN infra
                      ELSE IF path = shadowPath THEN shadow ELSE Absent]

Standard == Document(InfraPaths[1], {lab, core}, ShadowPaths[1], {lab})
Legacy == Document(InfraPaths[3], {lab, core}, ShadowPaths[6], {lab})
Broken == Document(InfraPaths[1], {lab}, ShadowPaths[1], Malformed)

MCDocuments == {Standard, Legacy, Broken, Unparsable, Unreadable}

Given(infra, expectedOff, policy) ==
  [f \in Files |-> CASE f = "infra" -> infra
                     [] f = "expected_off" -> expectedOff
                     [] f = "policy" -> policy]

MCInitialFiles == {Given(Standard, NotGiven, NotGiven),
                   Given(Standard, Legacy, NotGiven),
                   Given(Standard, Broken, Legacy)}
=============================================================================
