------------------------ MODULE MCEscalationProposals -----------------------
(***************************************************************************)
(* Requests for EscalationProposals: two that are accepted, with and       *)
(* without an intent, and one for each thing that is wrong with a request. *)
(***************************************************************************)
EXTENDS EscalationProposals

Request(outcome, intent, refs) == [outcome |-> outcome, intent |-> intent, refs |-> refs]

MCRequests ==
  {Request("escalate", "none", {"relative"}),
   Request("retry_intent", "check_ntp_health", {"relative"}),
   Request("run_intent", "none", {"relative"}),
   Request("escalate", "check_ntp_health", {"relative"}),
   Request("run_intent", "configure_chrony_ntp_server", {"relative"}),
   Request("run_intent", "restart_zabbix_agent", {"relative"}),
   Request("escalate", "none", {"relative", "parent"}),
   Request("escalate", "none", {})}
=============================================================================
