--------------------------- MODULE ChronyMutation ---------------------------
(***************************************************************************)
(* The workflow configure_chrony_ntp_server over the operator's wrapper:   *)
(* read, apply, read, receipt, and the recovery child that rolls a failed  *)
(* operation back.  All operations here work on one host, whose one        *)
(* managed file serves one subnet or none.                                 *)
(*                                                                         *)
(* What the connector knows is what the wrapper process answers.  Once the *)
(* process is started its change may take effect before the answer, after  *)
(* a timeout, or not at all.  The workflow retries nothing.                *)
(*                                                                         *)
(* The runtime's target lock is not in this repository and is not assumed: *)
(* operations may overlap.                                                 *)
(***************************************************************************)
EXTENDS Naturals, Sequences

CONSTANTS
  Operations,
  Subnets,     \* normalized allowed_subnet values
  SubnetOf,    \* Operations -> the subnet its environment configures
  NoConfig,    \* the host has no managed file
  NoReport     \* a payload that does not name the state

ASSUME MutationAssumption ==
  /\ SubnetOf \in [Operations -> Subnets]
  /\ NoConfig \notin Subnets
  /\ NoReport \notin Subnets \cup {NoConfig}

VARIABLES
  host,      \* the subnet served by the managed file, or NoConfig
  op,        \* Operations -> where its workflow is and what it was told
  inFlight,  \* the changes that started wrappers may still make
  landed,    \* history: the changes made to the host, in order
  admitted   \* history: the mutating calls that mode and GovEngine allowed

vars == <<host, op, inFlight, landed, admitted>>

HostStates == Subnets \cup {NoConfig}
Effects == Operations \X {"apply", "rollback"}

\* The steps of the workflow and of its rollback, and how an operation ends.
Steps == {"pre", "apply", "post", "rollback"}
Phases == Steps \cup {"idle", "receipt", "validated", "failed", "recovered", "unrecovered"}
Mutating == {"apply", "rollback"}

Errors == {"none", "unsupported", "validation_failed", "policy_denied", "timeout",
           "output_limit_exceeded", "transient", "exception"}

Progress == [pc: Phases, running: BOOLEAN, readOnly: BOOLEAN,
             after: HostStates \cup {NoReport}, post: HostStates \cup {NoReport},
             error: Errors, failedAt: Steps \cup {"none", "validation"}]

Fresh(readOnly) == [pc |-> "idle", running |-> FALSE, readOnly |-> readOnly,
                    after |-> NoReport, post |-> NoReport,
                    error |-> "none", failedAt |-> "none"]

\* Mutant of Result: rollback calls the wrapper with the word apply.
ResultOfApply(e) == SubnetOf[e[1]]

\* What the wrapper's change leaves on the host: the one managed file with the
\* operation's subnet, or no file, whatever was there before.
Result(e) == IF e[2] = "apply" THEN SubnetOf[e[1]] ELSE NoConfig

\* What keeps invoke and _wrapper from starting a process, in the order in which it
\* is met; mode and mutating_allowed come after the subnet.
Defects == {"none", "connector", "subnet", "wrapper", "timeout_seconds", "limit", "process"}

\* How the step fails at the first defect, "none" if the process starts: the
\* connector's name, the subnet, mode and mutating_allowed of a mutating action,
\* wrapper_command, timeout_seconds, the output limit of configuration and policy,
\* and the start itself.  A timeout_seconds that is no number (ValueError) and a
\* command that cannot be run (OSError) leave invoke as exceptions; the engine is
\* taken to end the step as it does for any other failure.
Refusal(step, defect, readOnly, mutatingAllowed) ==
  CASE defect = "connector" -> "unsupported"
    [] defect = "subnet" -> "validation_failed"
    [] /\ defect \notin {"connector", "subnet"}
       /\ step \in Mutating /\ (readOnly \/ ~mutatingAllowed) -> "policy_denied"
    [] OTHER -> CASE defect = "none" -> "none"
                  [] defect \in {"timeout_seconds", "process"} -> "exception"
                  [] OTHER -> "validation_failed"

\* How a wrapper process ended within its time.
Exits == [overflow: BOOLEAN, zero: BOOLEAN, object: BOOLEAN]

\* Mutant of ErrorClass: the answer is parsed whatever the return code.
ErrorClassOfAnswer(exit) ==
  IF exit.overflow THEN "output_limit_exceeded"
  ELSE IF exit.object THEN "none" ELSE "validation_failed"

\* _wrapper's order: the output limit, the return code, then the answer, which
\* must be a JSON object.
ErrorClass(exit) ==
  IF exit.overflow THEN "output_limit_exceeded"
  ELSE IF ~exit.zero THEN "transient"
  ELSE IF exit.object THEN "none" ELSE "validation_failed"

-----------------------------------------------------------------------------
Init == /\ host \in HostStates
        /\ op = [o \in Operations |-> Fresh(FALSE)]
        /\ inFlight = {}
        /\ landed = << >>
        /\ admitted = {}

Set(o, progress) == op' = [op EXCEPT ![o] = progress]

\* An approved operation starts with the pre-read, in some mode.
Start(o, readOnly) ==
  /\ op[o].pc = "idle"
  /\ Set(o, [Fresh(readOnly) EXCEPT !.pc = "pre"])
  /\ UNCHANGED <<host, inFlight, landed, admitted>>

\* Mutant of Failed: a transient failure is retried.
FailedOrRetried(p, error) ==
  IF p.pc = "rollback" THEN [p EXCEPT !.pc = "unrecovered", !.running = FALSE]
  ELSE IF error = "transient" THEN [p EXCEPT !.running = FALSE]
  ELSE [p EXCEPT !.pc = "failed", !.running = FALSE, !.error = error, !.failedAt = p.pc]

\* Mutant of Failed: the runtime takes the abandoned process for a running one.
FailedStillRunning(p, error) ==
  IF p.pc = "rollback" THEN [p EXCEPT !.pc = "unrecovered"]
  ELSE [p EXCEPT !.pc = "failed", !.error = error, !.failedAt = p.pc]

\* A failed step ends the operation, or its recovery child, at once.
Failed(p, error) ==
  IF p.pc = "rollback" THEN [p EXCEPT !.pc = "unrecovered", !.running = FALSE]
  ELSE [p EXCEPT !.pc = "failed", !.running = FALSE, !.error = error, !.failedAt = p.pc]

\* A successful step hands over to the next one.
Succeeded(p, report) ==
  CASE p.pc = "pre"      -> [p EXCEPT !.pc = "apply", !.running = FALSE]
    [] p.pc = "apply"    -> [p EXCEPT !.pc = "post", !.running = FALSE, !.after = report]
    [] p.pc = "post"     -> [p EXCEPT !.pc = "receipt", !.running = FALSE, !.post = report]
    [] p.pc = "rollback" -> [p EXCEPT !.pc = "recovered", !.running = FALSE]

\* invoke, up to subprocess.run: refuse the step, or start the wrapper.
Invoke(o, defect, mutatingAllowed) ==
  LET p == op[o]
      call == {<<o, p.pc>>} \cap Effects
      refusal == Refusal(p.pc, defect, p.readOnly, mutatingAllowed)
  IN  /\ p.pc \in Steps /\ ~p.running
      /\ admitted' = IF mutatingAllowed /\ ~p.readOnly THEN admitted \cup call ELSE admitted
      /\ IF refusal = "none"
           THEN Set(o, [p EXCEPT !.running = TRUE]) /\ inFlight' = inFlight \cup call
           ELSE Set(o, Failed(p, refusal)) /\ UNCHANGED inFlight
      /\ UNCHANGED <<host, landed>>

\* A change takes effect on the host, its wrapper still running or long gone.
Land(e) ==
  /\ e \in inFlight
  /\ host' = Result(e)
  /\ landed' = Append(landed, e)
  /\ inFlight' = inFlight \ {e}
  /\ UNCHANGED <<op, admitted>>

\* The wrapper exits within its time.  It exits with zero only when its change is
\* made; when it does not, the change may still come or never come.  The payload
\* carries the state the wrapper sees as it exits, or does not name one.
Exit(o, exit) ==
  LET p == op[o]
      call == {<<o, p.pc>>} \cap Effects
  IN  /\ p.running
      /\ exit.zero => call \cap inFlight = {}
      /\ \/ /\ ErrorClass(exit) = "none"
            /\ \E report \in {host, NoReport} : Set(o, Succeeded(p, report))
            /\ UNCHANGED inFlight
         \/ /\ ErrorClass(exit) # "none"
            /\ Set(o, Failed(p, ErrorClass(exit)))
            /\ inFlight' \in {inFlight, inFlight \ call}
      /\ UNCHANGED <<host, landed, admitted>>

\* Mutant of TimeOut: the wrapper is run without a timeout.
TimeOutNever(o) == FALSE /\ UNCHANGED vars

\* TimeoutExpired: the process is abandoned, its change may still come.
TimeOut(o) ==
  /\ op[o].running
  /\ Set(o, Failed(op[o], "timeout"))
  /\ inFlight' \in {inFlight, inFlight \ ({<<o, op[o].pc>>} \cap Effects)}
  /\ UNCHANGED <<host, landed, admitted>>

\* mutation_states.apply_chrony_ntp_server.after_state.desired_state_applied
Confirms(p, subnet) == p.after = subnet

\* The receipt is produced and the validation rule reads apply's after_state.
Validate(o) ==
  /\ op[o].pc = "receipt"
  /\ Set(o, IF Confirms(op[o], SubnetOf[o])
              THEN [op[o] EXCEPT !.pc = "validated"]
              ELSE [op[o] EXCEPT !.pc = "failed", !.error = "validation_failed",
                                 !.failedAt = "validation"])
  /\ UNCHANGED <<host, inFlight, landed, admitted>>

\* The operator rolls a failed operation back: one approved child in recovery mode.
\* Asking again returns that child and starts nothing.
RollBack(o) ==
  /\ op[o].pc = "failed"
  /\ Set(o, [op[o] EXCEPT !.pc = "rollback", !.readOnly = FALSE])
  /\ UNCHANGED <<host, inFlight, landed, admitted>>

Proceed(o) == \/ \E d \in Defects, m \in BOOLEAN : Invoke(o, d, m)
              \/ TimeOut(o)
              \/ Validate(o)

Next == \/ \E o \in Operations : \/ \E r \in BOOLEAN : Start(o, r)
                                 \/ Proceed(o)
                                 \/ \E exit \in Exits : Exit(o, exit)
                                 \/ RollBack(o)
        \/ \E e \in inFlight : Land(e)

Spec == Init /\ [][Next]_vars

\* The engine runs the steps of an operation and subprocess.run keeps its timeout.
\* Nothing is assumed of the wrapper: it need not exit, nor its change ever land.
Fairness == \A o \in Operations : WF_vars(Proceed(o))

FairSpec == Spec /\ Fairness

-----------------------------------------------------------------------------
(***************************************************************************)
(* Properties.                                                             *)
(***************************************************************************)

\* Every variable keeps its type, and only a step of a workflow has a wrapper.
TypeOK ==
  /\ host \in HostStates
  /\ op \in [Operations -> Progress]
  /\ \A o \in Operations : op[o].running => op[o].pc \in Steps
  /\ inFlight \subseteq Effects
  /\ landed \in Seq(Effects)
  /\ admitted \subseteq Effects

Happened(e) == \E i \in 1..Len(landed) : landed[i] = e
Followed(e, f) == \E i, j \in 1..Len(landed) : i < j /\ landed[i] = e /\ landed[j] = f

\* No change is made, or may still be made, that mode and GovEngine did not allow
\* when its step was invoked (the checks of _apply and _rollback come before any
\* process), and none is made a second time: nothing is retried.
EffectsAdmittedOnce ==
  /\ \A i, j \in 1..Len(landed) : landed[i] = landed[j] => i = j
  /\ \A e \in Effects : Happened(e) => e \notin inFlight
  /\ \A e \in Effects : Happened(e) \/ e \in inFlight => e \in admitted

\* A validated operation did change the host.  If the host, or the read after apply,
\* does not show its subnet, then another operation's change came after its own: a
\* later one, or a late one of a wrapper that was given up.  The rule itself reads
\* only apply's answer (validation rule, _wrapper's order of checks).
ValidatedUnlessOvertaken ==
  \A o \in Operations :
    op[o].pc = "validated" =>
      /\ Happened(<<o, "apply">>)
      /\ host # SubnetOf[o] \/ op[o].post \notin {SubnetOf[o], NoReport} =>
           \E f \in Effects : f[1] # o /\ Followed(<<o, "apply">>, f)

\* After a successful rollback the host serves the operation's subnet only if that
\* was applied after the rollback: by another operation, or by this operation's own
\* wrapper, which then was given up before it reported its change (_rollback, and the
\* error classes that leave the outcome of apply open).
RecoveredUnlessOvertaken ==
  \A o \in Operations :
    op[o].pc = "recovered" /\ host = SubnetOf[o] =>
      \E p \in Operations :
        /\ Followed(<<o, "rollback">>, <<p, "apply">>)
        /\ p = o => /\ op[o].failedAt = "apply"
                    /\ op[o].error \in {"timeout", "output_limit_exceeded", "transient"}

\* Every started operation and every recovery ends, even if the wrapper hangs:
\* subprocess.run has a timeout, and nothing is retried.
EveryOperationEnds ==
  \A o \in Operations :
    op[o].pc \in Steps \cup {"receipt"} ~>
      op[o].pc \in {"validated", "failed", "recovered", "unrecovered"}
=============================================================================
