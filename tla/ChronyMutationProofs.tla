------------------------ MODULE ChronyMutationProofs ------------------------
(***************************************************************************)
(* Proofs about ChronyMutation for every number of operations and subnets. *)
(***************************************************************************)
EXTENDS ChronyMutation, TLAPS

Apply(o) == <<o, "apply">>
Undo(o) == <<o, "rollback">>

\* A change is made, or a wrapper may still make it.
Made(e) == Happened(e) \/ e \in inFlight

\* The error classes after which a given-up wrapper may still change the host.
OpenErrors == {"timeout", "output_limit_exceeded", "transient"}

\* The host shows the last change.
HostShowsLast == landed # << >> => host = Result(landed[Len(landed)])

\* A wrapper is started once, when its step is invoked.
NotBefore(o) ==
  /\ Made(Apply(o)) => /\ op[o].pc \notin {"idle", "pre"}
                       /\ op[o].pc = "apply" => op[o].running
  /\ Made(Undo(o)) => \/ op[o].pc \in {"recovered", "unrecovered"}
                      \/ op[o].pc = "rollback" /\ op[o].running

\* A running mutating wrapper has made its change, or still may.
RunningMakes(o) ==
  /\ op[o].running /\ op[o].pc = "apply" => Made(Apply(o))
  /\ op[o].running /\ op[o].pc = "rollback" => Made(Undo(o))

\* A step that succeeded has made its change.
SuccessMade(o) ==
  /\ op[o].pc \in {"post", "receipt", "validated"} => Happened(Apply(o))
  /\ op[o].pc = "recovered" => Happened(Undo(o))

\* Another operation's change came after o's apply.
Overtaken(o) == \E f \in Effects : f[1] # o /\ Followed(Apply(o), f)

\* What the read after apply saw of others.
PostSaw(o) ==
  op[o].pc \in {"receipt", "validated"} /\ op[o].post \notin {SubnetOf[o], NoReport} =>
    Overtaken(o)

\* The apply failed so that its wrapper's change may still come.
LeftOpen(o) == op[o].failedAt = "apply" /\ op[o].error \in OpenErrors

\* An apply in flight is running or was left open, and so was one that came after the
\* operation's own rollback.
InFlightOpen(o) ==
  /\ Apply(o) \in inFlight =>
       \/ op[o].pc = "apply" /\ op[o].running
       \/ op[o].pc \in {"failed", "rollback", "recovered", "unrecovered"} /\ LeftOpen(o)
  /\ Followed(Undo(o), Apply(o)) => LeftOpen(o)

OpInv(o) == NotBefore(o) /\ RunningMakes(o) /\ SuccessMade(o) /\ PostSaw(o) /\ InFlightOpen(o)

MutInv == TypeOK /\ EffectsAdmittedOnce /\ HostShowsLast /\ \A o \in Operations : OpInv(o)

-----------------------------------------------------------------------------
LEMMA EffectFacts ==
  ASSUME NEW o \in Operations
  PROVE  /\ Apply(o) \in Effects /\ Undo(o) \in Effects /\ Apply(o) # Undo(o)
         /\ \A e \in Effects : e[1] = o => e = Apply(o) \/ e = Undo(o)
         /\ \A e \in Effects : e[1] \in Operations /\ e[2] \in {"apply", "rollback"}
  BY DEF Effects, Apply, Undo

LEMMA FreshType == \A r \in BOOLEAN : Fresh(r) \in Progress
  BY DEF Fresh, Progress, Phases, Steps, Errors

\* The fields a failed step leaves.
LEMMA FailedFields ==
  ASSUME NEW p \in Progress, p.pc \in Steps, NEW error \in Errors
  PROVE  /\ Failed(p, error) \in Progress
         /\ ~Failed(p, error).running
         /\ Failed(p, error).post = p.post
         /\ p.pc = "rollback" => /\ Failed(p, error).pc = "unrecovered"
                                 /\ Failed(p, error).error = p.error
                                 /\ Failed(p, error).failedAt = p.failedAt
         /\ p.pc # "rollback" => /\ Failed(p, error).pc = "failed"
                                 /\ Failed(p, error).error = error
                                 /\ Failed(p, error).failedAt = p.pc
  BY DEF Failed, Progress, Phases, Steps, Errors

\* The fields a successful step leaves.
LEMMA SucceededFields ==
  ASSUME NEW p \in Progress, p.pc \in Steps, NEW report \in HostStates \cup {NoReport}
  PROVE  /\ Succeeded(p, report) \in Progress
         /\ ~Succeeded(p, report).running
         /\ Succeeded(p, report).error = p.error
         /\ Succeeded(p, report).failedAt = p.failedAt
         /\ p.pc = "pre" => Succeeded(p, report).pc = "apply"
         /\ p.pc = "apply" => Succeeded(p, report).pc = "post"
         /\ p.pc = "post" => /\ Succeeded(p, report).pc = "receipt"
                             /\ Succeeded(p, report).post = report
         /\ p.pc = "rollback" => Succeeded(p, report).pc = "recovered"
<1>1. CASE p.pc = "pre"
  BY <1>1 DEF Succeeded, Progress, Phases, Steps
<1>2. CASE p.pc = "apply"
  BY <1>2 DEF Succeeded, Progress, Phases, Steps
<1>3. CASE p.pc = "post"
  BY <1>3 DEF Succeeded, Progress, Phases, Steps
<1>4. CASE p.pc = "rollback"
  BY <1>4 DEF Succeeded, Progress, Phases, Steps
<1>5. QED
  BY <1>1, <1>2, <1>3, <1>4 DEF Steps

LEMMA RefusalType ==
  ASSUME NEW step \in Steps, NEW d \in Defects, NEW r \in BOOLEAN, NEW m \in BOOLEAN
  PROVE  /\ Refusal(step, d, r, m) \in Errors
         /\ Refusal(step, d, r, m) = "none" /\ step \in Mutating => m /\ ~r
  BY DEF Refusal, Errors, Defects, Mutating, Steps

LEMMA ErrorClassType ==
  ASSUME NEW exit \in Exits
  PROVE  /\ ErrorClass(exit) \in Errors
         /\ ErrorClass(exit) = "none" => exit.zero
         /\ ErrorClass(exit) \in OpenErrors \/ exit.zero
  BY DEF ErrorClass, Errors, Exits, OpenErrors

\* What one more change does to the history.
LEMMA Landing ==
  ASSUME landed \in Seq(Effects), NEW e \in Effects, landed' = Append(landed, e)
  PROVE  /\ landed' \in Seq(Effects) /\ landed' # << >>
         /\ landed'[Len(landed')] = e
         /\ \A f \in Effects : Happened(f)' <=> Happened(f) \/ f = e
         /\ \A f, g \in Effects : Followed(f, g)' <=> Followed(f, g) \/ (Happened(f) /\ g = e)
<1>1. /\ Len(landed') = Len(landed) + 1 /\ Len(landed) \in Nat
      /\ \A i \in 1..Len(landed) : landed'[i] = landed[i]
      /\ landed'[Len(landed) + 1] = e
      /\ landed' \in Seq(Effects)
  OBVIOUS
<1>2. \A f \in Effects : Happened(f)' <=> Happened(f) \/ f = e
  BY <1>1 DEF Happened
<1>3. \A f, g \in Effects : Followed(f, g)' <=> Followed(f, g) \/ (Happened(f) /\ g = e)
  <2> TAKE f, g \in Effects
  <2>1. ASSUME Followed(f, g)' PROVE Followed(f, g) \/ (Happened(f) /\ g = e)
    <3>1. PICK i, j \in 1..Len(landed') : i < j /\ landed'[i] = f /\ landed'[j] = g
      BY <2>1 DEF Followed
    <3>2. i \in 1..Len(landed) /\ landed[i] = f
      BY <3>1, <1>1
    <3>3. CASE j = Len(landed) + 1
      BY <3>1, <3>2, <3>3, <1>1 DEF Happened
    <3>4. CASE j # Len(landed) + 1
      BY <3>1, <3>2, <3>4, <1>1 DEF Followed
    <3>5. QED
      BY <3>3, <3>4
  <2>2. ASSUME Followed(f, g) PROVE Followed(f, g)'
    BY <2>2, <1>1 DEF Followed
  <2>3. ASSUME Happened(f), g = e PROVE Followed(f, g)'
    <3>1. PICK i \in 1..Len(landed) : landed[i] = f
      BY <2>3 DEF Happened
    <3>2. i \in 1..Len(landed') /\ Len(landed) + 1 \in 1..Len(landed') /\ i < Len(landed) + 1
      BY <3>1, <1>1
    <3>3. landed'[i] = f /\ landed'[Len(landed) + 1] = g
      BY <3>1, <1>1, <2>3
    <3>4. QED
      BY <3>2, <3>3 DEF Followed
  <2>4. QED
    BY <2>1, <2>2, <2>3
<1>4. QED
  BY <1>1, <1>2, <1>3

\* If the host does not show the subnet of an apply that was made and not rolled back,
\* another operation's change came after it.
LEMMA HostOvertaken ==
  ASSUME TypeOK, HostShowsLast, NEW o \in Operations, Happened(Apply(o)),
         ~Happened(Undo(o)), host # SubnetOf[o]
  PROVE  Overtaken(o)
<1>1. PICK i \in 1..Len(landed) : landed[i] = Apply(o)
  BY DEF Happened
<1>2. landed \in Seq(Effects) /\ Len(landed) \in Nat /\ Len(landed) \in 1..Len(landed)
  BY <1>1 DEF TypeOK
<1> DEFINE last == landed[Len(landed)]
<1>3. last \in Effects
  BY <1>2
<1>4. host = Result(last)
  BY <1>1, <1>2 DEF HostShowsLast
<1>5. last # Apply(o)
  BY <1>4 DEF Result, Apply
<1>6. last # Undo(o)
  BY <1>2 DEF Happened
<1>7. last[1] # o
  BY <1>3, <1>5, <1>6, EffectFacts
<1>8. i < Len(landed)
  BY <1>1, <1>2, <1>5
<1>9. Followed(Apply(o), last)
  BY <1>1, <1>2, <1>8 DEF Followed
<1>10. QED
  BY <1>3, <1>7, <1>9 DEF Overtaken

-----------------------------------------------------------------------------
(***************************************************************************)
(* A step of one operation's workflow.                                     *)
(***************************************************************************)

\* What the other operations' invariants rest on is untouched.
LEMMA QuietStep ==
  ASSUME MutInv, NEW q \in Operations, NEW np \in Progress,
         np.running => np.pc \in Steps,
         op' = [op EXCEPT ![q] = np], host' = host, landed' = landed,
         inFlight' \subseteq Effects,
         \A e \in Effects : e[1] # q => (e \in inFlight' <=> e \in inFlight),
         \A e \in inFlight' : e \in inFlight \/ (~Happened(e) /\ e \in admitted'),
         admitted \subseteq admitted', admitted' \subseteq Effects,
         OpInv(q)'
  PROVE  MutInv'
<1>1. TypeOK'
  BY DEF MutInv, TypeOK
<1>2. \A e \in Effects : Happened(e)' <=> Happened(e)
  BY DEF Happened
<1>3. \A e, f \in Effects : Followed(e, f)' <=> Followed(e, f)
  BY DEF Followed
<1>4. EffectsAdmittedOnce'
  BY <1>2 DEF MutInv, TypeOK, EffectsAdmittedOnce
<1>5. HostShowsLast'
  BY DEF MutInv, HostShowsLast, Result
<1>6. ASSUME NEW o \in Operations, o # q
      PROVE  OpInv(o)'
  <2>1. op'[o] = op[o] /\ OpInv(o)
    BY <1>6 DEF MutInv, TypeOK
  <2>2. /\ Apply(o) \in inFlight' <=> Apply(o) \in inFlight
        /\ Undo(o) \in inFlight' <=> Undo(o) \in inFlight
    BY <1>6, EffectFacts DEF Apply, Undo
  <2>3. /\ Made(Apply(o))' <=> Made(Apply(o))
        /\ Made(Undo(o))' <=> Made(Undo(o))
    BY <2>2, <1>2, EffectFacts DEF Made
  <2>4. NotBefore(o)'
    BY <2>1, <2>3 DEF OpInv, NotBefore
  <2>5. RunningMakes(o)'
    BY <2>1, <2>3 DEF OpInv, RunningMakes
  <2>6. SuccessMade(o)'
    BY <2>1, <1>2, EffectFacts DEF OpInv, SuccessMade
  <2>7. Overtaken(o)' <=> Overtaken(o)
    BY <1>3, EffectFacts DEF Overtaken
  <2>8. PostSaw(o)'
    BY <2>1, <2>7 DEF OpInv, PostSaw
  <2>9. InFlightOpen(o)'
    BY <2>1, <2>2, <1>3, EffectFacts DEF OpInv, InFlightOpen, LeftOpen
  <2>10. QED
    BY <2>4, <2>5, <2>6, <2>8, <2>9 DEF OpInv
<1>7. QED
  BY <1>1, <1>4, <1>5, <1>6 DEF MutInv

\* The parts of an operation's invariant that read the history, when it is unchanged.
LEMMA SameHistory ==
  ASSUME landed' = landed, NEW o \in Operations
  PROVE  /\ Happened(Apply(o))' <=> Happened(Apply(o))
         /\ Happened(Undo(o))' <=> Happened(Undo(o))
         /\ Followed(Undo(o), Apply(o))' <=> Followed(Undo(o), Apply(o))
         /\ Overtaken(o)' <=> Overtaken(o)
  BY DEF Happened, Followed, Overtaken, Apply, Undo

LEMMA StartKeeps ==
  ASSUME MutInv, NEW q \in Operations, NEW r \in BOOLEAN, Start(q, r)
  PROVE  MutInv'
<1> DEFINE np == [Fresh(r) EXCEPT !.pc = "pre"]
<1>1. /\ op[q] \in Progress /\ op[q].pc = "idle" /\ OpInv(q)
      /\ op' = [op EXCEPT ![q] = np] /\ op'[q] = np
      /\ host' = host /\ landed' = landed /\ inFlight' = inFlight /\ admitted' = admitted
      /\ inFlight \subseteq Effects /\ admitted \subseteq Effects
  BY DEF Start, Set, MutInv, TypeOK
<1>2. np \in Progress /\ np.pc = "pre" /\ ~np.running
  BY FreshType DEF Fresh, Progress, Phases, Steps
<1>3. ~Made(Apply(q)) /\ ~Made(Undo(q))
  BY <1>1 DEF OpInv, NotBefore
<1>4. ~Made(Apply(q))' /\ ~Made(Undo(q))'
  BY <1>1, <1>3, SameHistory DEF Made, Apply, Undo
<1>5. Followed(Undo(q), Apply(q)) => Happened(Apply(q))
  BY DEF Followed, Happened
<1>6. NotBefore(q)' /\ RunningMakes(q)' /\ SuccessMade(q)' /\ PostSaw(q)'
  BY <1>1, <1>2, <1>4 DEF NotBefore, RunningMakes, SuccessMade, PostSaw
<1>7. InFlightOpen(q)'
  BY <1>3, <1>5, <1>1, SameHistory DEF InFlightOpen, Made
<1>8. QED
  BY <1>1, <1>2, <1>6, <1>7, QuietStep DEF OpInv

\* Invoking a step, refused or with its wrapper started.
LEMMA InvokeKeeps ==
  ASSUME MutInv, NEW q \in Operations, NEW d \in Defects, NEW m \in BOOLEAN, Invoke(q, d, m)
  PROVE  MutInv'
<1> DEFINE p == op[q]
           call == {<<q, p.pc>>} \cap Effects
           refusal == Refusal(p.pc, d, p.readOnly, m)
<1>1. /\ p \in Progress /\ p.pc \in Steps /\ ~p.running /\ OpInv(q)
      /\ p.readOnly \in BOOLEAN
      /\ host' = host /\ landed' = landed
      /\ inFlight \subseteq Effects /\ admitted \subseteq Effects
  BY DEF Invoke, MutInv, TypeOK, Progress
<1>2. /\ refusal \in Errors
      /\ refusal = "none" /\ p.pc \in Mutating => m /\ ~p.readOnly
  BY <1>1, RefusalType
<1>3. /\ call \subseteq Effects
      /\ \A e \in call : e[1] = q /\ e = <<q, p.pc>> /\ p.pc \in Mutating
      /\ p.pc = "apply" => call = {Apply(q)}
      /\ p.pc = "rollback" => call = {Undo(q)}
  BY DEF Effects, Mutating, Apply, Undo
<1>4. admitted \subseteq admitted' /\ admitted' \subseteq Effects
  BY <1>1, <1>3 DEF Invoke
<1>5. CASE refusal # "none"
  <2> DEFINE np == Failed(p, refusal)
  <2>1. op' = [op EXCEPT ![q] = np] /\ op'[q] = np /\ inFlight' = inFlight
    BY <1>1, <1>5 DEF Invoke, Set, MutInv, TypeOK
  <2>2. /\ np \in Progress /\ ~np.running
        /\ p.pc = "rollback" => /\ np.pc = "unrecovered" /\ np.error = p.error
                                /\ np.failedAt = p.failedAt
        /\ p.pc # "rollback" => np.pc = "failed"
    BY <1>1, <1>2, FailedFields
  <2>3. /\ Made(Apply(q))' <=> Made(Apply(q))
        /\ Made(Undo(q))' <=> Made(Undo(q))
    BY <2>1, <1>1, SameHistory DEF Made
  <2>4. NotBefore(q)' /\ RunningMakes(q)' /\ SuccessMade(q)' /\ PostSaw(q)'
    BY <1>1, <2>1, <2>2, <2>3
    DEF OpInv, NotBefore, RunningMakes, SuccessMade, PostSaw, Steps
  <2>5. InFlightOpen(q)'
    <3>1. CASE p.pc = "rollback"
      BY <3>1, <1>1, <2>1, <2>2, SameHistory DEF OpInv, InFlightOpen, LeftOpen
    <3>2. CASE p.pc # "rollback"
      <4>1. Apply(q) \notin inFlight
        BY <3>2, <1>1 DEF OpInv, InFlightOpen, Steps
      <4>2. ~Followed(Undo(q), Apply(q))
        <5>1. ~Made(Undo(q))
          BY <3>2, <1>1 DEF OpInv, NotBefore, Steps
        <5>2. QED
          BY <5>1 DEF Made, Followed, Happened
      <4>3. QED
        BY <4>1, <4>2, <1>1, <2>1, SameHistory DEF InFlightOpen
    <3>3. QED
      BY <3>1, <3>2
  <2>6. QED
    BY <1>1, <1>4, <2>1, <2>2, <2>4, <2>5, QuietStep DEF OpInv
<1>6. CASE refusal = "none"
  <2> DEFINE np == [p EXCEPT !.running = TRUE]
  <2>1. op' = [op EXCEPT ![q] = np] /\ op'[q] = np /\ inFlight' = inFlight \cup call
    BY <1>1, <1>6 DEF Invoke, Set, MutInv, TypeOK
  <2>2. np \in Progress /\ np.running /\ np.pc = p.pc /\ np.error = p.error
        /\ np.failedAt = p.failedAt
    BY <1>1 DEF Progress
  <2>3. \A e \in call : ~Happened(e) /\ e \in admitted'
    <3>1. \A e \in call : ~Made(e)
      BY <1>1, <1>3 DEF OpInv, NotBefore, Mutating
    <3>2. m /\ ~p.readOnly => admitted' = admitted \cup call
      BY DEF Invoke
    <3>3. QED
      BY <3>1, <3>2, <1>2, <1>3, <1>6 DEF Made
  <2>4. NotBefore(q)'
    <3>1. p.pc # "apply" => (Made(Apply(q))' <=> Made(Apply(q)))
      BY <2>1, <1>3, SameHistory, <1>1 DEF Made, Apply, Mutating
    <3>2. p.pc # "rollback" => (Made(Undo(q))' <=> Made(Undo(q)))
      BY <2>1, <1>3, SameHistory, <1>1 DEF Made, Undo, Mutating
    <3>3. QED
      BY <3>1, <3>2, <1>1, <2>1, <2>2 DEF OpInv, NotBefore, Steps
  <2>5. RunningMakes(q)'
    BY <2>1, <2>2, <1>3 DEF RunningMakes, Made
  <2>6. SuccessMade(q)' /\ PostSaw(q)'
    <3>1. p.pc \notin {"receipt", "validated", "recovered"}
      BY <1>1 DEF Steps
    <3>2. QED
      BY <3>1, <1>1, <2>1, <2>2, SameHistory DEF OpInv, SuccessMade, PostSaw
  <2>7. InFlightOpen(q)'
    <3>1. CASE p.pc = "apply"
      BY <3>1, <1>1, <2>1, <2>2, SameHistory DEF OpInv, InFlightOpen, LeftOpen
    <3>2. CASE p.pc # "apply"
      <4>1. Apply(q) \in inFlight' <=> Apply(q) \in inFlight
        BY <3>2, <2>1, <1>3 DEF Apply
      <4>2. QED
        BY <4>1, <3>2, <1>1, <2>1, <2>2, SameHistory DEF OpInv, InFlightOpen, LeftOpen, Steps
    <3>3. QED
      BY <3>1, <3>2
  <2>8. QED
    <3>1. inFlight' \subseteq Effects /\ \A e \in Effects : e[1] # q => (e \in inFlight' <=> e \in inFlight)
      BY <2>1, <1>1, <1>3
    <3>2. \A e \in inFlight' : e \in inFlight \/ (~Happened(e) /\ e \in admitted')
      BY <2>1, <2>3
    <3>3. OpInv(q)'
      BY <2>4, <2>5, <2>6, <2>7 DEF OpInv
    <3>4. QED
      BY <3>1, <3>2, <3>3, <1>1, <1>4, <2>1, <2>2, QuietStep
<1>7. QED
  BY <1>5, <1>6

\* A wrapper that failed or was given up, whose change may still come only if the error
\* class leaves that open.
LEMMA FailureKeeps ==
  ASSUME MutInv, NEW q \in Operations, op[q].running, NEW error \in Errors,
         op' = [op EXCEPT ![q] = Failed(op[q], error)],
         host' = host, landed' = landed, admitted' = admitted,
         \/ inFlight' = inFlight
         \/ inFlight' = inFlight \ ({<<q, op[q].pc>>} \cap Effects),
         error \in OpenErrors \/ <<q, op[q].pc>> \notin inFlight'
  PROVE  MutInv'
<1> DEFINE p == op[q]
           np == Failed(p, error)
<1>1. /\ p \in Progress /\ p.pc \in Steps /\ OpInv(q) /\ op'[q] = np
      /\ inFlight \subseteq Effects /\ admitted \subseteq Effects
      /\ \A e \in inFlight : e \in admitted
  BY DEF MutInv, TypeOK, EffectsAdmittedOnce
<1>2. /\ np \in Progress /\ ~np.running
      /\ p.pc = "rollback" => /\ np.pc = "unrecovered" /\ np.error = p.error
                              /\ np.failedAt = p.failedAt
      /\ p.pc # "rollback" => np.pc = "failed" /\ np.error = error /\ np.failedAt = p.pc
  BY <1>1, FailedFields
<1>3. /\ inFlight' \subseteq inFlight
      /\ \A e \in Effects : e[1] # q => (e \in inFlight' <=> e \in inFlight)
  OBVIOUS
<1>4. /\ Made(Apply(q))' => Made(Apply(q))
      /\ Made(Undo(q))' => Made(Undo(q))
  BY <1>3, SameHistory DEF Made
<1>5. NotBefore(q)' /\ RunningMakes(q)' /\ SuccessMade(q)' /\ PostSaw(q)'
  BY <1>1, <1>2, <1>4 DEF OpInv, NotBefore, RunningMakes, SuccessMade, PostSaw, Steps
<1>6. InFlightOpen(q)'
  <2>1. CASE p.pc = "rollback"
    BY <2>1, <1>1, <1>2, <1>3, SameHistory DEF OpInv, InFlightOpen, LeftOpen
  <2>2. CASE p.pc # "rollback"
    <3>1. ~Followed(Undo(q), Apply(q))
      <4>1. ~Made(Undo(q))
        BY <2>2, <1>1 DEF OpInv, NotBefore, Steps
      <4>2. QED
        BY <4>1 DEF Made, Followed, Happened
    <3>2. Apply(q) \in inFlight' => p.pc = "apply"
      BY <2>2, <1>1, <1>3 DEF OpInv, InFlightOpen, Steps
    <3>3. Apply(q) \in inFlight' => error \in OpenErrors
      BY <3>2 DEF Apply
    <3>4. QED
      BY <3>1, <3>2, <3>3, <2>2, <1>1, <1>2, SameHistory DEF InFlightOpen, LeftOpen
  <2>3. QED
    BY <2>1, <2>2
<1>7. QED
  BY <1>1, <1>2, <1>3, <1>5, <1>6, QuietStep DEF OpInv

LEMMA TimeOutKeeps ==
  ASSUME MutInv, NEW q \in Operations, TimeOut(q)
  PROVE  MutInv'
<1>1. "timeout" \in Errors /\ "timeout" \in OpenErrors
  BY DEF Errors, OpenErrors
<1>2. QED
  BY <1>1, FailureKeeps DEF TimeOut, Set

LEMMA ExitKeeps ==
  ASSUME MutInv, NEW q \in Operations, NEW exit \in Exits, Exit(q, exit)
  PROVE  MutInv'
<1> DEFINE p == op[q]
           call == {<<q, p.pc>>} \cap Effects
<1>1. /\ p \in Progress /\ p.pc \in Steps /\ p.running /\ OpInv(q)
      /\ host' = host /\ landed' = landed /\ admitted' = admitted
      /\ inFlight \subseteq Effects /\ admitted \subseteq Effects
      /\ \A e \in inFlight : e \in admitted
      /\ host \in HostStates
  BY DEF Exit, MutInv, TypeOK, EffectsAdmittedOnce
<1>2. /\ ErrorClass(exit) \in Errors
      /\ ErrorClass(exit) = "none" => exit.zero
      /\ ErrorClass(exit) \in OpenErrors \/ exit.zero
  BY ErrorClassType
<1>3. exit.zero => <<q, p.pc>> \notin inFlight
  BY <1>1 DEF Exit
<1>4. CASE ErrorClass(exit) # "none"
  <2>1. /\ op' = [op EXCEPT ![q] = Failed(p, ErrorClass(exit))]
        /\ inFlight' = inFlight \/ inFlight' = inFlight \ call
    BY <1>4 DEF Exit, Set
  <2>2. QED
    BY <2>1, <1>1, <1>2, <1>3, FailureKeeps
<1>5. CASE ErrorClass(exit) = "none"
  <2>1. PICK report \in {host, NoReport} : op' = [op EXCEPT ![q] = Succeeded(p, report)]
    BY <1>5 DEF Exit, Set
  <2>2. inFlight' = inFlight /\ <<q, p.pc>> \notin inFlight
    BY <1>5, <1>2, <1>3 DEF Exit
  <2> DEFINE np == Succeeded(p, report)
  <2>3. op'[q] = np
    BY <2>1 DEF MutInv, TypeOK
  <2>4. /\ np \in Progress /\ ~np.running /\ np.error = p.error /\ np.failedAt = p.failedAt
        /\ p.pc = "pre" => np.pc = "apply"
        /\ p.pc = "apply" => np.pc = "post"
        /\ p.pc = "post" => np.pc = "receipt" /\ np.post = report
        /\ p.pc = "rollback" => np.pc = "recovered"
    BY <1>1, SucceededFields
  <2>5. /\ Made(Apply(q))' <=> Made(Apply(q))
        /\ Made(Undo(q))' <=> Made(Undo(q))
    BY <2>2, <1>1, SameHistory DEF Made
  <2>6. /\ p.pc = "apply" => Happened(Apply(q)) /\ Apply(q) \notin inFlight
        /\ p.pc = "rollback" => Happened(Undo(q))
    BY <1>1, <2>2 DEF OpInv, RunningMakes, Made, Apply, Undo
  <2>7. NotBefore(q)' /\ RunningMakes(q)'
    BY <1>1, <2>3, <2>4, <2>5 DEF OpInv, NotBefore, RunningMakes, Steps
  <2>8. SuccessMade(q)'
    BY <1>1, <2>3, <2>4, <2>6, SameHistory DEF OpInv, SuccessMade, Steps
  <2>9. PostSaw(q)'
    <3>1. CASE p.pc = "post"
      <4>1. Happened(Apply(q)) /\ ~Happened(Undo(q))
        BY <3>1, <1>1 DEF OpInv, SuccessMade, NotBefore, Made
      <4>2. host # SubnetOf[q] => Overtaken(q)
        BY <4>1, HostOvertaken DEF MutInv
      <4>3. report \notin {SubnetOf[q], NoReport} => host # SubnetOf[q]
        OBVIOUS
      <4>4. QED
        BY <3>1, <4>2, <4>3, <2>3, <2>4, <1>1, SameHistory DEF PostSaw
    <3>2. CASE p.pc # "post"
      BY <3>2, <1>1, <2>3, <2>4 DEF PostSaw, Steps
    <3>3. QED
      BY <3>1, <3>2
  <2>10. InFlightOpen(q)'
    <3>1. CASE p.pc = "apply"
      BY <3>1, <2>6, <2>2, <2>3, <2>4, <1>1, SameHistory DEF OpInv, InFlightOpen, LeftOpen
    <3>2. CASE p.pc # "apply"
      BY <3>2, <2>2, <2>3, <2>4, <1>1, SameHistory DEF OpInv, InFlightOpen, LeftOpen, Steps
    <3>3. QED
      BY <3>1, <3>2
  <2>11. QED
    <3>1. OpInv(q)'
      BY <2>7, <2>8, <2>9, <2>10 DEF OpInv
    <3>2. QED
      BY <3>1, <1>1, <2>1, <2>2, <2>4, QuietStep
<1>6. QED
  BY <1>4, <1>5

LEMMA ValidateKeeps ==
  ASSUME MutInv, NEW q \in Operations, Validate(q)
  PROVE  MutInv'
<1> DEFINE p == op[q]
           np == IF Confirms(p, SubnetOf[q]) THEN [p EXCEPT !.pc = "validated"]
                 ELSE [p EXCEPT !.pc = "failed", !.error = "validation_failed",
                                !.failedAt = "validation"]
<1>1. /\ p \in Progress /\ p.pc = "receipt" /\ ~p.running /\ OpInv(q)
      /\ op' = [op EXCEPT ![q] = np] /\ op'[q] = np
      /\ host' = host /\ landed' = landed /\ inFlight' = inFlight /\ admitted' = admitted
      /\ inFlight \subseteq Effects /\ admitted \subseteq Effects
      /\ \A e \in inFlight : e \in admitted
  BY DEF Validate, Set, MutInv, TypeOK, EffectsAdmittedOnce, Steps
<1>2. /\ np \in Progress /\ ~np.running /\ np.pc \in {"validated", "failed"}
      /\ np.post = p.post
  BY <1>1 DEF Progress, Phases, Errors
<1>3. /\ Made(Apply(q))' <=> Made(Apply(q))
      /\ Made(Undo(q))' <=> Made(Undo(q))
  BY <1>1, SameHistory DEF Made
<1>4. ~Made(Undo(q)) /\ Apply(q) \notin inFlight
  BY <1>1 DEF OpInv, NotBefore, InFlightOpen
<1>5. ~Followed(Undo(q), Apply(q))
  BY <1>4 DEF Made, Followed, Happened
<1>6. NotBefore(q)' /\ RunningMakes(q)' /\ SuccessMade(q)' /\ PostSaw(q)'
  BY <1>1, <1>2, <1>3, SameHistory DEF OpInv, NotBefore, RunningMakes, SuccessMade, PostSaw
<1>7. InFlightOpen(q)'
  BY <1>1, <1>4, <1>5, SameHistory DEF InFlightOpen
<1>8. QED
  BY <1>1, <1>2, <1>6, <1>7, QuietStep DEF OpInv

LEMMA RollBackKeeps ==
  ASSUME MutInv, NEW q \in Operations, RollBack(q)
  PROVE  MutInv'
<1> DEFINE p == op[q]
           np == [p EXCEPT !.pc = "rollback", !.readOnly = FALSE]
<1>1. /\ p \in Progress /\ p.pc = "failed" /\ ~p.running /\ OpInv(q)
      /\ op' = [op EXCEPT ![q] = np] /\ op'[q] = np
      /\ host' = host /\ landed' = landed /\ inFlight' = inFlight /\ admitted' = admitted
      /\ inFlight \subseteq Effects /\ admitted \subseteq Effects
      /\ \A e \in inFlight : e \in admitted
  BY DEF RollBack, Set, MutInv, TypeOK, EffectsAdmittedOnce, Steps
<1>2. /\ np \in Progress /\ ~np.running /\ np.pc = "rollback"
      /\ np.error = p.error /\ np.failedAt = p.failedAt
  BY <1>1 DEF Progress, Phases, Steps
<1>3. /\ Made(Apply(q))' <=> Made(Apply(q))
      /\ Made(Undo(q))' <=> Made(Undo(q))
  BY <1>1, SameHistory DEF Made
<1>4. NotBefore(q)' /\ RunningMakes(q)' /\ SuccessMade(q)' /\ PostSaw(q)'
  BY <1>1, <1>2, <1>3 DEF OpInv, NotBefore, RunningMakes, SuccessMade, PostSaw
<1>5. InFlightOpen(q)'
  BY <1>1, <1>2, SameHistory DEF OpInv, InFlightOpen, LeftOpen
<1>6. QED
  BY <1>1, <1>2, <1>4, <1>5, QuietStep DEF OpInv

-----------------------------------------------------------------------------
(***************************************************************************)
(* A change of the host.                                                   *)
(***************************************************************************)

LEMMA LandKeeps ==
  ASSUME MutInv, NEW e \in inFlight, Land(e)
  PROVE  MutInv'
<1>1. /\ e \in Effects /\ landed \in Seq(Effects) /\ landed' = Append(landed, e)
      /\ inFlight' = inFlight \ {e} /\ op' = op /\ admitted' = admitted /\ host' = Result(e)
      /\ ~Happened(e) /\ e \in admitted
  BY DEF Land, MutInv, TypeOK, EffectsAdmittedOnce
<1>2. /\ landed' \in Seq(Effects) /\ landed' # << >> /\ landed'[Len(landed')] = e
      /\ \A f \in Effects : Happened(f)' <=> Happened(f) \/ f = e
      /\ \A f, g \in Effects : Followed(f, g)' <=> Followed(f, g) \/ (Happened(f) /\ g = e)
  BY <1>1, Landing
<1>3. TypeOK'
  <2>1. Result(e) \in HostStates
    BY <1>1, MutationAssumption DEF Result, HostStates, Effects
  <2>2. QED
    BY <1>1, <1>2, <2>1 DEF MutInv, TypeOK
<1>4. EffectsAdmittedOnce'
  <2>1. \A i, j \in 1..Len(landed') : landed'[i] = landed'[j] => i = j
    <3>1. /\ Len(landed') = Len(landed) + 1 /\ Len(landed) \in Nat
          /\ \A i \in 1..Len(landed) : landed'[i] = landed[i] /\ landed[i] # e
          /\ landed'[Len(landed) + 1] = e
      BY <1>1 DEF Happened
    <3>2. \A i, j \in 1..Len(landed) : landed[i] = landed[j] => i = j
      BY DEF MutInv, EffectsAdmittedOnce
    <3>3. \A i \in 1..Len(landed') : i \in 1..Len(landed) \/ i = Len(landed) + 1
      BY <3>1
    <3>4. QED
      BY <3>1, <3>2, <3>3
  <2>2. QED
    BY <2>1, <1>1, <1>2 DEF MutInv, TypeOK, EffectsAdmittedOnce
<1>5. HostShowsLast'
  BY <1>1, <1>2 DEF HostShowsLast, Result
<1>6. ASSUME NEW o \in Operations
      PROVE  OpInv(o)'
  <2>1. /\ OpInv(o) /\ op'[o] = op[o]
        /\ Apply(o) \in Effects /\ Undo(o) \in Effects /\ Apply(o) # Undo(o)
    BY <1>1, EffectFacts DEF MutInv
  <2>2. /\ Made(Apply(o))' <=> Made(Apply(o))
        /\ Made(Undo(o))' <=> Made(Undo(o))
    BY <1>1, <1>2, <2>1 DEF Made
  <2>3. NotBefore(o)' /\ RunningMakes(o)'
    BY <2>1, <2>2 DEF OpInv, NotBefore, RunningMakes
  <2>4. SuccessMade(o)'
    BY <2>1, <1>2 DEF OpInv, SuccessMade
  <2>5. PostSaw(o)'
    BY <2>1, <1>2 DEF OpInv, PostSaw, Overtaken
  <2>6. InFlightOpen(o)'
    <3>1. Apply(o) \in inFlight' => Apply(o) \in inFlight
      BY <1>1
    <3>2. ASSUME Happened(Undo(o)), Apply(o) = e PROVE LeftOpen(o)
      <4>1. op[o].pc \in {"recovered", "unrecovered", "rollback"}
        BY <3>2, <2>1 DEF OpInv, NotBefore, Made
      <4>2. QED
        BY <4>1, <3>2, <2>1 DEF OpInv, InFlightOpen
    <3>3. Followed(Undo(o), Apply(o))' => LeftOpen(o)
      BY <3>2, <2>1, <1>2 DEF OpInv, InFlightOpen
    <3>4. QED
      BY <3>1, <3>3, <2>1 DEF OpInv, InFlightOpen, LeftOpen
  <2>7. QED
    BY <2>3, <2>4, <2>5, <2>6 DEF OpInv
<1>7. QED
  BY <1>3, <1>4, <1>5, <1>6 DEF MutInv

-----------------------------------------------------------------------------
LEMMA MutInit == Init => MutInv
<1> SUFFICES ASSUME Init PROVE MutInv
  OBVIOUS
<1>1. /\ host \in HostStates /\ inFlight = {} /\ landed = << >> /\ admitted = {}
      /\ op \in [Operations -> Progress]
      /\ \A o \in Operations : op[o].pc = "idle" /\ ~op[o].running
  BY FreshType DEF Init, Fresh
<1>2. Len(landed) = 0 /\ landed \in Seq(Effects)
  BY <1>1
<1>3. \A e, f : ~Happened(e) /\ ~Followed(e, f)
  BY <1>2 DEF Happened, Followed
<1>4. TypeOK
  BY <1>1, <1>2 DEF TypeOK
<1>5. EffectsAdmittedOnce /\ HostShowsLast
  BY <1>1, <1>2, <1>3 DEF EffectsAdmittedOnce, HostShowsLast
<1>6. \A o \in Operations : OpInv(o)
  BY <1>1, <1>3 DEF OpInv, NotBefore, RunningMakes, SuccessMade, PostSaw, InFlightOpen, Made
<1>7. QED
  BY <1>4, <1>5, <1>6 DEF MutInv

LEMMA MutStep == MutInv /\ [Next]_vars => MutInv'
<1> SUFFICES ASSUME MutInv, [Next]_vars PROVE MutInv'
  OBVIOUS
<1>1. CASE UNCHANGED vars
  BY <1>1 DEF vars, MutInv, TypeOK, EffectsAdmittedOnce, HostShowsLast, Result, OpInv, NotBefore,
              RunningMakes, SuccessMade, PostSaw, Overtaken, InFlightOpen, LeftOpen, Made,
              Happened, Followed
<1>2. ASSUME NEW o \in Operations, NEW r \in BOOLEAN, Start(o, r) PROVE MutInv'
  BY <1>2, StartKeeps
<1>3. ASSUME NEW o \in Operations, NEW d \in Defects, NEW m \in BOOLEAN, Invoke(o, d, m)
      PROVE  MutInv'
  BY <1>3, InvokeKeeps
<1>4. ASSUME NEW o \in Operations, TimeOut(o) PROVE MutInv'
  BY <1>4, TimeOutKeeps
<1>5. ASSUME NEW o \in Operations, Validate(o) PROVE MutInv'
  BY <1>5, ValidateKeeps
<1>6. ASSUME NEW o \in Operations, NEW exit \in Exits, Exit(o, exit) PROVE MutInv'
  BY <1>6, ExitKeeps
<1>7. ASSUME NEW o \in Operations, RollBack(o) PROVE MutInv'
  BY <1>7, RollBackKeeps
<1>8. ASSUME NEW e \in inFlight, Land(e) PROVE MutInv'
  BY <1>8, LandKeeps
<1>9. QED
  BY <1>1, <1>2, <1>3, <1>4, <1>5, <1>6, <1>7, <1>8 DEF Next, Proceed

LEMMA Invariance == Spec => []MutInv
  BY MutInit, MutStep, PTL DEF Spec

\* Every variable keeps its type, and only a step of a workflow has a wrapper running,
\* whatever the wrappers do (invoke and _wrapper).
THEOREM TypeCorrect == Spec => []TypeOK
<1>1. MutInv => TypeOK
  BY DEF MutInv
<1>2. QED
  BY <1>1, Invariance, PTL

\* Of any number of overlapping operations none makes a change that mode and GovEngine
\* did not allow, or makes one twice (the checks of _apply and _rollback, no retry).
THEOREM ChangesAdmittedOnce == Spec => []EffectsAdmittedOnce
<1>1. MutInv => EffectsAdmittedOnce
  BY DEF MutInv
<1>2. QED
  BY <1>1, Invariance, PTL

\* A validated operation changed the host, and what hides its change is a later change
\* of another operation (the validation rule and the order of _wrapper's checks).
THEOREM ValidationSound == Spec => []ValidatedUnlessOvertaken
<1>1. MutInv => ValidatedUnlessOvertaken
  <2> SUFFICES ASSUME MutInv, NEW o \in Operations, op[o].pc = "validated"
               PROVE  /\ Happened(Apply(o))
                      /\ host # SubnetOf[o] \/ op[o].post \notin {SubnetOf[o], NoReport} =>
                           Overtaken(o)
    BY DEF ValidatedUnlessOvertaken, Overtaken, Apply
  <2>1. OpInv(o)
    BY DEF MutInv
  <2>2. Happened(Apply(o)) /\ ~Happened(Undo(o))
    BY <2>1 DEF OpInv, SuccessMade, NotBefore, Made
  <2>3. host # SubnetOf[o] => Overtaken(o)
    BY <2>2, HostOvertaken DEF MutInv
  <2>4. QED
    BY <2>1, <2>2, <2>3 DEF OpInv, PostSaw
<1>2. QED
  BY <1>1, Invariance, PTL

\* After a successful rollback the host serves the operation's subnet only through an
\* apply that came after it: another operation's, or the late change of this one's own
\* wrapper, given up before it reported (the open error classes of _wrapper).
THEOREM RecoverySound == Spec => []RecoveredUnlessOvertaken
<1>1. MutInv => RecoveredUnlessOvertaken
  <2> SUFFICES ASSUME MutInv, NEW o \in Operations, op[o].pc = "recovered",
                      host = SubnetOf[o]
               PROVE  \E p \in Operations :
                        /\ Followed(Undo(o), Apply(p))
                        /\ p = o => LeftOpen(o)
    BY DEF RecoveredUnlessOvertaken, Undo, Apply, LeftOpen, OpenErrors
  <2>1. OpInv(o) /\ Happened(Undo(o)) /\ landed \in Seq(Effects)
    BY DEF MutInv, OpInv, SuccessMade, TypeOK
  <2>2. PICK i \in 1..Len(landed) : landed[i] = Undo(o)
    BY <2>1 DEF Happened
  <2> DEFINE last == landed[Len(landed)]
  <2>3. last \in Effects /\ Len(landed) \in 1..Len(landed) /\ Len(landed) \in Nat
    BY <2>1, <2>2
  <2>4. Result(last) = SubnetOf[o]
    BY <2>2, <2>3 DEF MutInv, HostShowsLast
  <2>5. SubnetOf[o] # NoConfig
    BY MutationAssumption
  <2>6. last[2] = "apply"
    BY <2>4, <2>5 DEF Result
  <2>7. PICK p \in Operations : last = Apply(p)
    BY <2>3, <2>6 DEF Effects, Apply
  <2>8. i < Len(landed)
    BY <2>2, <2>3, <2>7 DEF Apply, Undo
  <2>9. Followed(Undo(o), Apply(p))
    BY <2>2, <2>3, <2>7, <2>8 DEF Followed
  <2>10. p = o => LeftOpen(o)
    BY <2>9, <2>1 DEF OpInv, InFlightOpen
  <2>11. QED
    BY <2>9, <2>10
<1>2. QED
  BY <1>1, Invariance, PTL

-----------------------------------------------------------------------------
(***************************************************************************)
(* What the mutation runbook may rely on when the runtime keeps operations *)
(* on one target apart, and the part of EveryOperationEnds that does not   *)
(* rest on fairness.                                                       *)
(***************************************************************************)
\* No other operation has changed the host.
Alone(o) == \A e \in Effects : Happened(e) => e[1] = o

\* Then a validated operation is applied, and its post-read says nothing else; and a
\* recovered one left no managed file, unless the wrapper of its own apply was given up
\* and may have come later (validation rule, _rollback).
AloneMeansDone ==
  \A o \in Operations :
    Alone(o) =>
      /\ op[o].pc = "validated" => host = SubnetOf[o] /\ op[o].post \in {SubnetOf[o], NoReport}
      /\ op[o].pc = "recovered" /\ ~LeftOpen(o) => host = NoConfig

THEOREM SoleOperationDoes == Spec => []AloneMeansDone
<1>1. MutInv => AloneMeansDone
  <2> SUFFICES ASSUME MutInv, NEW o \in Operations, Alone(o)
               PROVE  /\ op[o].pc = "validated" =>
                           host = SubnetOf[o] /\ op[o].post \in {SubnetOf[o], NoReport}
                      /\ op[o].pc = "recovered" /\ ~LeftOpen(o) => host = NoConfig
    BY DEF AloneMeansDone
  <2>1. OpInv(o) /\ landed \in Seq(Effects)
    BY DEF MutInv, TypeOK
  <2>2. ~Overtaken(o)
    BY DEF Alone, Overtaken, Followed, Happened
  <2>3. ASSUME op[o].pc = "validated"
        PROVE  host = SubnetOf[o] /\ op[o].post \in {SubnetOf[o], NoReport}
    <3>1. Happened(Apply(o)) /\ ~Happened(Undo(o))
      BY <2>1, <2>3 DEF OpInv, SuccessMade, NotBefore, Made
    <3>2. host = SubnetOf[o]
      BY <2>2, <3>1, HostOvertaken DEF MutInv
    <3>3. QED
      BY <2>1, <2>2, <2>3, <3>2 DEF OpInv, PostSaw
  <2>4. ASSUME op[o].pc = "recovered", ~LeftOpen(o) PROVE host = NoConfig
    <3>1. PICK i \in 1..Len(landed) : landed[i] = Undo(o)
      BY <2>1, <2>4 DEF OpInv, SuccessMade, Happened
    <3> DEFINE last == landed[Len(landed)]
    <3>2. last \in Effects /\ Len(landed) \in 1..Len(landed) /\ landed # << >>
      BY <2>1, <3>1
    <3>3. last = Apply(o) \/ last = Undo(o)
      BY <3>2, EffectFacts DEF Alone, Happened
    <3>4. last # Apply(o)
      <4> SUFFICES ASSUME last = Apply(o) PROVE FALSE
        OBVIOUS
      <4>1. i < Len(landed)
        BY <3>1, <3>2, EffectFacts
      <4>2. Followed(Undo(o), Apply(o))
        BY <3>1, <3>2, <4>1 DEF Followed
      <4>3. QED
        BY <2>1, <2>4, <4>2 DEF OpInv, InFlightOpen
    <3>5. host = Result(Undo(o))
      BY <3>2, <3>3, <3>4 DEF MutInv, HostShowsLast
    <3>6. QED
      BY <3>5 DEF Result, Undo
  <2>5. QED
    BY <2>3, <2>4
<1>2. QED
  BY <1>1, Invariance, PTL

\* How far an operation has come, its recovery included.
Stage(p) ==
  (CASE p.pc = "idle" -> 0 [] p.pc = "pre" -> 1 [] p.pc = "apply" -> 3 [] p.pc = "post" -> 5
     [] p.pc = "receipt" -> 7 [] p.pc \in {"validated", "failed"} -> 8
     [] p.pc = "rollback" -> 9 [] p.pc \in {"recovered", "unrecovered"} -> 11)
  + (IF p.running THEN 1 ELSE 0)

\* Whatever the wrappers do, an operation only goes forward: no step is invoked again,
\* none waits for an earlier one, and a recovery is the last thing that happens to it.
OperationsGoForward ==
  [][\A o \in Operations : op'[o] = op[o] \/ Stage(op'[o]) > Stage(op[o])]_vars

LEMMA StageFacts ==
  ASSUME NEW p \in Progress, p.running => p.pc \in Steps
  PROVE  /\ p.pc = "idle" => Stage(p) = 0
         /\ p.pc = "pre" => Stage(p) = IF p.running THEN 2 ELSE 1
         /\ p.pc = "apply" => Stage(p) = IF p.running THEN 4 ELSE 3
         /\ p.pc = "post" => Stage(p) = IF p.running THEN 6 ELSE 5
         /\ p.pc = "receipt" => Stage(p) = 7
         /\ p.pc \in {"validated", "failed"} => Stage(p) = 8
         /\ p.pc = "rollback" => Stage(p) = IF p.running THEN 10 ELSE 9
         /\ p.pc \in {"recovered", "unrecovered"} => Stage(p) = 11
  BY DEF Stage, Steps

LEMMA FailedIsForward ==
  ASSUME NEW p \in Progress, p.pc \in Steps, NEW error \in Errors
  PROVE  Stage(Failed(p, error)) > Stage(p)
<1>1. /\ Failed(p, error) \in Progress /\ ~Failed(p, error).running
      /\ p.pc = "rollback" => Failed(p, error).pc = "unrecovered"
      /\ p.pc # "rollback" => Failed(p, error).pc = "failed"
  BY FailedFields
<1>2. QED
  BY <1>1, StageFacts DEF Steps

LEMMA SucceededIsForward ==
  ASSUME NEW p \in Progress, p.pc \in Steps, NEW report \in HostStates \cup {NoReport}
  PROVE  Stage(Succeeded(p, report)) > Stage(p)
<1>1. /\ Succeeded(p, report) \in Progress /\ ~Succeeded(p, report).running
      /\ p.pc = "pre" => Succeeded(p, report).pc = "apply"
      /\ p.pc = "apply" => Succeeded(p, report).pc = "post"
      /\ p.pc = "post" => Succeeded(p, report).pc = "receipt"
      /\ p.pc = "rollback" => Succeeded(p, report).pc = "recovered"
  BY SucceededFields
<1>2. QED
  BY <1>1, StageFacts DEF Steps

THEOREM OperationsNeverGoBack == Spec => OperationsGoForward
<1> DEFINE Forward(o) == op'[o] = op[o] \/ Stage(op'[o]) > Stage(op[o])
<1>1. ASSUME MutInv, [Next]_vars PROVE \A o \in Operations : Forward(o)
  <2>0. /\ op \in [Operations -> Progress] /\ host \in HostStates
        /\ \A o \in Operations : op[o] \in Progress /\ (op[o].running => op[o].pc \in Steps)
    BY <1>1 DEF MutInv, TypeOK
  <2>1. ASSUME NEW o \in Operations, NEW q, Set(o, q), Stage(q) > Stage(op[o])
        PROVE  \A x \in Operations : Forward(x)
    <3>1. \A x \in Operations : op'[x] = IF x = o THEN q ELSE op[x]
      BY <2>0, <2>1 DEF Set
    <3>2. QED
      BY <2>1, <3>1
  <2> HIDE DEF Forward
  <2>2. ASSUME NEW o \in Operations, NEW r \in BOOLEAN, Start(o, r)
        PROVE  \A x \in Operations : Forward(x)
    <3> DEFINE q == [Fresh(r) EXCEPT !.pc = "pre"]
    <3>1. Set(o, q) /\ op[o].pc = "idle"
      BY <2>2 DEF Start
    <3>2. q \in Progress /\ q.pc = "pre" /\ ~q.running
      BY DEF Fresh, Progress, Phases, Steps, Errors
    <3> HIDE DEF q
    <3>3. Stage(q) > Stage(op[o])
      BY <2>0, <3>1, <3>2, StageFacts DEF Steps
    <3>4. QED
      BY <2>1, <3>1, <3>3
  <2>3. ASSUME NEW o \in Operations, NEW d \in Defects, NEW m \in BOOLEAN, Invoke(o, d, m)
        PROVE  \A x \in Operations : Forward(x)
    <3> DEFINE q == [op[o] EXCEPT !.running = TRUE]
               refusal == Refusal(op[o].pc, d, op[o].readOnly, m)
    <3>1. op[o].pc \in Steps /\ ~op[o].running /\ (Set(o, q) \/ Set(o, Failed(op[o], refusal)))
      BY <2>3 DEF Invoke
    <3>2. refusal \in Errors
      BY <2>0, <3>1, RefusalType DEF Progress
    <3>3. q \in Progress /\ q.pc = op[o].pc /\ q.running
      BY <2>0 DEF Progress
    <3> HIDE DEF q, refusal
    <3>4. Stage(q) > Stage(op[o])
      BY <2>0, <3>1, <3>3, StageFacts DEF Steps
    <3>5. Stage(Failed(op[o], refusal)) > Stage(op[o])
      BY <2>0, <3>1, <3>2, FailedIsForward
    <3>6. QED
      BY <2>1, <3>1, <3>4, <3>5
  <2>4. ASSUME NEW o \in Operations, TimeOut(o) PROVE \A x \in Operations : Forward(x)
    BY <2>0, <2>1, <2>4, FailedIsForward DEF TimeOut, Errors
  <2>5. ASSUME NEW o \in Operations, NEW exit \in Exits, Exit(o, exit)
        PROVE  \A x \in Operations : Forward(x)
    <3>1. op[o].pc \in Steps
      BY <2>0, <2>5 DEF Exit
    <3>2. CASE \E report \in {host, NoReport} : Set(o, Succeeded(op[o], report))
      BY <2>0, <2>1, <3>1, <3>2, SucceededIsForward
    <3>3. CASE Set(o, Failed(op[o], ErrorClass(exit)))
      BY <2>0, <2>1, <3>1, <3>3, FailedIsForward, ErrorClassType
    <3>4. QED
      BY <2>5, <3>2, <3>3 DEF Exit
  <2>6. ASSUME NEW o \in Operations, Validate(o) PROVE \A x \in Operations : Forward(x)
    <3>1. op[o].pc = "receipt" /\ ~op[o].running
      BY <2>0, <2>6 DEF Validate, Steps
    <3> DEFINE v == [op[o] EXCEPT !.pc = "validated"]
               f == [op[o] EXCEPT !.pc = "failed", !.error = "validation_failed",
                                  !.failedAt = "validation"]
    <3>2. v \in Progress /\ v.pc = "validated" /\ ~v.running
      BY <2>0, <3>1 DEF Progress, Phases
    <3>3. f \in Progress /\ f.pc = "failed" /\ ~f.running
      BY <2>0, <3>1 DEF Progress, Phases, Errors
    <3>4. Set(o, v) \/ Set(o, f)
      BY <2>6 DEF Validate
    <3> HIDE DEF v, f
    <3>5. Stage(v) > Stage(op[o])
      BY <2>0, <3>1, <3>2, StageFacts
    <3>6. Stage(f) > Stage(op[o])
      BY <2>0, <3>1, <3>3, StageFacts
    <3>7. QED
      BY <2>1, <3>4, <3>5, <3>6
  <2>7. ASSUME NEW o \in Operations, RollBack(o) PROVE \A x \in Operations : Forward(x)
    <3>1. op[o].pc = "failed" /\ ~op[o].running
      BY <2>0, <2>7 DEF RollBack, Steps
    <3> DEFINE q == [op[o] EXCEPT !.pc = "rollback", !.readOnly = FALSE]
    <3>2. q \in Progress /\ q.pc = "rollback" /\ ~q.running
      BY <2>0, <3>1 DEF Progress, Phases, Steps
    <3>3. Set(o, q)
      BY <2>7 DEF RollBack
    <3> HIDE DEF q
    <3>4. Stage(q) > Stage(op[o])
      BY <2>0, <3>1, <3>2, StageFacts
    <3>5. QED
      BY <2>1, <3>3, <3>4
  <2>8. CASE UNCHANGED vars \/ \E e \in inFlight : Land(e)
    BY <2>8 DEF vars, Land, Forward
  <2>9. QED
    BY <1>1, <2>2, <2>3, <2>4, <2>5, <2>6, <2>7, <2>8 DEF Next, Proceed
<1>2. MutInv /\ [Next]_vars => [\A o \in Operations : Forward(o)]_vars
  BY <1>1
<1>3. QED
  BY <1>2, Invariance, PTL DEF Spec, OperationsGoForward
=============================================================================
