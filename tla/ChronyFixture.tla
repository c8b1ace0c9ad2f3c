--------------------------- MODULE ChronyFixture ----------------------------
(***************************************************************************)
(* The process-local fixture of the chrony connector: threads call         *)
(* ChronyNtpBackend objects, which share one registry under one lock       *)
(* (_FIXTURE_STATE, _FIXTURE_STATE_LOCK).  The registry holds an entry     *)
(* only where the state differs from the calling backend's configured      *)
(* default; a key without an entry reads as that default.                  *)
(***************************************************************************)
EXTENDS Integers, FiniteSets

CONSTANTS
  Threads,
  Backends,   \* the backend objects build_chrony_ntp_backend has made
  Targets,    \* request targets
  NameOf,     \* Backends -> connector name
  SubnetOf,   \* Backends -> normalized allowed_subnet
  DefaultOf,  \* Backends -> BOOLEAN: fixture_initially_applied
  AllowedOf,  \* Backends -> BOOLEAN: mutating_allowed
  Nobody,     \* the owner of a free lock
  MaxCalls    \* bound on the calls of a behaviour

\* _fixture_key
Key(b, t) == <<NameOf[b], t, SubnetOf[b]>>
Keys == {Key(b, t) : b \in Backends, t \in Targets}

ASSUME FixtureAssumption ==
  /\ Backends # {} /\ Targets # {}
  /\ DefaultOf \in [Backends -> BOOLEAN]
  /\ AllowedOf \in [Backends -> BOOLEAN]
  /\ Nobody \notin Threads
  /\ MaxCalls \in Nat

\* Backends that can reach the same entry agree on what a missing one means.
UniformDefaults ==
  \A a, b \in Backends : NameOf[a] = NameOf[b] /\ SubnetOf[a] = SubnetOf[b]
                           => DefaultOf[a] = DefaultOf[b]

VARIABLES
  registry, \* _FIXTURE_STATE: a function from some of Keys to BOOLEAN
  owner,    \* the thread inside `with _FIXTURE_STATE_LOCK`, or Nobody
  call,     \* Threads -> the invocation a thread is in
  net,      \* history: answers "changed" to apply less those to rollback, per key
  calls     \* invocations so far

vars == <<registry, owner, call, net, calls>>

Actions == {"read", "apply", "rollback"}

\* pc: outside; waiting for the lock; holding it before the lookup; before the
\* update; before leaving the with block; about to return.
Places == {"idle", "acquire", "lookup", "update", "release", "success", "denied"}

Calls == [pc : Places, backend : Backends, target : Targets, action : Actions,
          readOnly : BOOLEAN, before : BOOLEAN]

IdleCall == [pc |-> "idle", backend |-> CHOOSE b \in Backends : TRUE,
             target |-> CHOOSE t \in Targets : TRUE, action |-> "read",
             readOnly |-> FALSE, before |-> FALSE]

\* What the call stores, and the key it works on.
Wanted(th) == call[th].action = "apply"
KeyOf(th) == Key(call[th].backend, call[th].target)
DefaultFor(th) == DefaultOf[call[th].backend]

\* _FIXTURE_STATE.get(key, default)
Lookup(k, default) == IF k \in DOMAIN registry THEN registry[k] ELSE default

Pop(k) == [x \in DOMAIN registry \ {k} |-> registry[x]]
\* Mutant of Put: keyed by the target alone.
PutByTarget(k, on) ==
  [x \in DOMAIN registry \cup {k[2]} |-> IF x = k[2] THEN on ELSE registry[x]]

Put(k, on) == [x \in DOMAIN registry \cup {k} |-> IF x = k THEN on ELSE registry[x]]

Goto(th, place) == call' = [call EXCEPT ![th].pc = place]

-----------------------------------------------------------------------------
Init ==
  /\ registry = [k \in {} |-> FALSE]
  /\ owner = Nobody
  /\ call = [th \in Threads |-> IdleCall]
  /\ net = [k \in Keys |-> 0]
  /\ calls = 0

\* Mutant of Invoke: rollback is not refused in a read-only mode.
InvokeLeniently(th, b, t, action, readOnly) ==
  /\ call[th].pc = "idle"
  /\ calls < MaxCalls
  /\ calls' = calls + 1
  /\ call' = [call EXCEPT ![th] =
       [pc |-> IF action # "read" /\ ~AllowedOf[b] THEN "denied" ELSE "acquire",
        backend |-> b, target |-> t, action |-> action, readOnly |-> readOnly,
        before |-> FALSE]]
  /\ UNCHANGED <<registry, owner, net>>

\* invoke up to the lock: apply and rollback are refused in a read-only mode, then
\* without mutating_allowed; a read needs neither.
Invoke(th, b, t, action, readOnly) ==
  /\ call[th].pc = "idle"
  /\ calls < MaxCalls
  /\ calls' = calls + 1
  /\ call' = [call EXCEPT ![th] =
       [pc |-> IF action # "read" /\ (readOnly \/ ~AllowedOf[b]) THEN "denied" ELSE "acquire",
        backend |-> b, target |-> t, action |-> action, readOnly |-> readOnly,
        before |-> FALSE]]
  /\ UNCHANGED <<registry, owner, net>>

\* Mutant of Acquire: the transition is not guarded by the lock.
AcquireWithoutLock(th) ==
  /\ call[th].pc = "acquire"
  /\ owner' = th
  /\ Goto(th, "lookup")
  /\ UNCHANGED <<registry, net, calls>>

Acquire(th) ==
  /\ call[th].pc = "acquire"
  /\ owner = Nobody
  /\ owner' = th
  /\ Goto(th, "lookup")
  /\ UNCHANGED <<registry, net, calls>>

\* _fixture_applied
FixtureApplied(th) ==
  /\ call[th].pc = "lookup"
  /\ call' = [call EXCEPT ![th].pc = IF call[th].action = "read" THEN "release" ELSE "update",
                          ![th].before = Lookup(KeyOf(th), DefaultFor(th))]
  /\ UNCHANGED <<registry, owner, net, calls>>

\* Mutant of Update: an entry equal to the default is stored, not removed.
UpdateWithoutPop(th) ==
  /\ call[th].pc = "update"
  /\ registry' = Put(KeyOf(th), Wanted(th))
  /\ net' = IF call[th].before = Wanted(th) THEN net
            ELSE [net EXCEPT ![KeyOf(th)] = IF Wanted(th) THEN @ + 1 ELSE @ - 1]
  /\ Goto(th, "release")
  /\ UNCHANGED <<owner, calls>>

\* The pop or the assignment at the end of _transition_fixture_state.
Update(th) ==
  /\ call[th].pc = "update"
  /\ registry' = IF Wanted(th) = DefaultFor(th) THEN Pop(KeyOf(th))
                                                ELSE Put(KeyOf(th), Wanted(th))
  /\ net' = IF call[th].before = Wanted(th) THEN net
            ELSE [net EXCEPT ![KeyOf(th)] = IF Wanted(th) THEN @ + 1 ELSE @ - 1]
  /\ Goto(th, "release")
  /\ UNCHANGED <<owner, calls>>

\* Mutant of Release: a read returns from inside the with block without leaving it.
ReleaseUnlessRead(th) ==
  /\ call[th].pc = "release"
  /\ owner' = IF call[th].action = "read" THEN owner ELSE Nobody
  /\ Goto(th, "success")
  /\ UNCHANGED <<registry, net, calls>>

Release(th) ==
  /\ call[th].pc = "release"
  /\ owner' = Nobody
  /\ Goto(th, "success")
  /\ UNCHANGED <<registry, net, calls>>

\* The ConnectorResponse is returned: the state read, or the states before and
\* after with changed = before # after; or POLICY_DENIED.
Respond(th) ==
  /\ call[th].pc \in {"success", "denied"}
  /\ call' = [call EXCEPT ![th] = IdleCall]
  /\ UNCHANGED <<registry, owner, net, calls>>

\* _reset_fixture_state_registry, between tests.
ResetRegistry ==
  /\ owner = Nobody
  /\ registry' = [k \in {} |-> FALSE]
  /\ net' = [k \in Keys |-> 0]
  /\ UNCHANGED <<owner, call, calls>>

CallStep(th) == Acquire(th) \/ FixtureApplied(th) \/ Update(th) \/ Release(th) \/ Respond(th)

Next == \/ \E th \in Threads :
             \/ \E b \in Backends, t \in Targets, a \in Actions, ro \in BOOLEAN :
                  Invoke(th, b, t, a, ro)
             \/ CallStep(th)
        \/ ResetRegistry

Spec == Init /\ [][Next]_vars

\* A thread that is inside invoke is not stopped.
FairSpec == Spec /\ \A th \in Threads : WF_vars(CallStep(th))

-----------------------------------------------------------------------------
(***************************************************************************)
(* Properties.                                                             *)
(***************************************************************************)

\* Every variable keeps its type; the registry only ever holds fixture keys.
TypeOK ==
  /\ DOMAIN registry \subseteq Keys
  /\ \A k \in DOMAIN registry : registry[k] \in BOOLEAN
  /\ owner \in Threads \cup {Nobody}
  /\ call \in [Threads -> Calls]
  /\ net \in [Keys -> Int]
  /\ calls \in 0..MaxCalls

\* The default that the backends of a key have in common.
KeyDefault(k) == DefaultOf[CHOOSE b \in Backends : \E t \in Targets : Key(b, t) = k]
Effective(k) == Lookup(k, KeyDefault(k))

\* What a caller of the switch sees: the state of each key, and an answer from the
\* moment a thread is past its lookup and update until it returns.
Applied == [k \in Keys |-> Effective(k)]
AnswerOf(c) == IF c.pc \notin {"release", "success"} THEN [kind |-> "none"]
               ELSE IF c.action = "read" THEN [kind |-> "observed", state |-> c.before]
               ELSE [kind |-> "changed", before |-> c.before, after |-> c.action = "apply"]
Answer == [th \in Threads |-> AnswerOf(call[th])]

\* Calls of many threads through many backend objects behave as one switch per key,
\* turned and read at one instant each (_transition_fixture_state, _read_state).
Switch == INSTANCE ChronySwitch WITH
  Callers <- Threads,
  Default <- [k \in Keys |-> KeyDefault(k)],
  applied <- Applied,
  answer <- Answer
ImplementsSwitch == Switch!Spec

\* The "changed" answers add up: applies that changed the state, less rollbacks that
\* did, are the difference between the state and the configured default, so of
\* concurrent applies exactly one reports a change.
ChangesAddUp ==
  \A k \in Keys :
    net[k] = (IF Effective(k) THEN 1 ELSE 0) - (IF KeyDefault(k) THEN 1 ELSE 0)

\* Going back to the configured default leaves no entry behind, whichever backend
\* object went there (the pop of _transition_fixture_state).
NoRedundantEntry == \A k \in DOMAIN registry : registry[k] # KeyDefault(k)

\* A registry entry only changes for a call that was neither made in a read-only mode
\* nor without mutating_allowed, whatever was waiting for the lock meanwhile.
OnlyAllowedCallsMutate ==
  [][registry' # registry =>
       \/ ResetRegistry
       \/ \E th \in Threads : /\ owner = th
                              /\ call[th].action # "read"
                              /\ ~call[th].readOnly
                              /\ AllowedOf[call[th].backend]]_vars

\* Every invocation is answered: no path leaves the lock taken.
EveryCallAnswered == \A th \in Threads : call[th].pc # "idle" ~> call[th].pc = "idle"
=============================================================================
