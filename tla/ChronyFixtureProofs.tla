------------------------ MODULE ChronyFixtureProofs -------------------------
(***************************************************************************)
(* Proofs about ChronyFixture for every number of threads, backend objects *)
(* and targets.                                                            *)
(***************************************************************************)
EXTENDS ChronyFixture, TLAPS

\* Where a thread is inside the with block.
Inside == {"lookup", "update", "release"}

\* Only the owner of the lock is inside the with block.
LockHeld == \A th \in Threads : call[th].pc \in Inside => owner = th

\* What a thread has looked up is what it will find when it updates, and only
\* apply and rollback get to the update.
LookedUp == \A th \in Threads : call[th].pc = "update" =>
              /\ call[th].before = Lookup(KeyOf(th), DefaultFor(th))
              /\ call[th].action # "read"

\* A call past the policy checks passed them.
Vetted == \A th \in Threads :
            call[th].pc \in Inside \cup {"acquire"} /\ call[th].action # "read" =>
              ~call[th].readOnly /\ AllowedOf[call[th].backend]

LockInv == TypeOK /\ LockHeld /\ LookedUp /\ Vetted

-----------------------------------------------------------------------------
LEMMA KeyType == \A b \in Backends, t \in Targets : Key(b, t) \in Keys
  BY DEF Keys

LEMMA IdleType == IdleCall \in Calls
<1>1. (CHOOSE b \in Backends : TRUE) \in Backends
  BY FixtureAssumption
<1>2. (CHOOSE t \in Targets : TRUE) \in Targets
  BY FixtureAssumption
<1>3. QED
  BY <1>1, <1>2 DEF IdleCall, Calls, Places, Actions

\* The key, the wish and the default of a typed call.
LEMMA CallType ==
  ASSUME TypeOK, NEW th \in Threads
  PROVE  /\ KeyOf(th) \in Keys
         /\ Wanted(th) \in BOOLEAN
         /\ DefaultFor(th) \in BOOLEAN
         /\ Lookup(KeyOf(th), DefaultFor(th)) \in BOOLEAN
<1>1. call[th] \in Calls
  BY DEF TypeOK
<1>2. call[th].backend \in Backends /\ call[th].target \in Targets
  BY <1>1 DEF Calls
<1>3. KeyOf(th) \in Keys
  BY <1>2, KeyType DEF KeyOf
<1>4. DefaultFor(th) \in BOOLEAN
  BY <1>2, FixtureAssumption DEF DefaultFor
<1>5. Lookup(KeyOf(th), DefaultFor(th)) \in BOOLEAN
  BY <1>3, <1>4 DEF Lookup, TypeOK
<1>6. Wanted(th) \in BOOLEAN
  BY DEF Wanted
<1>7. QED
  BY <1>3, <1>4, <1>5, <1>6

\* The registry the update of a call leaves: entries of other keys as they were.
LEMMA RegistryAfter ==
  ASSUME TypeOK, NEW th \in Threads, Update(th)
  PROVE  /\ DOMAIN registry' \subseteq Keys
         /\ \A k \in DOMAIN registry' : registry'[k] \in BOOLEAN
         /\ \A k \in Keys \ {KeyOf(th)} :
              /\ k \in DOMAIN registry' <=> k \in DOMAIN registry
              /\ k \in DOMAIN registry => registry'[k] = registry[k]
         /\ KeyOf(th) \in DOMAIN registry' <=> Wanted(th) # DefaultFor(th)
         /\ KeyOf(th) \in DOMAIN registry' => registry'[KeyOf(th)] = Wanted(th)
<1>1. KeyOf(th) \in Keys /\ Wanted(th) \in BOOLEAN
  BY CallType
<1> DEFINE k0 == KeyOf(th)
           on == Wanted(th)
           same == Wanted(th) = DefaultFor(th)
<1>2. registry' = IF same THEN [x \in DOMAIN registry \ {k0} |-> registry[x]]
                  ELSE [x \in DOMAIN registry \cup {k0} |-> IF x = k0 THEN on ELSE registry[x]]
  BY DEF Update, Pop, Put
<1>3. k0 \in Keys /\ on \in BOOLEAN
  BY <1>1
<1> HIDE DEF k0, on, same
<1>4. /\ DOMAIN registry \subseteq Keys
      /\ \A k \in DOMAIN registry : registry[k] \in BOOLEAN
  BY DEF TypeOK
<1>5. CASE same
  <2>1. registry' = [x \in DOMAIN registry \ {k0} |-> registry[x]]
    BY <1>2, <1>5
  <2>2. QED
    BY <2>1, <1>4, <1>5 DEF k0, on, same
<1>6. CASE ~same
  <2>1. registry' = [x \in DOMAIN registry \cup {k0} |-> IF x = k0 THEN on ELSE registry[x]]
    BY <1>2, <1>6
  <2>2. /\ DOMAIN registry' = DOMAIN registry \cup {k0}
        /\ registry'[k0] = on
        /\ \A x \in DOMAIN registry \ {k0} : registry'[x] = registry[x]
    BY <2>1
  <2>3. QED
    BY <2>2, <1>3, <1>4, <1>6 DEF k0, on, same
<1>7. QED
  BY <1>5, <1>6

-----------------------------------------------------------------------------
(***************************************************************************)
(* The lock and the types.                                                 *)
(***************************************************************************)

LEMMA LockInit == Init => LockInv
<1>1. Init => TypeOK
  BY IdleType, FixtureAssumption DEF Init, TypeOK
<1>2. Init => LockHeld /\ LookedUp /\ Vetted
  BY DEF Init, IdleCall, LockHeld, LookedUp, Vetted, Inside
<1>3. QED
  BY <1>1, <1>2 DEF LockInv

\* What a step does to the thread that takes it, the others keeping theirs.
LEMMA OthersKeep ==
  ASSUME TypeOK, NEW th \in Threads, NEW v \in Calls, call' = [call EXCEPT ![th] = v]
  PROVE  /\ call' \in [Threads -> Calls]
         /\ call'[th] = v
         /\ \A s \in Threads \ {th} : call'[s] = call[s]
  BY DEF TypeOK

LEMMA InvokeKeepsLock ==
  ASSUME LockInv, NEW th \in Threads, NEW b \in Backends, NEW t \in Targets,
         NEW a \in Actions, NEW ro \in BOOLEAN, Invoke(th, b, t, a, ro)
  PROVE  LockInv'
<1> DEFINE place == IF a # "read" /\ (ro \/ ~AllowedOf[b]) THEN "denied" ELSE "acquire"
           v == [pc |-> place, backend |-> b, target |-> t, action |-> a,
                 readOnly |-> ro, before |-> FALSE]
<1>1. v \in Calls
  BY DEF Calls, Places
<1>2. call' = [call EXCEPT ![th] = v]
  BY DEF Invoke
<1>3. /\ v.pc \notin Inside /\ v.pc # "update"
      /\ v.pc = "acquire" /\ v.action # "read" => ~v.readOnly /\ AllowedOf[v.backend]
  BY DEF Inside
<1>4. UNCHANGED <<registry, owner, net>> /\ calls' = calls + 1 /\ calls < MaxCalls
  BY DEF Invoke
<1>5. calls' \in 0..MaxCalls
  BY <1>4, FixtureAssumption DEF LockInv, TypeOK
<1> HIDE DEF v
<1>6. /\ call' \in [Threads -> Calls] /\ call'[th] = v
      /\ \A s \in Threads \ {th} : call'[s] = call[s]
  BY <1>1, <1>2, OthersKeep DEF LockInv
<1>7. TypeOK'
  BY <1>4, <1>5, <1>6 DEF LockInv, TypeOK
<1>8. LockHeld'
  BY <1>3, <1>4, <1>6 DEF LockInv, LockHeld
<1>9. LookedUp'
  BY <1>3, <1>4, <1>6 DEF LockInv, LookedUp, Lookup, KeyOf, DefaultFor
<1>10. Vetted'
  BY <1>3, <1>6 DEF LockInv, Vetted
<1>11. QED
  BY <1>7, <1>8, <1>9, <1>10 DEF LockInv

LEMMA AcquireKeepsLock ==
  ASSUME LockInv, NEW th \in Threads, Acquire(th)
  PROVE  LockInv'
<1> DEFINE v == [call[th] EXCEPT !.pc = "lookup"]
<1>0. call[th] \in Calls /\ call[th].pc = "acquire"
  BY DEF LockInv, TypeOK, Acquire
<1>1. v \in Calls
  BY <1>0 DEF Calls, Places
<1>2. call' = [call EXCEPT ![th] = v]
  BY DEF Acquire, Goto, LockInv, TypeOK
<1>3. /\ v.pc = "lookup" /\ v.action = call[th].action
      /\ v.readOnly = call[th].readOnly /\ v.backend = call[th].backend
  BY <1>0 DEF Calls
<1>4. UNCHANGED <<registry, net, calls>> /\ owner = Nobody /\ owner' = th
  BY DEF Acquire
<1> HIDE DEF v
<1>5. /\ call' \in [Threads -> Calls] /\ call'[th] = v
      /\ \A s \in Threads \ {th} : call'[s] = call[s]
  BY <1>1, <1>2, OthersKeep DEF LockInv
<1>6. TypeOK'
  BY <1>4, <1>5 DEF LockInv, TypeOK
<1>7. \A s \in Threads : call[s].pc \notin Inside
  BY <1>4, FixtureAssumption DEF LockInv, LockHeld
<1>8. LockHeld'
  BY <1>4, <1>5, <1>7 DEF LockHeld
<1>9. LookedUp'
  BY <1>3, <1>5, <1>7 DEF LookedUp, Inside
<1>10. Vetted'
  BY <1>0, <1>3, <1>5 DEF LockInv, Vetted, Inside
<1>11. QED
  BY <1>6, <1>8, <1>9, <1>10 DEF LockInv

LEMMA FixtureAppliedKeepsLock ==
  ASSUME LockInv, NEW th \in Threads, FixtureApplied(th)
  PROVE  LockInv'
<1> DEFINE found == Lookup(KeyOf(th), DefaultFor(th))
           place == IF call[th].action = "read" THEN "release" ELSE "update"
           v == [call[th] EXCEPT !.pc = place, !.before = found]
<1>0. call[th] \in Calls /\ call[th].pc = "lookup" /\ owner = th
  BY DEF LockInv, TypeOK, LockHeld, Inside, FixtureApplied
<1>1. found \in BOOLEAN /\ place \in Places
  BY CallType DEF LockInv, Places
<1>2. call' = [call EXCEPT ![th] = v]
  BY DEF FixtureApplied, LockInv, TypeOK
<1>3. place = "release" \/ (place = "update" /\ call[th].action # "read")
  OBVIOUS
<1>4. UNCHANGED <<registry, owner, net, calls>>
  BY DEF FixtureApplied
<1> HIDE DEF found, place
<1>5. v \in Calls
  BY <1>0, <1>1 DEF Calls
<1>6. /\ v.pc = place /\ v.before = found /\ v.action = call[th].action
      /\ v.readOnly = call[th].readOnly /\ v.backend = call[th].backend
      /\ v.target = call[th].target
  BY <1>0 DEF Calls
<1> HIDE DEF v
<1>7. /\ call' \in [Threads -> Calls] /\ call'[th] = v
      /\ \A s \in Threads \ {th} : call'[s] = call[s]
  BY <1>2, <1>5, OthersKeep DEF LockInv
<1>8. TypeOK'
  BY <1>4, <1>7 DEF LockInv, TypeOK
<1>9. LockHeld'
  BY <1>0, <1>4, <1>7 DEF LockInv, LockHeld
<1>10. LookedUp'
  <2>1. \A s \in Threads \ {th} : call[s].pc # "update"
    BY <1>0 DEF LockInv, LockHeld, Inside
  <2>2. Lookup(KeyOf(th), DefaultFor(th))' = found
    BY <1>4, <1>6, <1>7 DEF Lookup, KeyOf, DefaultFor, found
  <2>3. QED
    BY <2>1, <2>2, <1>3, <1>6, <1>7 DEF LookedUp
<1>11. Vetted'
  BY <1>0, <1>6, <1>7 DEF LockInv, Vetted, Inside
<1>12. QED
  BY <1>8, <1>9, <1>10, <1>11 DEF LockInv

LEMMA NetType ==
  ASSUME TypeOK, NEW th \in Threads, Update(th)
  PROVE  /\ net' \in [Keys -> Int]
         /\ \A k \in Keys \ {KeyOf(th)} : net'[k] = net[k]
         /\ net'[KeyOf(th)] = IF call[th].before = Wanted(th) THEN net[KeyOf(th)]
                              ELSE IF Wanted(th) THEN net[KeyOf(th)] + 1
                              ELSE net[KeyOf(th)] - 1
<1> DEFINE k0 == KeyOf(th)
           step == IF Wanted(th) THEN net[k0] + 1 ELSE net[k0] - 1
<1>1. k0 \in Keys /\ net \in [Keys -> Int]
  BY CallType DEF TypeOK
<1>2. net' = IF call[th].before = Wanted(th) THEN net ELSE [net EXCEPT ![k0] = step]
  BY DEF Update
<1> HIDE DEF k0
<1>3. step \in Int
  BY <1>1
<1>4. QED
  BY <1>1, <1>2, <1>3 DEF k0

LEMMA UpdateKeepsLock ==
  ASSUME LockInv, NEW th \in Threads, Update(th)
  PROVE  LockInv'
<1> DEFINE v == [call[th] EXCEPT !.pc = "release"]
<1>0. call[th] \in Calls /\ call[th].pc = "update" /\ owner = th
  BY DEF LockInv, TypeOK, LockHeld, Inside, Update
<1>1. call' = [call EXCEPT ![th] = v]
  BY DEF Update, Goto, LockInv, TypeOK
<1>2. UNCHANGED <<owner, calls>>
  BY DEF Update
<1>3. /\ v \in Calls /\ v.pc = "release" /\ v.action = call[th].action
      /\ v.readOnly = call[th].readOnly /\ v.backend = call[th].backend
  BY <1>0 DEF Calls, Places
<1> HIDE DEF v
<1>4. /\ call' \in [Threads -> Calls] /\ call'[th] = v
      /\ \A s \in Threads \ {th} : call'[s] = call[s]
  BY <1>1, <1>3, OthersKeep DEF LockInv
<1>5. TypeOK'
  BY <1>2, <1>4, RegistryAfter, NetType DEF LockInv, TypeOK
<1>6. LockHeld'
  BY <1>0, <1>2, <1>4 DEF LockInv, LockHeld
<1>7. LookedUp'
  <2>1. \A s \in Threads \ {th} : call[s].pc # "update"
    BY <1>0 DEF LockInv, LockHeld, Inside
  <2>2. QED
    BY <2>1, <1>3, <1>4 DEF LookedUp
<1>8. Vetted'
  BY <1>0, <1>3, <1>4 DEF LockInv, Vetted, Inside
<1>9. QED
  BY <1>5, <1>6, <1>7, <1>8 DEF LockInv

LEMMA ReleaseKeepsLock ==
  ASSUME LockInv, NEW th \in Threads, Release(th)
  PROVE  LockInv'
<1> DEFINE v == [call[th] EXCEPT !.pc = "success"]
<1>0. call[th] \in Calls /\ owner = th
  BY DEF LockInv, TypeOK, LockHeld, Inside, Release
<1>1. call' = [call EXCEPT ![th] = v]
  BY DEF Release, Goto, LockInv, TypeOK
<1>2. UNCHANGED <<registry, net, calls>> /\ owner' = Nobody
  BY DEF Release
<1>3. v \in Calls /\ v.pc = "success"
  BY <1>0 DEF Calls, Places
<1> HIDE DEF v
<1>4. /\ call' \in [Threads -> Calls] /\ call'[th] = v
      /\ \A s \in Threads \ {th} : call'[s] = call[s]
  BY <1>1, <1>3, OthersKeep DEF LockInv
<1>5. TypeOK'
  BY <1>2, <1>4 DEF LockInv, TypeOK
<1>6. \A s \in Threads \ {th} : call[s].pc \notin Inside
  BY <1>0 DEF LockInv, LockHeld
<1>7. LockHeld' /\ LookedUp'
  BY <1>3, <1>4, <1>6 DEF LockHeld, LookedUp, Inside
<1>8. Vetted'
  BY <1>3, <1>4 DEF LockInv, Vetted, Inside
<1>9. QED
  BY <1>5, <1>7, <1>8 DEF LockInv

LEMMA RespondKeepsLock ==
  ASSUME LockInv, NEW th \in Threads, Respond(th)
  PROVE  LockInv'
<1>1. /\ call' = [call EXCEPT ![th] = IdleCall]
      /\ UNCHANGED <<registry, owner, net, calls>>
  BY DEF Respond
<1>2. IdleCall \in Calls /\ IdleCall.pc = "idle"
  BY IdleType DEF IdleCall
<1>3. /\ call' \in [Threads -> Calls] /\ call'[th] = IdleCall
      /\ \A s \in Threads \ {th} : call'[s] = call[s]
  BY <1>1, <1>2, OthersKeep DEF LockInv
<1>4. TypeOK'
  BY <1>1, <1>3 DEF LockInv, TypeOK
<1>5. LockHeld' /\ Vetted'
  BY <1>1, <1>2, <1>3 DEF LockInv, LockHeld, Vetted, Inside
<1>6. LookedUp'
  BY <1>1, <1>2, <1>3 DEF LockInv, LookedUp, Lookup, KeyOf, DefaultFor
<1>7. QED
  BY <1>4, <1>5, <1>6 DEF LockInv

LEMMA ResetKeepsLock ==
  ASSUME LockInv, ResetRegistry
  PROVE  LockInv'
<1>1. \A s \in Threads : call[s].pc \notin Inside
  BY FixtureAssumption DEF LockInv, LockHeld, ResetRegistry
<1>2. TypeOK'
  BY DEF LockInv, TypeOK, ResetRegistry
<1>3. LockHeld' /\ LookedUp' /\ Vetted'
  BY <1>1 DEF LockInv, LockHeld, LookedUp, Vetted, Inside, ResetRegistry
<1>4. QED
  BY <1>2, <1>3 DEF LockInv

LEMMA LockStep == LockInv /\ [Next]_vars => LockInv'
<1> SUFFICES ASSUME LockInv, [Next]_vars PROVE LockInv'
  OBVIOUS
<1>1. ASSUME NEW th \in Threads, NEW b \in Backends, NEW t \in Targets,
             NEW a \in Actions, NEW ro \in BOOLEAN, Invoke(th, b, t, a, ro)
      PROVE  LockInv'
  BY <1>1, InvokeKeepsLock
<1>2. ASSUME NEW th \in Threads, CallStep(th)
      PROVE  LockInv'
  BY <1>2, AcquireKeepsLock, FixtureAppliedKeepsLock, UpdateKeepsLock, ReleaseKeepsLock,
     RespondKeepsLock DEF CallStep
<1>3. CASE ResetRegistry
  BY <1>3, ResetKeepsLock
<1>4. CASE UNCHANGED vars
  BY <1>4 DEF vars, LockInv, TypeOK, LockHeld, LookedUp, Vetted, Lookup, KeyOf, DefaultFor
<1>5. QED
  BY <1>1, <1>2, <1>3, <1>4 DEF Next

LEMMA LockHolds == Spec => []LockInv
<1>1. QED
  BY LockInit, LockStep, PTL DEF Spec

\* Every variable keeps its type, whatever the threads do (TypeOK).
THEOREM TypeCorrect == Spec => []TypeOK
<1>1. LockInv => TypeOK
  BY DEF LockInv
<1>2. QED
  BY <1>1, LockHolds, PTL

\* The registry only changes for a call that passed the policy checks, however
\* long it waited for the lock after them (_apply, _rollback).
THEOREM MutationsAllowed == Spec => OnlyAllowedCallsMutate
<1> DEFINE Allowed == \/ ResetRegistry
                      \/ \E th \in Threads : /\ owner = th
                                             /\ call[th].action # "read"
                                             /\ ~call[th].readOnly
                                             /\ AllowedOf[call[th].backend]
<1>1. ASSUME LockInv, [Next]_vars PROVE [registry' # registry => Allowed]_vars
  <2>1. ASSUME NEW th \in Threads, NEW b \in Backends, NEW t \in Targets,
               NEW a \in Actions, NEW ro \in BOOLEAN, Invoke(th, b, t, a, ro)
        PROVE  registry' = registry
    BY <2>1 DEF Invoke
  <2>2. ASSUME NEW th \in Threads, CallStep(th) PROVE registry' # registry => Allowed
    <3>1. Update(th) => Allowed
      BY <1>1, <2>2 DEF LockInv, LockHeld, LookedUp, Vetted, Inside, Update
    <3>2. QED
      BY <2>2, <3>1 DEF CallStep, Acquire, FixtureApplied, Release, Respond
  <2>3. ASSUME ResetRegistry PROVE Allowed
    BY <2>3
  <2>4. QED
    BY <1>1, <2>1, <2>2, <2>3 DEF Next, vars
<1>2. QED
  BY <1>1, LockHolds, PTL DEF Spec, OnlyAllowedCallsMutate

-----------------------------------------------------------------------------
(***************************************************************************)
(* One default per key.  Without UniformDefaults none of this holds: two   *)
(* backends would read a missing entry differently.                        *)
(***************************************************************************)

LEMMA DefaultOfKey ==
  ASSUME UniformDefaults, NEW b \in Backends, NEW t \in Targets
  PROVE  KeyDefault(Key(b, t)) = DefaultOf[b]
<1> DEFINE c == CHOOSE x \in Backends : \E u \in Targets : Key(x, u) = Key(b, t)
<1>1. c \in Backends /\ \E u \in Targets : Key(c, u) = Key(b, t)
  OBVIOUS
<1>2. KeyDefault(Key(b, t)) = DefaultOf[c]
  BY DEF KeyDefault
<1> HIDE DEF c
<1>3. NameOf[c] = NameOf[b] /\ SubnetOf[c] = SubnetOf[b]
  BY <1>1 DEF Key
<1>4. QED
  BY <1>1, <1>2, <1>3 DEF UniformDefaults

LEMMA KeyDefaultType ==
  ASSUME UniformDefaults, NEW k \in Keys
  PROVE  KeyDefault(k) \in BOOLEAN
  BY DefaultOfKey, FixtureAssumption DEF Keys

\* What a thread looks up is the effective state of its key.
LEMMA LooksUpEffective ==
  ASSUME UniformDefaults, TypeOK, NEW th \in Threads
  PROVE  /\ DefaultFor(th) = KeyDefault(KeyOf(th))
         /\ Lookup(KeyOf(th), DefaultFor(th)) = Effective(KeyOf(th))
<1>1. call[th].backend \in Backends /\ call[th].target \in Targets
  BY DEF TypeOK, Calls
<1>2. DefaultFor(th) = KeyDefault(KeyOf(th))
  BY <1>1, DefaultOfKey DEF DefaultFor, KeyOf
<1>3. QED
  BY <1>2 DEF Effective

\* The update of a call sets the effective state of its key and of no other.
LEMMA EffectiveAfter ==
  ASSUME UniformDefaults, TypeOK, NEW th \in Threads, Update(th), NEW k \in Keys
  PROVE  Effective(k)' = IF k = KeyOf(th) THEN Wanted(th) ELSE Effective(k)
<1>1. DefaultFor(th) = KeyDefault(KeyOf(th))
  BY LooksUpEffective
<1>2. CASE k = KeyOf(th)
  <2>1. /\ k \in DOMAIN registry' <=> Wanted(th) # KeyDefault(k)
        /\ k \in DOMAIN registry' => registry'[k] = Wanted(th)
    BY <1>1, <1>2, RegistryAfter
  <2>2. QED
    BY <1>2, <2>1 DEF Effective, Lookup, KeyDefault
<1>3. CASE k # KeyOf(th)
  <2>1. /\ k \in DOMAIN registry' <=> k \in DOMAIN registry
        /\ k \in DOMAIN registry => registry'[k] = registry[k]
    BY <1>3, RegistryAfter
  <2>2. QED
    BY <1>3, <2>1 DEF Effective, Lookup, KeyDefault
<1>4. QED
  BY <1>2, <1>3

\* A step that leaves the registry alone leaves every effective state alone.
LEMMA EffectiveKept ==
  ASSUME UNCHANGED registry, NEW k
  PROVE  Effective(k)' = Effective(k)
  BY DEF Effective, Lookup, KeyDefault

-----------------------------------------------------------------------------
(***************************************************************************)
(* No redundant entry, and answers that add up.                            *)
(***************************************************************************)

\* The steps that change the registry or the account, and what the others keep.
LEMMA RegistryMoves ==
  ASSUME [Next]_vars
  PROVE  \/ \E th \in Threads : Update(th)
         \/ ResetRegistry
         \/ UNCHANGED <<registry, net>>
<1>1. CASE Next
  BY <1>1 DEF Next, CallStep, Invoke, Acquire, FixtureApplied, Release, Respond
<1>2. CASE UNCHANGED vars
  BY <1>2 DEF vars
<1>3. QED
  BY <1>1, <1>2

SwitchInv == LockInv /\ NoRedundantEntry /\ ChangesAddUp

LEMMA SwitchInit == ASSUME UniformDefaults PROVE Init => SwitchInv
<1> SUFFICES ASSUME Init PROVE SwitchInv
  OBVIOUS
<1>1. NoRedundantEntry
  BY DEF Init, NoRedundantEntry
<1>2. ASSUME NEW k \in Keys
      PROVE  net[k] = (IF Effective(k) THEN 1 ELSE 0) - (IF KeyDefault(k) THEN 1 ELSE 0)
  <2>1. Effective(k) = KeyDefault(k) /\ net[k] = 0
    BY DEF Init, Effective, Lookup
  <2>2. QED
    BY <2>1
<1>3. QED
  BY <1>1, <1>2, LockInit DEF SwitchInv, ChangesAddUp

\* An account d below the state e, charged for a change to the state w.
LEMMA AccountStep ==
  ASSUME NEW d \in Int, NEW e \in BOOLEAN, NEW w \in BOOLEAN, NEW n, NEW m,
         n = (IF e THEN 1 ELSE 0) - d,
         m = IF e = w THEN n ELSE IF w THEN n + 1 ELSE n - 1
  PROVE  m = (IF w THEN 1 ELSE 0) - d
<1>1. CASE e = w
  BY <1>1
<1>2. CASE w /\ ~e
  <2>1. n = 0 - d /\ m = n + 1
    BY <1>2
  <2>2. m = 1 - d
    BY <2>1
  <2>3. QED
    BY <1>2, <2>2
<1>3. CASE ~w /\ e
  <2>1. n = 1 - d /\ m = n - 1
    BY <1>3
  <2>2. m = 0 - d
    BY <2>1
  <2>3. QED
    BY <1>3, <2>2
<1>4. QED
  BY <1>1, <1>2, <1>3

LEMMA UpdateKeepsAccount ==
  ASSUME UniformDefaults, SwitchInv, NEW th \in Threads, Update(th)
  PROVE  NoRedundantEntry' /\ ChangesAddUp'
<1>0. TypeOK /\ KeyOf(th) \in Keys /\ Wanted(th) \in BOOLEAN
  BY CallType DEF SwitchInv, LockInv
<1>1. DefaultFor(th) = KeyDefault(KeyOf(th))
  BY <1>0, LooksUpEffective
<1>2. ASSUME NEW k \in DOMAIN registry' PROVE registry'[k] # KeyDefault(k)
  BY <1>0, <1>1, <1>2, RegistryAfter DEF SwitchInv, NoRedundantEntry
<1>3. NoRedundantEntry'
  BY <1>2 DEF NoRedundantEntry, KeyDefault
<1>4. call[th].before = Effective(KeyOf(th))
  BY <1>0, LooksUpEffective DEF SwitchInv, LockInv, LookedUp, Update
<1>5. ASSUME NEW k \in Keys
      PROVE  net'[k] = (IF Effective(k)' THEN 1 ELSE 0) - (IF KeyDefault(k) THEN 1 ELSE 0)
  <2> DEFINE d == IF KeyDefault(k) THEN 1 ELSE 0
  <2>1. Effective(k)' = IF k = KeyOf(th) THEN Wanted(th) ELSE Effective(k)
    BY <1>0, EffectiveAfter
  <2>2. net[k] = (IF Effective(k) THEN 1 ELSE 0) - d
    BY DEF SwitchInv, ChangesAddUp
  <2>3. d \in Int
    OBVIOUS
  <2> HIDE DEF d
  <2>4. CASE k # KeyOf(th)
    <3>1. net'[k] = net[k]
      BY <1>0, <2>4, NetType
    <3>2. net'[k] = (IF Effective(k)' THEN 1 ELSE 0) - d
      BY <2>1, <2>2, <2>4, <3>1
    <3>3. QED
      BY <3>2 DEF d
  <2>5. CASE k = KeyOf(th)
    <3>1. net'[k] = IF Effective(k) = Wanted(th) THEN net[k]
                    ELSE IF Wanted(th) THEN net[k] + 1 ELSE net[k] - 1
      BY <1>0, <1>4, <2>5, NetType
    <3>2. Effective(k)' = Wanted(th)
      BY <2>1, <2>5
    <3>3. Effective(k) \in BOOLEAN
      BY <1>0, <2>5, CallType, LooksUpEffective
    <3>4. net'[k] = (IF Wanted(th) THEN 1 ELSE 0) - d
      <4> DEFINE e == Effective(k)
                 w == Wanted(th)
      <4>1. e \in BOOLEAN /\ w \in BOOLEAN
        BY <1>0, <3>3
      <4>2. net[k] = (IF e THEN 1 ELSE 0) - d /\ net'[k] = IF e = w THEN net[k]
                                             ELSE IF w THEN net[k] + 1 ELSE net[k] - 1
        BY <2>2, <3>1
      <4> HIDE DEF e, w
      <4>3. net'[k] = (IF w THEN 1 ELSE 0) - d
        BY <2>3, <4>1, <4>2, AccountStep
      <4>4. QED
        BY <4>3 DEF w
    <3>5. net'[k] = (IF Effective(k)' THEN 1 ELSE 0) - d
      BY <3>2, <3>4
    <3>6. QED
      BY <3>5 DEF d
  <2>6. QED
    BY <2>4, <2>5
<1>6. ChangesAddUp'
  BY <1>5 DEF ChangesAddUp, KeyDefault
<1>7. QED
  BY <1>3, <1>6

LEMMA SwitchStep == ASSUME UniformDefaults PROVE SwitchInv /\ [Next]_vars => SwitchInv'
<1> SUFFICES ASSUME SwitchInv, [Next]_vars PROVE SwitchInv'
  OBVIOUS
<1>1. LockInv'
  BY LockStep DEF SwitchInv
<1>2. ASSUME NEW th \in Threads, Update(th) PROVE SwitchInv'
  BY <1>1, <1>2, UpdateKeepsAccount DEF SwitchInv
<1>3. CASE ResetRegistry
  <2>1. registry' = [k \in {} |-> FALSE] /\ net' = [k \in Keys |-> 0]
    BY <1>3 DEF ResetRegistry
  <2>2. NoRedundantEntry'
    BY <2>1 DEF NoRedundantEntry
  <2>3. ASSUME NEW k \in Keys
        PROVE  net'[k] = (IF Effective(k)' THEN 1 ELSE 0) - (IF KeyDefault(k) THEN 1 ELSE 0)
    <3>1. Effective(k)' = KeyDefault(k) /\ net'[k] = 0
      BY <2>1 DEF Effective, Lookup, KeyDefault
    <3>2. QED
      BY <3>1
  <2>4. QED
    BY <1>1, <2>2, <2>3 DEF SwitchInv, ChangesAddUp, KeyDefault
<1>4. CASE UNCHANGED <<registry, net>>
  <2>1. NoRedundantEntry'
    BY <1>4 DEF SwitchInv, NoRedundantEntry, KeyDefault
  <2>2. ChangesAddUp'
    BY <1>4 DEF SwitchInv, ChangesAddUp, Effective, Lookup, KeyDefault
  <2>3. QED
    BY <1>1, <2>1, <2>2 DEF SwitchInv
<1>5. QED
  BY <1>2, <1>3, <1>4, RegistryMoves

LEMMA SwitchHolds == ASSUME UniformDefaults PROVE Spec => []SwitchInv
<1>1. QED
  BY SwitchInit, SwitchStep, PTL DEF Spec

\* When the backends of a key share one default, no entry is ever equal to it
\* (the pop of _transition_fixture_state).
THEOREM NoEntryIsRedundant == ASSUME UniformDefaults PROVE Spec => []NoRedundantEntry
<1>1. SwitchInv => NoRedundantEntry
  BY DEF SwitchInv
<1>2. QED
  BY <1>1, SwitchHolds, PTL

\* When the backends of a key share one default, the changes reported to any number
\* of concurrent callers add up to the state (before # after in _apply, _rollback).
THEOREM ReportedChangesAddUp == ASSUME UniformDefaults PROVE Spec => []ChangesAddUp
<1>1. SwitchInv => ChangesAddUp
  BY DEF SwitchInv
<1>2. QED
  BY <1>1, SwitchHolds, PTL

-----------------------------------------------------------------------------
(***************************************************************************)
(* The fixture implements the atomic switch.                               *)
(***************************************************************************)

LEMMA AnswerKept ==
  ASSUME NEW th \in Threads, \A s \in Threads \ {th} : call'[s] = call[s],
         AnswerOf(call'[th]) = AnswerOf(call[th])
  PROVE  Answer' = Answer
<1>1. \A s \in Threads : AnswerOf(call'[s]) = AnswerOf(call[s])
  OBVIOUS
<1>2. QED
  BY <1>1 DEF Answer

LEMMA AnswerMoves ==
  ASSUME NEW th \in Threads, \A s \in Threads \ {th} : call'[s] = call[s]
  PROVE  Answer' = [Answer EXCEPT ![th] = AnswerOf(call'[th])]
<1>1. \A s \in Threads \ {th} : AnswerOf(call'[s]) = AnswerOf(call[s])
  OBVIOUS
<1>2. QED
  BY <1>1 DEF Answer

LEMMA AppliedKept == ASSUME UNCHANGED registry PROVE Applied' = Applied
  BY EffectiveKept DEF Applied

\* What the steps of a call do to the thread that takes them.
LEMMA CallMoves ==
  ASSUME TypeOK, NEW th \in Threads
  PROVE  /\ Acquire(th) => /\ call[th].pc = "acquire"
                           /\ call'[th] = [call[th] EXCEPT !.pc = "lookup"]
                           /\ \A s \in Threads \ {th} : call'[s] = call[s]
         /\ Update(th) => /\ call[th].pc = "update"
                          /\ call'[th] = [call[th] EXCEPT !.pc = "release"]
                          /\ \A s \in Threads \ {th} : call'[s] = call[s]
         /\ Release(th) => /\ call[th].pc = "release"
                           /\ call'[th] = [call[th] EXCEPT !.pc = "success"]
                           /\ \A s \in Threads \ {th} : call'[s] = call[s]
  BY DEF TypeOK, Acquire, Update, Release, Goto

LEMMA QuietStep ==
  ASSUME UNCHANGED registry, NEW th \in Threads, \A s \in Threads \ {th} : call'[s] = call[s],
         AnswerOf(call'[th]) = AnswerOf(call[th])
  PROVE  UNCHANGED <<Applied, Answer>>
  BY AnswerKept, AppliedKept

LEMMA SwitchInvoke ==
  ASSUME LockInv, NEW th \in Threads, NEW b \in Backends, NEW t \in Targets,
         NEW a \in Actions, NEW ro \in BOOLEAN, Invoke(th, b, t, a, ro)
  PROVE  UNCHANGED <<Applied, Answer>>
<1>1. /\ call[th].pc = "idle" /\ call'[th].pc \in {"denied", "acquire"}
      /\ \A s \in Threads \ {th} : call'[s] = call[s]
  BY DEF LockInv, TypeOK, Invoke
<1>2. UNCHANGED registry
  BY DEF Invoke
<1>3. AnswerOf(call'[th]) = AnswerOf(call[th])
  BY <1>1 DEF AnswerOf
<1>4. QED
  BY <1>1, <1>2, <1>3, QuietStep

LEMMA SwitchAcquireRelease ==
  ASSUME LockInv, NEW th \in Threads, Acquire(th) \/ Release(th)
  PROVE  UNCHANGED <<Applied, Answer>>
<1>0. call[th] \in Calls
  BY DEF LockInv, TypeOK
<1>1. /\ \A s \in Threads \ {th} : call'[s] = call[s]
      /\ \/ call[th].pc = "acquire" /\ call'[th] = [call[th] EXCEPT !.pc = "lookup"]
         \/ call[th].pc = "release" /\ call'[th] = [call[th] EXCEPT !.pc = "success"]
  BY CallMoves DEF LockInv
<1>2. UNCHANGED registry
  BY DEF Acquire, Release
<1>3. AnswerOf(call'[th]) = AnswerOf(call[th])
  BY <1>0, <1>1 DEF AnswerOf, Calls
<1>4. QED
  BY <1>1, <1>2, <1>3, QuietStep

\* A read is answered at its lookup; apply and rollback are not answered yet.
LEMMA SwitchLookup ==
  ASSUME UniformDefaults, LockInv, NEW th \in Threads, FixtureApplied(th)
  PROVE  [Switch!Next]_<<Applied, Answer>>
<1> DEFINE found == Lookup(KeyOf(th), DefaultFor(th))
           place == IF call[th].action = "read" THEN "release" ELSE "update"
<1>0. call[th] \in Calls /\ call[th].pc = "lookup" /\ KeyOf(th) \in Keys /\ TypeOK
  BY CallType DEF LockInv, TypeOK, FixtureApplied
<1>1. /\ call'[th] = [call[th] EXCEPT !.pc = place, !.before = found]
      /\ \A s \in Threads \ {th} : call'[s] = call[s]
  BY <1>0 DEF TypeOK, FixtureApplied
<1>2. UNCHANGED registry
  BY DEF FixtureApplied
<1>3. found = Applied[KeyOf(th)]
  BY <1>0, LooksUpEffective DEF Applied
<1> HIDE DEF found
<1>4. Answer[th] = [kind |-> "none"]
  BY <1>0 DEF Answer, AnswerOf
<1>5. CASE call[th].action = "read"
  <2>1. AnswerOf(call'[th]) = [kind |-> "observed", state |-> found]
    BY <1>0, <1>1, <1>5 DEF AnswerOf, Calls
  <2>2. Switch!Read(th, KeyOf(th))
    BY <1>1, <1>2, <1>3, <1>4, <2>1, AnswerMoves, AppliedKept
    DEF Switch!Read, Switch!NoAnswer, Switch!Observed
  <2>3. QED
    BY <1>0, <2>2 DEF Switch!Next
<1>6. CASE call[th].action # "read"
  <2>1. AnswerOf(call'[th]) = AnswerOf(call[th])
    BY <1>0, <1>1, <1>6 DEF AnswerOf, Calls
  <2>2. QED
    BY <1>1, <1>2, <2>1, QuietStep
<1>7. QED
  BY <1>5, <1>6

\* The update turns the switch and answers with what was looked up before it.
LEMMA SwitchUpdate ==
  ASSUME UniformDefaults, LockInv, NEW th \in Threads, Update(th)
  PROVE  \E k \in Keys, on \in BOOLEAN : Switch!Turn(th, k, on)
<1> DEFINE k0 == KeyOf(th)
           on == Wanted(th)
<1>0. /\ call[th] \in Calls /\ call[th].pc = "update" /\ call[th].action # "read" /\ TypeOK
      /\ call[th].before = Lookup(KeyOf(th), DefaultFor(th))
  BY DEF LockInv, TypeOK, LookedUp, Update
<1>1. /\ call'[th] = [call[th] EXCEPT !.pc = "release"]
      /\ \A s \in Threads \ {th} : call'[s] = call[s]
  BY <1>0, CallMoves
<1>2. k0 \in Keys /\ on \in BOOLEAN
  BY <1>0, CallType
<1>3. call[th].before = Applied[k0]
  BY <1>0, <1>2, LooksUpEffective DEF Applied
<1>4. Answer[th] = [kind |-> "none"]
  BY <1>0 DEF Answer, AnswerOf
<1>5. AnswerOf(call'[th]) = [kind |-> "changed", before |-> Applied[k0], after |-> on]
  BY <1>0, <1>1, <1>3 DEF AnswerOf, Calls, Wanted
<1>6. Applied' = [Applied EXCEPT ![k0] = on]
  <2>1. \A k \in Keys : Effective(k)' = IF k = k0 THEN on ELSE Effective(k)
    BY <1>0, EffectiveAfter
  <2> HIDE DEF k0, on
  <2>2. QED
    BY <1>2, <2>1 DEF Applied
<1>7. Answer' = [Answer EXCEPT ![th] = AnswerOf(call'[th])]
  BY <1>1, AnswerMoves
<1> HIDE DEF k0, on
<1>8. Switch!Turn(th, k0, on)
  BY <1>4, <1>5, <1>6, <1>7 DEF Switch!Turn, Switch!NoAnswer, Switch!Changed
<1>9. QED
  BY <1>2, <1>8

LEMMA SwitchRespond ==
  ASSUME LockInv, NEW th \in Threads, Respond(th)
  PROVE  Switch!PickUp(th) \/ UNCHANGED <<Applied, Answer>>
<1>1. /\ call[th].pc \in {"success", "denied"} /\ call'[th] = IdleCall
      /\ \A s \in Threads \ {th} : call'[s] = call[s]
      /\ UNCHANGED registry
  BY DEF LockInv, TypeOK, Respond
<1>2. AnswerOf(call'[th]) = [kind |-> "none"]
  BY <1>1 DEF AnswerOf, IdleCall
<1>3. CASE call[th].pc = "denied"
  BY <1>1, <1>2, <1>3, QuietStep DEF AnswerOf
<1>4. CASE call[th].pc = "success"
  <2>1. Answer[th] # [kind |-> "none"]
    <3>1. Answer[th].kind \in {"observed", "changed"}
      BY <1>4 DEF Answer, AnswerOf
    <3>2. QED
      BY <3>1
  <2>2. Answer' = [Answer EXCEPT ![th] = [kind |-> "none"]]
    BY <1>1, <1>2, AnswerMoves
  <2>3. QED
    BY <1>1, <2>1, <2>2, AppliedKept DEF Switch!PickUp, Switch!NoAnswer
<1>5. QED
  BY <1>1, <1>3, <1>4

LEMMA SwitchRefined ==
  ASSUME UniformDefaults
  PROVE  LockInv /\ [Next]_vars => [Switch!Next]_<<Applied, Answer>>
<1> SUFFICES ASSUME LockInv, [Next]_vars PROVE [Switch!Next]_<<Applied, Answer>>
  OBVIOUS
<1>1. ASSUME NEW th \in Threads, NEW b \in Backends, NEW t \in Targets,
             NEW a \in Actions, NEW ro \in BOOLEAN, Invoke(th, b, t, a, ro)
      PROVE  [Switch!Next]_<<Applied, Answer>>
  BY <1>1, SwitchInvoke
<1>2. ASSUME NEW th \in Threads, Acquire(th) \/ Release(th)
      PROVE  [Switch!Next]_<<Applied, Answer>>
  BY <1>2, SwitchAcquireRelease
<1>3. ASSUME NEW th \in Threads, FixtureApplied(th)
      PROVE  [Switch!Next]_<<Applied, Answer>>
  BY <1>3, SwitchLookup
<1>4. ASSUME NEW th \in Threads, Update(th)
      PROVE  [Switch!Next]_<<Applied, Answer>>
  BY <1>4, SwitchUpdate DEF Switch!Next
<1>5. ASSUME NEW th \in Threads, Respond(th)
      PROVE  [Switch!Next]_<<Applied, Answer>>
  BY <1>5, SwitchRespond DEF Switch!Next
<1>6. CASE ResetRegistry
  <2>1. registry' = [k \in {} |-> FALSE] /\ UNCHANGED call
    BY <1>6 DEF ResetRegistry
  <2>2. \A k \in Keys : Effective(k)' = KeyDefault(k)
    BY <2>1 DEF Effective, Lookup, KeyDefault
  <2>3. Switch!Reset
    BY <2>1, <2>2 DEF Switch!Reset, Applied, Answer, AnswerOf
  <2>4. QED
    BY <2>3 DEF Switch!Next
<1>7. CASE UNCHANGED vars
  <2>1. UNCHANGED registry /\ UNCHANGED call
    BY <1>7 DEF vars
  <2>2. QED
    BY <2>1, AppliedKept DEF Answer, AnswerOf
<1>8. QED
  BY <1>1, <1>2, <1>3, <1>4, <1>5, <1>6, <1>7 DEF Next, CallStep

\* When the backends of a key share one default, calls of any number of threads
\* through any number of backend objects behave as one atomic switch per key
\* (_transition_fixture_state and _read_state under _FIXTURE_STATE_LOCK).
THEOREM FixtureImplementsSwitch == ASSUME UniformDefaults PROVE Spec => ImplementsSwitch
<1>1. Init => Switch!Init
  <2> SUFFICES ASSUME Init PROVE Switch!Init
    OBVIOUS
  <2>1. \A k \in Keys : Effective(k) = KeyDefault(k)
    BY DEF Init, Effective, Lookup
  <2>2. \A th \in Threads : AnswerOf(call[th]) = [kind |-> "none"]
    BY DEF Init, IdleCall, AnswerOf
  <2>3. QED
    BY <2>1, <2>2 DEF Switch!Init, Switch!NoAnswer, Applied, Answer
<1>2. QED
  BY <1>1, SwitchRefined, LockHolds, PTL DEF Spec, ImplementsSwitch, Switch!Spec
=============================================================================
