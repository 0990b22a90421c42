--------------------------- MODULE HookBus_proofs ---------------------------
(***************************************************************************)
(* The gate, ownership and firing properties of the hook bus for any       *)
(* phases, aliases, handles and threads: the steps of a firing, and the    *)
(* theorems.                                                               *)
(***************************************************************************)
EXTENDS HookHandle_proofs

\* The part of FireInv that is about one thread.
ThreadInv(t) ==
  LET f == firing[t] IN
  /\ f.stage \in {"entered", "running"} => ~ f.alias
  /\ f.stage = "entered" => /\ standing[t] \subseteq Range(hooks[f.phase])
                            /\ Range(hooks[f.phase]) \subseteq seen[t]
  /\ f.stage = "running" => /\ Range(f.snapshot) \subseteq seen[t]
                            /\ f.failed \/ standing[t] \subseteq Range(f.ran) \cup Range(f.snapshot)
  /\ f.stage = "done" /\ (f.answered => f.alias) /\ ~ f.failed => standing[t] \subseteq Range(f.ran)
  /\ Range(f.ran) \subseteq seen[t]

Firings == [phase : Phases, stage : {"idle", "entered", "running", "done"},
            snapshot : Seq(SlotIds), ran : Seq(SlotIds),
            alias : BOOLEAN, answered : BOOLEAN, failed : BOOLEAN]

\* A step of the firing of one thread has to keep that thread's part only.
LEMMA FireFrame ==
  ASSUME IInv, NEW t \in Threads, UNCHANGED busVars,
         NEW f \in Firings, firing' = [firing EXCEPT ![t] = f],
         NEW st \in SUBSET SlotIds, standing' = [standing EXCEPT ![t] = st],
         NEW se \in SUBSET SlotIds, seen' = [seen EXCEPT ![t] = se],
         ThreadInv(t)'
  PROVE  IInv'
<1>1. TypeOK /\ FireInv
  BY DEF IInv, BusInv
<1>2. BusInv'
  <2>1. TypeOK'
    BY <1>1 DEF TypeOK, busVars, Firings
  <2>2. UNCHANGED <<next_slot_id, hooks, any_hooks, handle, detached>>
    BY DEF busVars
  <2>3. \A q \in Phases : Owned(q)' = Owned(q)
    BY <2>2 DEF Owned, IsArmed
  <2> QED BY <2>1, <2>2, <2>3 DEF IInv, BusInv, GateAccurate, RegistrationsOwned, SlotsFresh, IsArmed
<1>3. ASSUME NEW u \in Threads PROVE ThreadInv(u)'
  <2>1. CASE u = t
    BY <2>1
  <2>2. CASE u # t
    <3>1. firing'[u] = firing[u] /\ standing'[u] = standing[u] /\ seen'[u] = seen[u] /\ hooks' = hooks
      BY <2>2, <1>1 DEF TypeOK, busVars
    <3>2. ThreadInv(u)
      BY <1>1 DEF FireInv, FiringCovered, FiringComplete, FiringSound, ThreadInv
    <3> QED BY <3>1, <3>2 DEF ThreadInv
  <2> QED BY <2>1, <2>2
<1>4. FireInv'
  BY <1>3 DEF FireInv, FiringCovered, FiringComplete, FiringSound, ThreadInv
<1> QED BY <1>2, <1>4 DEF IInv

\* What IInv says of the firing of a thread.
LEMMA FiringFacts ==
  ASSUME IInv, NEW t \in Threads
  PROVE  /\ firing[t] \in Firings /\ ThreadInv(t)
         /\ standing[t] \in SUBSET SlotIds /\ seen[t] \in SUBSET SlotIds
         /\ standing = [standing EXCEPT ![t] = standing[t]]
         /\ seen = [seen EXCEPT ![t] = seen[t]]
<1>1. TypeOK /\ FireInv
  BY DEF IInv, BusInv
<1>2. ThreadInv(t)
  BY <1>1 DEF FireInv, FiringCovered, FiringComplete, FiringSound, ThreadInv
<1> QED BY <1>1, <1>2 DEF TypeOK, Firings

\* Reading the gate: a closed gate means that nothing is owed.
LEMMA BeginStep ==
  ASSUME IInv, NEW t \in Threads, NEW p \in Phases, EnterPhase(t, p) \/ SkipPhase(t, p)
  PROVE  IInv'
<1>1. PICK stage \in {"entered", "done"} :
        /\ Begin(t, p, stage)
        /\ stage = "done" => ~ any_hooks[p] /\ p \notin Aliases
  BY DEF EnterPhase, SkipPhase
<1> DEFINE f == [Idle(p) EXCEPT !.stage = stage, !.snapshot = firing[t].snapshot]
<1>2. hooks[p] \in Seq(SlotIds) /\ Range(hooks[p]) \in SUBSET SlotIds
  BY DEF IInv, BusInv, TypeOK, Range
<1>3. f \in Firings /\ f.phase = p /\ f.stage = stage /\ f.ran = <<>> /\ ~ f.alias
  <2>1. firing[t].snapshot \in Seq(SlotIds)
    BY FiringFacts DEF Firings
  <2>2. <<>> \in Seq(SlotIds)
    OBVIOUS
  <2>3. Idle(p) \in Firings /\ Idle(p).phase = p /\ Idle(p).ran = <<>> /\ Idle(p).alias = FALSE
    BY <2>2 DEF Idle, Firings
  <2> HIDE DEF Idle
  <2>4. f \in Firings
    BY <2>1, <2>3, <1>1, ZenonT(30) DEF Firings
  <2>5. f.phase = p /\ f.stage = stage /\ f.ran = <<>> /\ f.alias = FALSE
    BY <2>3 DEF Firings
  <2> QED BY <2>4, <2>5
<1> HIDE DEF f
<1>4. /\ firing' = [firing EXCEPT ![t] = f]
      /\ standing' = [standing EXCEPT ![t] = Range(hooks[p])]
      /\ seen' = [seen EXCEPT ![t] = Range(hooks[p])]
      /\ UNCHANGED busVars
  BY <1>1 DEF Begin, f
<1>5. firing'[t] = f /\ standing'[t] = Range(hooks[p]) /\ seen'[t] = Range(hooks[p]) /\ hooks' = hooks
  BY <1>4 DEF IInv, BusInv, TypeOK, busVars
<1>6. stage = "done" => Range(hooks[p]) = {}
  BY <1>1, EmptyRange DEF IInv, BusInv, GateAccurate
<1>7. ThreadInv(t)'
  BY <1>1, <1>3, <1>5, <1>6, EmptyRange DEF ThreadInv
<1> QED BY <1>2, <1>3, <1>4, <1>7, FireFrame, ZenonT(30)

\* The snapshot holds all that is owed, unless the copy failed.
LEMMA SnapshotStep ==
  ASSUME IInv, NEW t \in Threads, TakeSnapshot(t) \/ FailSnapshot(t)
  PROVE  IInv'
<1>1. PICK s \in {<<>>, hooks[firing[t].phase]}, failed \in {TRUE, firing[t].failed} :
        /\ firing[t].stage = "entered"
        /\ firing' = [firing EXCEPT ![t] = [@ EXCEPT !.stage = "running", !.snapshot = s, !.failed = failed]]
        /\ failed \/ s = hooks[firing[t].phase]
        /\ UNCHANGED <<busVars, standing, seen>>
  <2>0. firing \in [Threads -> Firings]
    BY DEF IInv, BusInv, TypeOK, Firings
  <2>1. CASE TakeSnapshot(t)
    BY <2>0, <2>1, ZenonT(30) DEF TakeSnapshot, Firings
  <2>2. CASE FailSnapshot(t)
    BY <2>0, <2>2, ZenonT(30) DEF FailSnapshot, Firings
  <2> QED BY <2>1, <2>2
<1> DEFINE f == [firing[t] EXCEPT !.stage = "running", !.snapshot = s, !.failed = failed]
<1>2. firing[t] \in Firings /\ ThreadInv(t) /\ hooks[firing[t].phase] \in Seq(SlotIds)
  BY FiringFacts DEF IInv, BusInv, TypeOK, Firings
<1>3. /\ f \in Firings /\ f.stage = "running" /\ f.snapshot = s /\ f.failed = failed
      /\ f.ran = firing[t].ran /\ f.alias = firing[t].alias
  <2>0. <<>> \in Seq(SlotIds)
    OBVIOUS
  <2>1a. s \in Seq(SlotIds)
    BY <2>0, <1>1, <1>2, ZenonT(30)
  <2>1b. firing[t].failed \in BOOLEAN
    BY <1>2 DEF Firings
  <2>1. s \in Seq(SlotIds) /\ failed \in BOOLEAN
    BY <2>1a, <2>1b, <1>1, Zenon
  <2>2. f \in Firings
    BY <2>1, <1>2, ZenonT(30) DEF Firings
  <2>3. f.stage = "running" /\ f.snapshot = s /\ f.ran = firing[t].ran
    BY <1>2 DEF Firings
  <2>4. f.failed = failed
    BY <1>2 DEF Firings
  <2>5. f.alias = firing[t].alias
    BY <1>2 DEF Firings
  <2> QED BY <2>2, <2>3, <2>4, <2>5
<1>4. firing' = [firing EXCEPT ![t] = f]
  BY <1>1
<1> HIDE DEF f
<1>5. firing'[t] = f /\ standing'[t] = standing[t] /\ seen'[t] = seen[t] /\ hooks' = hooks
  BY <1>1, <1>4 DEF IInv, BusInv, TypeOK, busVars
<1>6. Range(s) \subseteq seen[t] /\ (failed \/ standing[t] \subseteq Range(s))
  BY <1>1, <1>2, EmptyRange DEF ThreadInv
<1>7. ThreadInv(t)'
  <2>1. ~ firing[t].alias
    BY <1>1, <1>2 DEF ThreadInv
  <2>2. ~ f.alias
    BY <2>1, <1>3, Zenon
  <2>3. Range(f.ran) \subseteq seen[t]
    BY <1>2, <1>3 DEF ThreadInv
  <2> QED BY <2>2, <2>3, <1>3, <1>5, <1>6 DEF ThreadInv
<1>8. UNCHANGED busVars /\ standing' = [standing EXCEPT ![t] = standing[t]]
      /\ seen' = [seen EXCEPT ![t] = seen[t]]
  BY <1>1, FiringFacts
<1> QED BY <1>3, <1>4, <1>7, <1>8, FiringFacts, FireFrame, ZenonT(30)

\* Calling a hook moves it from what is left to what has run.
LEMMA CallHookStep ==
  ASSUME IInv, NEW t \in Threads, NEW action \in Actions, CallHook(t, action)
  PROVE  IInv'
<1> DEFINE old == firing[t]
           responds == action = "respond" /\ old.phase \in ShortCircuit
           f == [old EXCEPT !.ran = Append(old.ran, Head(old.snapshot)),
                            !.snapshot = Tail(old.snapshot),
                            !.answered = responds,
                            !.stage = IF responds THEN "done" ELSE old.stage]
<1>1. old \in Firings /\ ThreadInv(t) /\ old.stage = "running" /\ old.snapshot # <<>>
  BY FiringFacts DEF CallHook
<1>2. /\ Head(old.snapshot) \in SlotIds /\ Tail(old.snapshot) \in Seq(SlotIds)
      /\ Range(old.snapshot) = {Head(old.snapshot)} \cup Range(Tail(old.snapshot))
  BY <1>1, ConsumeElement DEF Firings
<1>3. /\ Append(old.ran, Head(old.snapshot)) \in Seq(SlotIds)
      /\ Range(Append(old.ran, Head(old.snapshot))) = Range(old.ran) \cup {Head(old.snapshot)}
  BY <1>1, <1>2, AppendElement DEF Firings
<1>4. firing' = [firing EXCEPT ![t] = f] /\ UNCHANGED <<busVars, standing, seen>>
  <2>1. firing \in [Threads -> Firings]
    BY DEF IInv, BusInv, TypeOK, Firings
  <2> QED BY <2>1, ZenonT(30) DEF CallHook, Firings
<1>5. /\ f \in Firings
      /\ f.ran = Append(old.ran, Head(old.snapshot)) /\ f.snapshot = Tail(old.snapshot)
      /\ f.answered = responds /\ f.failed = old.failed /\ f.alias = old.alias
      /\ f.stage = IF responds THEN "done" ELSE "running"
  BY <1>1, <1>2, <1>3, ZenonT(30) DEF Firings
<1> HIDE DEF f
<1>6. firing'[t] = f /\ standing'[t] = standing[t] /\ seen'[t] = seen[t]
  BY <1>4 DEF IInv, BusInv, TypeOK
<1>7. /\ Range(f.ran) \subseteq seen[t] /\ Range(f.snapshot) \subseteq seen[t]
      /\ old.failed \/ standing[t] \subseteq Range(f.ran) \cup Range(f.snapshot)
  BY <1>1, <1>2, <1>3, <1>5 DEF ThreadInv
<1>8. ThreadInv(t)'
  <2>1. ~ old.alias
    BY <1>1 DEF ThreadInv
  <2>2. ~ f.alias
    BY <2>1, <1>5, Zenon
  <2>3. f.stage = "done" => f.answered
    BY <1>5, ZenonT(30)
  <2> QED BY <2>2, <2>3, <1>5, <1>6, <1>7, ZenonT(30) DEF ThreadInv
<1>9. UNCHANGED busVars /\ standing' = [standing EXCEPT ![t] = standing[t]]
      /\ seen' = [seen EXCEPT ![t] = seen[t]]
  BY <1>4, FiringFacts
<1> QED BY <1>4, <1>5, <1>8, <1>9, FiringFacts, FireFrame, ZenonT(30)

\* The end of a firing finds nothing left to run.
LEMMA RunTailStep ==
  ASSUME IInv, NEW t \in Threads, NEW action \in Actions, RunTail(t, action)
  PROVE  IInv'
<1> DEFINE old == firing[t]
           alias == old.phase \in Aliases
           answered == alias /\ action = "respond" /\ old.phase \in ShortCircuit
           f == [old EXCEPT !.stage = "done", !.alias = alias, !.answered = answered]
<1>1. old \in Firings /\ ThreadInv(t) /\ old.stage = "running" /\ old.snapshot = <<>>
  BY FiringFacts DEF RunTail
<1>2. firing' = [firing EXCEPT ![t] = f] /\ UNCHANGED <<busVars, standing, seen>>
  <2>1. firing \in [Threads -> Firings]
    BY DEF IInv, BusInv, TypeOK, Firings
  <2> QED BY <2>1, ZenonT(30) DEF RunTail, Firings
<1>3. /\ f \in Firings /\ f.stage = "done" /\ f.alias = (old.phase \in Aliases)
      /\ f.phase = old.phase /\ f.ran = old.ran /\ f.failed = old.failed
  <2>1. alias \in BOOLEAN /\ answered \in BOOLEAN
    OBVIOUS
  <2>2. f.alias = alias
    BY <1>1 DEF Firings
  <2> HIDE DEF alias, answered
  <2>3. f \in Firings
    BY <2>1, <1>1, ZenonT(30) DEF Firings
  <2>4. f.stage = "done" /\ f.phase = old.phase /\ f.ran = old.ran
    BY <1>1 DEF Firings
  <2>5. f.failed = old.failed
    BY <1>1 DEF Firings
  <2> QED BY <2>2, <2>3, <2>4, <2>5 DEF alias
<1> HIDE DEF f
<1>4. firing'[t] = f /\ standing'[t] = standing[t] /\ seen'[t] = seen[t]
  BY <1>2 DEF IInv, BusInv, TypeOK
<1>5. /\ Range(f.ran) \subseteq seen[t]
      /\ old.failed \/ standing[t] \subseteq Range(f.ran)
  BY <1>1, <1>3, EmptyRange DEF ThreadInv
<1>6. ThreadInv(t)'
  BY <1>3, <1>4, <1>5 DEF ThreadInv
<1>7. UNCHANGED busVars /\ standing' = [standing EXCEPT ![t] = standing[t]]
      /\ seen' = [seen EXCEPT ![t] = seen[t]]
  BY <1>2, FiringFacts
<1> QED BY <1>2, <1>3, <1>6, <1>7, FiringFacts, FireFrame, ZenonT(30)
----------------------------------------------------------------------------
\* Every step keeps the invariant.
LEMMA NextInvariant == IInv /\ [Next]_vars => IInv'
<1> SUFFICES ASSUME IInv, [Next]_vars PROVE IInv'
  OBVIOUS
<1>1. CASE Register
  BY <1>1, AllocateSlotStep, PushSlotStep, FailPushStep DEF Register
<1>2. CASE Release
  BY <1>2, RemoveHandleStep, DetachStep, MoveStep DEF Release
<1>3. CASE Fire
  <2>1. PICK t \in Threads :
          \/ \E p \in Phases : EnterPhase(t, p) \/ SkipPhase(t, p)
          \/ TakeSnapshot(t) \/ FailSnapshot(t)
          \/ \E action \in Actions : CallHook(t, action) \/ RunTail(t, action)
    BY <1>3 DEF Fire
  <2> QED BY <2>1, BeginStep, SnapshotStep, CallHookStep, RunTailStep
<1>4. CASE UNCHANGED vars
  <2>1. UNCHANGED <<next_slot_id, hooks, any_hooks, handle, detached, firing, standing, seen>>
    BY <1>4 DEF vars
  <2>2. \A q \in Phases : Owned(q)' = Owned(q)
    BY <2>1 DEF Owned, IsArmed
  <2>3. BusInv'
    BY <2>1, <2>2 DEF IInv, BusInv, TypeOK, GateAccurate, RegistrationsOwned, SlotsFresh, IsArmed
  <2>4. FireInv'
    BY <2>1 DEF IInv, FireInv, FiringCovered, FiringComplete, FiringSound
  <2> QED BY <2>3, <2>4 DEF IInv
<1> QED BY <1>1, <1>2, <1>3, <1>4 DEF Next

\* The inductive invariant holds in every reachable state.
THEOREM Invariance == Spec => []IInv
BY InitInvariant, NextInvariant, PTL DEF Spec

\* The types of the bus, for all phases, handles and threads.
THEOREM TypeCorrect == Spec => []TypeOK
<1>1. IInv => TypeOK
  BY DEF IInv, BusInv
<1> QED BY <1>1, Invariance, PTL

\* The gate that add_impl and remove maintain never hides a hook, nor a wired
\* handler_exception alias, and is open for nothing else.
THEOREM GateIsAccurate == Spec => []GateAccurate
<1>1. IInv => GateAccurate
  BY DEF IInv, BusInv
<1> QED BY <1>1, Invariance, PTL

\* However handles are moved, assigned, detached and removed, registrations are
\* neither leaked nor lost.
THEOREM RegistrationsAreOwned == Spec => []RegistrationsOwned
<1>1. IInv => RegistrationsOwned
  BY DEF IInv, BusInv
<1> QED BY <1>1, Invariance, PTL

\* A firing that no user hook answers runs every hook that stays registered while
\* it lasts, whatever throws, and no firing runs a hook removed before it began.
THEOREM FiringIsExact == Spec => [](FiringComplete /\ FiringSound)
<1>1. IInv => FiringComplete /\ FiringSound
  BY DEF IInv, FireInv
<1> QED BY <1>1, Invariance, PTL
=============================================================================
