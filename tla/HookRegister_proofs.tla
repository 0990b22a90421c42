------------------------ MODULE HookRegister_proofs -------------------------
(***************************************************************************)
(* The inductive invariant of the hook bus, its initial state, and the steps*)
(* of a registration; the effect of erasing a slot.                        *)
(***************************************************************************)
EXTENDS HookBus, SequenceLemmas

\* Slot ids are handed out once: every id in use is below the counter, two
\* handles never hold the same one, and a detached slot has no handle.
SlotsFresh ==
  /\ \A h \in Handles : handle[h].state # "disarmed"
       => handle[h].slot_id < next_slot_id /\ handle[h].slot_id \notin detached[handle[h].phase]
  /\ \A h, g \in Handles :
       /\ handle[h].state # "disarmed" /\ handle[g].state # "disarmed"
       /\ handle[h].slot_id = handle[g].slot_id
       => h = g
  /\ \A p \in Phases : \A id \in detached[p] : id < next_slot_id

\* What a firing still has to run covers what it owes, and its alias has not run.
FiringCovered ==
  \A t \in Threads :
    /\ firing[t].stage \in {"entered", "running"} => ~ firing[t].alias
    /\ firing[t].stage = "entered"
         => /\ standing[t] \subseteq Range(hooks[firing[t].phase])
            /\ Range(hooks[firing[t].phase]) \subseteq seen[t]
    /\ firing[t].stage = "running"
         => /\ Range(firing[t].snapshot) \subseteq seen[t]
            /\ \/ firing[t].failed
               \/ standing[t] \subseteq Range(firing[t].ran) \cup Range(firing[t].snapshot)

BusInv == TypeOK /\ GateAccurate /\ RegistrationsOwned /\ SlotsFresh
FireInv == FiringCovered /\ FiringComplete /\ FiringSound
IInv == BusInv /\ FireInv
----------------------------------------------------------------------------
\* An empty vector holds no slot.
LEMMA EmptyRange == Range(<<>>) = {}
BY DEF Range

\* An armed handle is one way to own a slot.
LEMMA OwnedElements ==
  ASSUME NEW p \in Phases, NEW id
  PROVE  id \in Owned(p) <=>
           \E h \in Handles : IsArmed(h) /\ handle[h].phase = p /\ handle[h].slot_id = id
BY DEF Owned

\* A handle that is not disarmed carries a phase and a slot.
LEMMA HandleFields ==
  ASSUME TypeOK, NEW h \in Handles, handle[h].state # "disarmed"
  PROVE  handle[h].phase \in Phases /\ handle[h].slot_id \in SlotIds
BY DEF TypeOK, Disarmed

\* Nothing is registered, owned or fired at first.
LEMMA InitInvariant == Init => IInv
<1> SUFFICES ASSUME Init PROVE IInv
  OBVIOUS
<1>0. (CHOOSE p \in Phases : TRUE) \in Phases
  BY BusAssumption
<1>1. TypeOK
  <2>1. <<>> \in Seq(SlotIds)
    OBVIOUS
  <2>2. next_slot_id \in 1 .. MaxSlotId + 1
    BY BusAssumption DEF Init
  <2>3. handle \in [Handles -> {Disarmed}]
    BY DEF Init
  <2>4. Idle(CHOOSE p \in Phases : TRUE) \in
          [phase : Phases, stage : {"idle", "entered", "running", "done"},
           snapshot : Seq(SlotIds), ran : Seq(SlotIds),
           alias : BOOLEAN, answered : BOOLEAN, failed : BOOLEAN]
    BY <1>0, <2>1 DEF Idle
  <2> QED BY <2>1, <2>2, <2>3, <2>4 DEF Init, TypeOK
<1>2. GateAccurate
  BY DEF Init, GateAccurate
<1>3. RegistrationsOwned
  <2>1. \A h \in Handles : ~ IsArmed(h)
    BY DEF Init, IsArmed, Disarmed
  <2>2. \A p \in Phases : Owned(p) = {} /\ detached[p] = {} /\ hooks[p] = <<>>
    BY <2>1 DEF Owned, Init
  <2>3. IsInjective(<<>>)
    BY DEF IsInjective
  <2> QED BY <2>1, <2>2, <2>3, EmptyRange DEF RegistrationsOwned
<1>4. SlotsFresh
  BY DEF Init, SlotsFresh, Disarmed
<1>5. FireInv
  <2>1. \A t \in Threads : firing[t].stage = "idle" /\ firing[t].ran = <<>>
    BY DEF Init, Idle
  <2> QED BY <2>1, EmptyRange DEF FireInv, FiringCovered, FiringComplete, FiringSound
<1> QED BY <1>1, <1>2, <1>3, <1>4, <1>5 DEF IInv, BusInv
----------------------------------------------------------------------------
\* Taking a slot id.
LEMMA AllocateSlotStep ==
  ASSUME IInv, NEW h \in Handles, NEW p \in Phases, AllocateSlot(h, p)
  PROVE  IInv'
<1> USE DEF AllocateSlot, Adding, fireVars
<1>0. TypeOK /\ SlotsFresh /\ RegistrationsOwned /\ next_slot_id \in SlotIds /\ next_slot_id \in Nat
  BY BusAssumption DEF IInv, BusInv, TypeOK, SlotIds
<1>1. handle' = [handle EXCEPT ![h] = Adding(p, next_slot_id)] /\ handle[h].state = "disarmed"
  OBVIOUS
<1>2. TypeOK'
  <2>1. next_slot_id' \in 1 .. MaxSlotId + 1
    BY <1>0, BusAssumption
  <2> QED BY <1>0, <2>1 DEF TypeOK
<1>3. \A g \in Handles : IsArmed(g)' <=> IsArmed(g)
  BY <1>0 DEF TypeOK, IsArmed
<1>4. \A g \in Handles : IsArmed(g) => handle'[g] = handle[g]
  BY <1>0 DEF TypeOK, IsArmed
<1>5. \A q \in Phases : Owned(q)' = Owned(q)
  BY <1>3, <1>4 DEF Owned
<1>6. RegistrationsOwned'
  BY <1>0, <1>3, <1>4, <1>5 DEF RegistrationsOwned
<1>7. SlotsFresh'
  <2>1. \A g \in Handles : g # h => handle'[g] = handle[g]
    BY <1>0 DEF TypeOK
  <2>2. handle'[h] = Adding(p, next_slot_id)
    BY <1>0 DEF TypeOK
  <2>3. \A g \in Handles : handle[g].state # "disarmed" => handle[g].slot_id \in Nat
    BY <1>0, HandleFields, BusAssumption DEF SlotIds
  <2>4. \A q \in Phases : \A id \in detached[q] : id \in Nat
    BY <1>0, BusAssumption DEF TypeOK, SlotIds
  <2>5. \A g \in Handles : g # h /\ handle[g].state # "disarmed" => handle[g].slot_id < next_slot_id
    BY <1>0 DEF SlotsFresh
  <2>6. \A q \in Phases : next_slot_id \notin detached[q]
    BY <1>0, <2>4 DEF SlotsFresh
  <2>7. \A q \in Phases : \A id \in detached'[q] : id < next_slot_id'
    BY <1>0, <2>4 DEF SlotsFresh
  <2>8. ASSUME NEW g \in Handles, handle'[g].state # "disarmed"
        PROVE  handle'[g].slot_id < next_slot_id' /\ handle'[g].slot_id \notin detached'[handle'[g].phase]
    <3>1. CASE g = h
      BY <3>1, <1>0, <2>2, <2>6
    <3>2. CASE g # h
      BY <3>2, <2>1, <2>3, <2>8, <1>0 DEF SlotsFresh
    <3> QED BY <3>1, <3>2
  <2>9. ASSUME NEW g \in Handles, NEW k \in Handles,
               handle'[g].state # "disarmed", handle'[k].state # "disarmed",
               handle'[g].slot_id = handle'[k].slot_id
        PROVE  g = k
    <3>1. CASE g # h /\ k # h
      BY <3>1, <2>9, <2>1, <1>0 DEF SlotsFresh
    <3>2. CASE g = h /\ k # h
      BY <3>2, <2>9, <2>1, <2>2, <2>3, <2>5, <1>0
    <3>3. CASE g # h /\ k = h
      BY <3>3, <2>9, <2>1, <2>2, <2>3, <2>5, <1>0
    <3> QED BY <3>1, <3>2, <3>3
  <2> QED BY <2>7, <2>8, <2>9 DEF SlotsFresh
<1>8. GateAccurate'
  BY DEF IInv, BusInv, GateAccurate
<1>9. FireInv'
  BY DEF IInv, FireInv, FiringCovered, FiringComplete, FiringSound
<1> QED BY <1>2, <1>6, <1>7, <1>8, <1>9 DEF IInv, BusInv

\* A registration that fails in its critical section.
LEMMA FailPushStep ==
  ASSUME IInv, NEW h \in Handles, FailPush(h)
  PROVE  IInv'
<1> USE DEF FailPush, fireVars
<1>0. TypeOK /\ SlotsFresh /\ RegistrationsOwned
  BY DEF IInv, BusInv
<1>1. handle'[h] = Disarmed /\ \A g \in Handles : g # h => handle'[g] = handle[g]
  BY <1>0 DEF TypeOK
<1>2. TypeOK'
  BY <1>0 DEF TypeOK
<1>3. \A g \in Handles : IsArmed(g)' <=> IsArmed(g)
  BY <1>1 DEF IsArmed, Disarmed
<1>4. \A g \in Handles : IsArmed(g) => handle'[g] = handle[g]
  BY <1>1 DEF IsArmed
<1>5. \A q \in Phases : Owned(q)' = Owned(q)
  BY <1>3, <1>4 DEF Owned
<1>6. RegistrationsOwned'
  BY <1>0, <1>3, <1>4, <1>5 DEF RegistrationsOwned
<1>7. SlotsFresh'
  <2>1. \A g \in Handles : handle'[g].state # "disarmed" => handle'[g] = handle[g]
    BY <1>1 DEF Disarmed
  <2> QED BY <2>1, <1>0 DEF SlotsFresh
<1>8. GateAccurate'
  BY DEF IInv, BusInv, GateAccurate
<1>9. FireInv'
  BY DEF IInv, FireInv, FiringCovered, FiringComplete, FiringSound
<1> QED BY <1>2, <1>6, <1>7, <1>8, <1>9 DEF IInv, BusInv

\* The critical section of a registration.
LEMMA PushSlotStep ==
  ASSUME IInv, NEW h \in Handles, PushSlot(h)
  PROVE  IInv'
<1> DEFINE p == handle[h].phase
           id == handle[h].slot_id
<1>0. TypeOK /\ SlotsFresh /\ RegistrationsOwned /\ GateAccurate
  BY DEF IInv, BusInv
<1>1. p \in Phases /\ id \in SlotIds /\ handle[h].state = "adding" /\ ~ IsArmed(h)
  BY <1>0, HandleFields DEF PushSlot, IsArmed
<1>2. /\ hooks' = [hooks EXCEPT ![p] = Append(@, id)]
      /\ any_hooks' = [any_hooks EXCEPT ![p] = TRUE]
      /\ handle' = [handle EXCEPT ![h] = Armed(p, id)]
      /\ seen' = [t \in Threads |-> IF firing[t].phase = p THEN seen[t] \cup {id} ELSE seen[t]]
      /\ UNCHANGED <<next_slot_id, detached, firing, standing>>
  BY DEF PushSlot
<1> HIDE DEF p, id
<1>3. hooks[p] \in Seq(SlotIds) /\ hooks'[p] = Append(hooks[p], id)
      /\ \A q \in Phases : q # p => hooks'[q] = hooks[q]
  BY <1>0, <1>1, <1>2 DEF TypeOK
<1>4. id \notin Range(hooks[p]) /\ id \notin detached[p]
  <2>1. id \notin detached[p]
    BY <1>0, <1>1 DEF SlotsFresh, p, id
  <2>2. id \notin Owned(p)
    <3>1. SUFFICES ASSUME NEW g \in Handles, IsArmed(g), handle[g].slot_id = id PROVE FALSE
      BY <1>1, OwnedElements
    <3>2. g = h
      BY <3>1, <1>0, <1>1 DEF SlotsFresh, IsArmed, id
    <3> QED BY <3>1, <3>2, <1>1
  <2> QED BY <2>1, <2>2, <1>0, <1>1 DEF RegistrationsOwned
<1>5. /\ hooks'[p] \in Seq(SlotIds) /\ hooks'[p] # <<>>
      /\ Range(hooks'[p]) = Range(hooks[p]) \cup {id}
      /\ IsInjective(hooks'[p])
  <2>1. IsInjective(hooks[p])
    BY <1>0, <1>1 DEF RegistrationsOwned
  <2>2. /\ Append(hooks[p], id) \in Seq(SlotIds) /\ Append(hooks[p], id) # <<>>
        /\ Range(Append(hooks[p], id)) = Range(hooks[p]) \cup {id}
        /\ IsInjective(hooks[p]) /\ id \notin Range(hooks[p]) => IsInjective(Append(hooks[p], id))
    BY <1>1, <1>3, AppendElement
  <2> QED BY <2>1, <2>2, <1>3, <1>4
<1>6. /\ handle'[h] = Armed(p, id)
      /\ \A g \in Handles : g # h => handle'[g] = handle[g]
  BY <1>0, <1>2 DEF TypeOK
<1>7. TypeOK'
  <2>1. hooks' \in [Phases -> Seq(SlotIds)]
    BY <1>0, <1>1, <1>2, <1>3, <1>5 DEF TypeOK
  <2>2. any_hooks' \in [Phases -> BOOLEAN]
    BY <1>0, <1>2 DEF TypeOK
  <2>3. handle' \in [Handles -> {Disarmed}
                   \cup [state : {"adding", "armed"}, phase : Phases, slot_id : SlotIds]]
    BY <1>0, <1>1, <1>2 DEF TypeOK, Armed
  <2>4. seen' \in [Threads -> SUBSET SlotIds]
    BY <1>0, <1>1, <1>2 DEF TypeOK
  <2> QED BY <2>1, <2>2, <2>3, <2>4, <1>0, <1>2 DEF TypeOK
<1>8. GateAccurate'
  BY <1>0, <1>1, <1>2, <1>3, <1>5 DEF GateAccurate, TypeOK
<1>9. \A g \in Handles : /\ IsArmed(g)' <=> IsArmed(g) \/ g = h
                         /\ handle[g].state # "disarmed" <=> handle'[g].state # "disarmed"
  BY <1>1, <1>6 DEF IsArmed, Armed
<1>10. /\ \A g \in Handles : handle[g].state # "disarmed"
            => handle'[g].slot_id = handle[g].slot_id /\ handle'[g].phase = handle[g].phase
  BY <1>1, <1>6 DEF Armed, p, id
<1>11. SlotsFresh'
  BY <1>0, <1>2, <1>9, <1>10 DEF SlotsFresh
<1>12. RegistrationsOwned'
  <2>1. ASSUME NEW q \in Phases, NEW x
        PROVE  x \in Owned(q)' <=> x \in Owned(q) \/ (q = p /\ x = id)
    <3>1. x \in Owned(q)' <=>
            \E g \in Handles : IsArmed(g)' /\ handle'[g].phase = q /\ handle'[g].slot_id = x
      BY DEF Owned
    <3>2. x \in Owned(q) <=>
            \E g \in Handles : IsArmed(g) /\ handle[g].phase = q /\ handle[g].slot_id = x
      BY OwnedElements
    <3> QED BY <3>1, <3>2, <1>1, <1>6, <1>9 DEF Armed
  <2>2. ASSUME NEW q \in Phases
        PROVE  /\ Range(hooks'[q]) = Owned(q)' \cup detached'[q]
               /\ Owned(q)' \cap detached'[q] = {}
               /\ IsInjective(hooks'[q])
    <3>1. CASE q = p
      BY <3>1, <2>1, <1>0, <1>1, <1>2, <1>4, <1>5 DEF RegistrationsOwned
    <3>2. CASE q # p
      BY <3>2, <2>1, <1>0, <1>2, <1>3 DEF RegistrationsOwned
    <3> QED BY <3>1, <3>2
  <2>3. \A g, k \in Handles :
          IsArmed(g)' /\ IsArmed(k)' /\ handle'[g].slot_id = handle'[k].slot_id => g = k
    BY <1>11 DEF SlotsFresh, IsArmed
  <2> QED BY <2>2, <2>3 DEF RegistrationsOwned
<1>13. FireInv'
  <2>1. FiringCovered /\ FiringComplete /\ FiringSound
    BY DEF IInv, FireInv
  <2>2. \A t \in Threads : seen[t] \subseteq seen'[t] /\ (firing[t].phase = p => id \in seen'[t])
    BY <1>2
  <2>3. FiringCovered'
    <3>1. ASSUME NEW t \in Threads, firing[t].stage = "entered"
          PROVE  /\ standing[t] \subseteq Range(hooks'[firing[t].phase])
                 /\ Range(hooks'[firing[t].phase]) \subseteq seen'[t]
      <4>1. firing[t].phase \in Phases
        BY <1>0 DEF TypeOK
      <4> QED BY <4>1, <3>1, <2>1, <2>2, <1>3, <1>5 DEF FiringCovered
    <3> QED BY <3>1, <2>1, <2>2, <1>2 DEF FiringCovered
  <2>4. FiringComplete' /\ FiringSound'
    BY <2>1, <2>2, <1>2 DEF FiringComplete, FiringSound
  <2> QED BY <2>3, <2>4 DEF FireInv
<1> QED BY <1>7, <1>8, <1>11, <1>12, <1>13 DEF IInv, BusInv

\* What erasing a slot does to the vectors, the gates and the firings.
LEMMA EraseSlotEffect ==
  ASSUME IInv, NEW p \in Phases, NEW id, EraseSlot(p, id)
  PROVE  /\ hooks' \in [Phases -> Seq(SlotIds)]
         /\ any_hooks' \in [Phases -> BOOLEAN]
         /\ standing' \in [Threads -> SUBSET SlotIds]
         /\ Range(hooks'[p]) = Range(hooks[p]) \ {id}
         /\ \A q \in Phases : /\ q # p => hooks'[q] = hooks[q]
                              /\ IsInjective(hooks'[q])
         /\ GateAccurate'
         /\ \A t \in Threads : standing'[t] =
              IF firing[t].phase = p THEN standing[t] \ {id} ELSE standing[t]
<1>0. TypeOK /\ RegistrationsOwned /\ GateAccurate
  BY DEF IInv, BusInv
<1>1. hooks[p] \in Seq(SlotIds) /\ IsInjective(hooks[p]) /\ \A q \in Phases : IsInjective(hooks[q])
  BY <1>0 DEF TypeOK, RegistrationsOwned
<1>2. /\ standing' \in [Threads -> SUBSET SlotIds]
      /\ \A t \in Threads : standing'[t] =
           IF firing[t].phase = p THEN standing[t] \ {id} ELSE standing[t]
  BY <1>0 DEF EraseSlot, TypeOK
<1>3. CASE id \notin Range(hooks[p]) /\ UNCHANGED <<hooks, any_hooks>>
  BY <1>0, <1>1, <1>2, <1>3 DEF TypeOK, GateAccurate
<1>4. ASSUME NEW i \in DOMAIN hooks[p], hooks[p][i] = id,
             hooks' = [hooks EXCEPT ![p] = RemoveAt(@, i)],
             any_hooks' = [any_hooks EXCEPT ![p] = @ /\ (Len(hooks[p]) > 1 \/ p \in Aliases)]
      PROVE  /\ hooks' \in [Phases -> Seq(SlotIds)]
             /\ any_hooks' \in [Phases -> BOOLEAN]
             /\ Range(hooks'[p]) = Range(hooks[p]) \ {id}
             /\ \A q \in Phases : /\ q # p => hooks'[q] = hooks[q]
                                  /\ IsInjective(hooks'[q])
             /\ GateAccurate'
  <2>1. i \in 1..Len(hooks[p])
    BY <1>1
  <2>2. /\ RemoveAt(hooks[p], i) \in Seq(SlotIds)
        /\ Range(RemoveAt(hooks[p], i)) = Range(hooks[p]) \ {id}
        /\ IsInjective(RemoveAt(hooks[p], i))
        /\ RemoveAt(hooks[p], i) # <<>> <=> Len(hooks[p]) > 1
    BY <2>1, <1>1, <1>4, EraseElement
  <2>3. hooks'[p] = RemoveAt(hooks[p], i) /\ \A q \in Phases : q # p => hooks'[q] = hooks[q]
    BY <1>0, <1>4 DEF TypeOK
  <2>4. hooks' \in [Phases -> Seq(SlotIds)]
    BY <2>2, <1>0, <1>4 DEF TypeOK
  <2>5. any_hooks' \in [Phases -> BOOLEAN]
    BY <1>0, <1>4 DEF TypeOK
  <2>6. hooks[p] # <<>>
    BY <2>1, <1>1
  <2>7. /\ any_hooks'[p] = (any_hooks[p] /\ (Len(hooks[p]) > 1 \/ p \in Aliases))
        /\ \A q \in Phases : q # p => any_hooks'[q] = any_hooks[q]
    BY <1>0, <1>4 DEF TypeOK
  <2>8. GateAccurate'
    <3>1. any_hooks[p]
      BY <2>6, <1>0 DEF GateAccurate
    <3> QED BY <3>1, <2>2, <2>3, <2>7, <1>0 DEF GateAccurate
  <2> QED BY <2>2, <2>3, <2>4, <2>5, <2>8, <1>1
<1> QED BY <1>2, <1>3, <1>4 DEF EraseSlot

\* Erasing a slot leaves every firing with what it owes and no more.
LEMMA EraseSlotFirings ==
  ASSUME IInv, NEW p \in Phases, NEW id, EraseSlot(p, id), UNCHANGED <<firing, seen>>
  PROVE  FireInv'
<1>1. /\ Range(hooks'[p]) = Range(hooks[p]) \ {id}
      /\ \A q \in Phases : q # p => hooks'[q] = hooks[q]
      /\ \A t \in Threads : standing'[t] =
           IF firing[t].phase = p THEN standing[t] \ {id} ELSE standing[t]
  BY EraseSlotEffect
<1>2. FiringCovered /\ FiringComplete /\ FiringSound
  BY DEF IInv, FireInv
<1>3. \A t \in Threads : firing[t].phase \in Phases /\ standing'[t] \subseteq standing[t]
  BY <1>1 DEF IInv, BusInv, TypeOK
<1>4. FiringCovered'
  <2>1. ASSUME NEW t \in Threads, firing[t].stage = "entered"
        PROVE  /\ standing'[t] \subseteq Range(hooks'[firing[t].phase])
               /\ Range(hooks'[firing[t].phase]) \subseteq seen[t]
    <3>1. CASE firing[t].phase = p
      BY <3>1, <2>1, <1>1, <1>2 DEF FiringCovered
    <3>2. CASE firing[t].phase # p
      BY <3>2, <2>1, <1>1, <1>2, <1>3 DEF FiringCovered
    <3> QED BY <3>1, <3>2
  <2> QED BY <2>1, <1>2, <1>3 DEF FiringCovered
<1>5. FiringComplete' /\ FiringSound'
  BY <1>2, <1>3 DEF FiringComplete, FiringSound
<1> QED BY <1>4, <1>5 DEF FireInv
=============================================================================
