------------------------- MODULE HookHandle_proofs --------------------------
(***************************************************************************)
(* Removing, moving and detaching handles keeps the invariant of the hook  *)
(* bus.                                                                    *)
(***************************************************************************)
EXTENDS HookRegister_proofs

\* Removing or destroying a handle.
LEMMA RemoveHandleStep ==
  ASSUME IInv, NEW h \in Handles, RemoveHandle(h)
  PROVE  IInv'
<1> DEFINE p == handle[h].phase
           id == handle[h].slot_id
<1>0. TypeOK /\ SlotsFresh /\ RegistrationsOwned
  BY DEF IInv, BusInv
<1>1. /\ IsArmed(h) /\ EraseSlot(p, id)
      /\ handle' = [handle EXCEPT ![h] = Disarmed]
      /\ UNCHANGED <<next_slot_id, detached, firing, seen>>
  BY DEF RemoveHandle
<1>2. p \in Phases /\ id \in SlotIds
  BY <1>0, <1>1, HandleFields DEF IsArmed
<1> HIDE DEF p, id
<1>3. /\ hooks' \in [Phases -> Seq(SlotIds)]
      /\ any_hooks' \in [Phases -> BOOLEAN]
      /\ standing' \in [Threads -> SUBSET SlotIds]
      /\ Range(hooks'[p]) = Range(hooks[p]) \ {id}
      /\ \A q \in Phases : /\ q # p => hooks'[q] = hooks[q]
                           /\ IsInjective(hooks'[q])
      /\ GateAccurate'
  BY <1>1, <1>2, EraseSlotEffect
<1>4. handle'[h] = Disarmed /\ \A g \in Handles : g # h => handle'[g] = handle[g]
  BY <1>0, <1>1 DEF TypeOK
<1>5. TypeOK'
  <2>1. handle' \in [Handles -> {Disarmed}
                   \cup [state : {"adding", "armed"}, phase : Phases, slot_id : SlotIds]]
    BY <1>0, <1>1 DEF TypeOK
  <2> QED BY <2>1, <1>0, <1>1, <1>3 DEF TypeOK
<1>6. SlotsFresh'
  BY <1>0, <1>1, <1>4 DEF SlotsFresh, Disarmed
<1>7. RegistrationsOwned'
  <2>1. ASSUME NEW q \in Phases, NEW x
        PROVE  x \in Owned(q)' <=> x \in Owned(q) /\ ~(q = p /\ x = id)
    <3>1. x \in Owned(q)' <=>
            \E g \in Handles : IsArmed(g)' /\ handle'[g].phase = q /\ handle'[g].slot_id = x
      BY DEF Owned
    <3>2. x \in Owned(q) <=>
            \E g \in Handles : IsArmed(g) /\ handle[g].phase = q /\ handle[g].slot_id = x
      BY OwnedElements
    <3>3. \A g \in Handles : IsArmed(g)' <=> IsArmed(g) /\ g # h
      BY <1>4 DEF IsArmed, Disarmed
    <3>4. \A g \in Handles : IsArmed(g) /\ handle[g].slot_id = id => g = h
      BY <1>0, <1>1 DEF RegistrationsOwned, id
    <3>5. \A g \in Handles : IsArmed(g) /\ g = h => handle[g].phase = p /\ handle[g].slot_id = id
      BY DEF p, id
    <3> QED BY <3>1, <3>2, <3>3, <3>4, <3>5, <1>4
  <2>2. id \notin detached[p]
    BY <1>0, <1>1 DEF SlotsFresh, IsArmed, p, id
  <2>3. ASSUME NEW q \in Phases
        PROVE  /\ Range(hooks'[q]) = Owned(q)' \cup detached'[q]
               /\ Owned(q)' \cap detached'[q] = {}
               /\ IsInjective(hooks'[q])
    <3>1. CASE q = p
      BY <3>1, <2>1, <2>2, <1>0, <1>1, <1>2, <1>3, SMTT(30) DEF RegistrationsOwned
    <3>2. CASE q # p
      BY <3>2, <2>1, <1>0, <1>1, <1>3 DEF RegistrationsOwned
    <3> QED BY <3>1, <3>2
  <2>4. \A g, k \in Handles :
          IsArmed(g)' /\ IsArmed(k)' /\ handle'[g].slot_id = handle'[k].slot_id => g = k
    BY <1>6 DEF SlotsFresh, IsArmed
  <2> QED BY <2>3, <2>4 DEF RegistrationsOwned
<1>8. FireInv'
  BY <1>1, <1>2, EraseSlotFirings
<1> QED BY <1>3, <1>5, <1>6, <1>7, <1>8 DEF IInv, BusInv

\* Moving a handle, with the removal of what the target owned.
LEMMA MoveStep ==
  ASSUME IInv, NEW h \in Handles, NEW g \in Handles, Move(h, g)
  PROVE  IInv'
<1>0. TypeOK /\ SlotsFresh /\ RegistrationsOwned /\ GateAccurate
  BY DEF IInv, BusInv
<1>1. /\ h # g /\ IsArmed(h) /\ handle[g].state # "adding"
      /\ handle' = [handle EXCEPT ![h] = Disarmed, ![g] = handle[h]]
      /\ UNCHANGED <<next_slot_id, detached, firing, seen>>
  BY DEF Move
<1>2. /\ handle'[h] = Disarmed /\ handle'[g] = handle[h]
      /\ \A k \in Handles : k # h /\ k # g => handle'[k] = handle[k]
  BY <1>0, <1>1 DEF TypeOK
<1>3. handle' \in [Handles -> {Disarmed}
                 \cup [state : {"adding", "armed"}, phase : Phases, slot_id : SlotIds]]
  BY <1>0, <1>1 DEF TypeOK
<1>3a. h # g /\ handle[h].state = "armed" /\ handle'[h].state = "disarmed"
  BY <1>1, <1>2 DEF IsArmed, Disarmed
<1>4. ASSUME NEW k \in Handles
      PROVE  IsArmed(k)' <=> k = g \/ (k # h /\ IsArmed(k))
  <2>1. CASE k = h
    BY <2>1, <1>3a DEF IsArmed
  <2>2. CASE k = g
    BY <2>2, <1>2, <1>3a DEF IsArmed
  <2>3. CASE k # h /\ k # g
    BY <2>3, <1>2 DEF IsArmed
  <2> QED BY <2>1, <2>2, <2>3
<1>5. SlotsFresh'
  <2>1. ASSUME NEW k \in Handles, handle'[k].state # "disarmed"
        PROVE  \E m \in Handles : /\ handle[m].state # "disarmed" /\ handle'[k] = handle[m]
                                  /\ m = IF k = g THEN h ELSE k
                                  /\ k # h
    <3>1. k # h
      BY <2>1, <1>3a
    <3>2. CASE k = g
      BY <3>1, <3>2, <1>2, <1>3a
    <3>3. CASE k # g
      BY <3>1, <3>3, <2>1, <1>2
    <3> QED BY <3>2, <3>3
  <2>2. \A k \in Handles : handle'[k].state # "disarmed" =>
          handle'[k].slot_id < next_slot_id' /\ handle'[k].slot_id \notin detached'[handle'[k].phase]
    BY <2>1, <1>0, <1>1, ZenonT(30) DEF SlotsFresh
  <2>3. ASSUME NEW k \in Handles, NEW m \in Handles,
               handle'[k].state # "disarmed", handle'[m].state # "disarmed",
               handle'[k].slot_id = handle'[m].slot_id
        PROVE  k = m
    <3>1. PICK a \in Handles : /\ handle[a].state # "disarmed" /\ handle'[k] = handle[a]
                               /\ a = (IF k = g THEN h ELSE k) /\ k # h
      BY <2>1, <2>3
    <3>2. PICK b \in Handles : /\ handle[b].state # "disarmed" /\ handle'[m] = handle[b]
                               /\ b = (IF m = g THEN h ELSE m) /\ m # h
      BY <2>1, <2>3
    <3>3. a = b
      BY <3>1, <3>2, <2>3, <1>0 DEF SlotsFresh
    <3> QED BY <3>1, <3>2, <3>3
  <2> QED BY <2>2, <2>3, <1>0, <1>1 DEF SlotsFresh
<1>6. \A k, m \in Handles :
        IsArmed(k)' /\ IsArmed(m)' /\ handle'[k].slot_id = handle'[m].slot_id => k = m
  BY <1>5 DEF SlotsFresh, IsArmed
<1>7. ASSUME NEW q \in Phases, NEW x
      PROVE  x \in Owned(q)' <=>
               /\ x \in Owned(q)
               /\ ~(IsArmed(g) /\ q = handle[g].phase /\ x = handle[g].slot_id)
  <2>1. x \in Owned(q)' <=>
          \E k \in Handles : IsArmed(k)' /\ handle'[k].phase = q /\ handle'[k].slot_id = x
    BY DEF Owned
  <2>2. x \in Owned(q) <=>
          \E k \in Handles : IsArmed(k) /\ handle[k].phase = q /\ handle[k].slot_id = x
    BY OwnedElements
  <2>3. \A k, m \in Handles :
          IsArmed(k) /\ IsArmed(m) /\ handle[k].slot_id = handle[m].slot_id => k = m
    BY <1>0 DEF RegistrationsOwned
  <2>4. ASSUME x \in Owned(q)'
        PROVE  x \in Owned(q) /\ ~(IsArmed(g) /\ q = handle[g].phase /\ x = handle[g].slot_id)
    <3>1. PICK k \in Handles : IsArmed(k)' /\ handle'[k].phase = q /\ handle'[k].slot_id = x
      BY <2>1, <2>4
    <3>2. CASE k = g
      BY <3>1, <3>2, <1>1, <1>2, <2>2, <2>3
    <3>3. CASE k # g
      BY <3>1, <3>3, <1>2, <1>4, <2>2, <2>3
    <3> QED BY <3>2, <3>3
  <2>5. ASSUME x \in Owned(q), ~(IsArmed(g) /\ q = handle[g].phase /\ x = handle[g].slot_id)
        PROVE  x \in Owned(q)'
    <3>1. PICK k \in Handles : IsArmed(k) /\ handle[k].phase = q /\ handle[k].slot_id = x
      BY <2>2, <2>5
    <3>2. CASE k = h
      BY <3>1, <3>2, <1>2, <1>4, <2>1
    <3>3. CASE k # h
      <4>1. k # g
        BY <3>1, <2>5
      <4> QED BY <3>1, <3>3, <4>1, <1>2, <1>4, <2>1
    <3> QED BY <3>2, <3>3
  <2> QED BY <2>4, <2>5
<1>8. CASE ~ IsArmed(g) /\ UNCHANGED <<hooks, any_hooks, standing>>
  <2>1. TypeOK' /\ GateAccurate'
    BY <1>0, <1>1, <1>3, <1>8 DEF TypeOK, GateAccurate
  <2>2. \A q \in Phases : Owned(q)' = Owned(q)
    BY <1>7, <1>8
  <2>3. RegistrationsOwned'
    BY <2>2, <1>0, <1>1, <1>6, <1>8 DEF RegistrationsOwned
  <2>4. FireInv'
    BY <1>1, <1>8 DEF IInv, FireInv, FiringCovered, FiringComplete, FiringSound
  <2> QED BY <2>1, <2>3, <2>4, <1>5 DEF IInv, BusInv
<1>9. CASE IsArmed(g) /\ EraseSlot(handle[g].phase, handle[g].slot_id)
  <2> DEFINE p == handle[g].phase
             id == handle[g].slot_id
  <2>1. p \in Phases /\ id \in SlotIds /\ id \notin detached[p]
    BY <1>0, <1>9, HandleFields DEF IsArmed, SlotsFresh
  <2>2. EraseSlot(p, id)
    BY <1>9
  <2>2a. \A q \in Phases : \A x : x \in Owned(q)' <=> x \in Owned(q) /\ ~(q = p /\ x = id)
    BY <1>7, <1>9
  <2> HIDE DEF p, id
  <2>3. /\ hooks' \in [Phases -> Seq(SlotIds)]
        /\ any_hooks' \in [Phases -> BOOLEAN]
        /\ standing' \in [Threads -> SUBSET SlotIds]
        /\ Range(hooks'[p]) = Range(hooks[p]) \ {id}
        /\ \A q \in Phases : /\ q # p => hooks'[q] = hooks[q]
                             /\ IsInjective(hooks'[q])
        /\ GateAccurate'
    BY <2>1, <2>2, EraseSlotEffect
  <2>4. TypeOK'
    BY <2>3, <1>0, <1>1, <1>3 DEF TypeOK
  <2>5. ASSUME NEW q \in Phases
        PROVE  /\ Range(hooks'[q]) = Owned(q)' \cup detached'[q]
               /\ Owned(q)' \cap detached'[q] = {}
               /\ IsInjective(hooks'[q])
    <3>1. CASE q = p
      BY <3>1, <2>1, <2>2a, <2>3, <1>0, <1>1 DEF RegistrationsOwned
    <3>2. CASE q # p
      BY <3>2, <2>2a, <2>3, <1>0, <1>1 DEF RegistrationsOwned
    <3> QED BY <3>1, <3>2
  <2>6. RegistrationsOwned'
    BY <2>5, <1>6 DEF RegistrationsOwned
  <2>7. FireInv'
    BY <2>1, <2>2, <1>1, EraseSlotFirings
  <2> QED BY <2>3, <2>4, <2>6, <2>7, <1>5 DEF IInv, BusInv
<1> QED BY <1>8, <1>9 DEF Move

\* Detaching a handle makes its slot permanent.
LEMMA DetachStep ==
  ASSUME IInv, NEW h \in Handles, Detach(h)
  PROVE  IInv'
<1> DEFINE p == handle[h].phase
           id == handle[h].slot_id
<1>0. TypeOK /\ SlotsFresh /\ RegistrationsOwned /\ GateAccurate
  BY DEF IInv, BusInv
<1>1. /\ IsArmed(h)
      /\ detached' = [detached EXCEPT ![p] = @ \cup {id}]
      /\ handle' = [handle EXCEPT ![h] = Disarmed]
      /\ UNCHANGED <<next_slot_id, hooks, any_hooks, firing, standing, seen>>
  BY DEF Detach, fireVars
<1>2. p \in Phases /\ id \in SlotIds
  BY <1>0, <1>1, HandleFields DEF IsArmed
<1>3. id < next_slot_id /\ id \notin detached[p] /\ id \in Owned(p)
  BY <1>0, <1>1, <1>2 DEF SlotsFresh, IsArmed, Owned
<1>4. \A k \in Handles : handle[k].state # "disarmed" /\ handle[k].slot_id = id => k = h
  BY <1>0, <1>1 DEF SlotsFresh, IsArmed
<1>5. \A k \in Handles : IsArmed(k) /\ k = h => handle[k].phase = p /\ handle[k].slot_id = id
  OBVIOUS
<1> HIDE DEF p, id
<1>6. /\ handle'[h] = Disarmed /\ \A k \in Handles : k # h => handle'[k] = handle[k]
      /\ detached'[p] = detached[p] \cup {id}
      /\ \A q \in Phases : q # p => detached'[q] = detached[q]
  BY <1>0, <1>1, <1>2 DEF TypeOK
<1>7. TypeOK'
  <2>1. handle' \in [Handles -> {Disarmed}
                   \cup [state : {"adding", "armed"}, phase : Phases, slot_id : SlotIds]]
    BY <1>0, <1>1 DEF TypeOK
  <2>2. detached' \in [Phases -> SUBSET SlotIds]
    BY <1>0, <1>1, <1>2 DEF TypeOK
  <2> QED BY <2>1, <2>2, <1>0, <1>1 DEF TypeOK
<1>8. SlotsFresh'
  <2>1. ASSUME NEW k \in Handles, handle'[k].state # "disarmed"
        PROVE  handle'[k].slot_id < next_slot_id' /\ handle'[k].slot_id \notin detached'[handle'[k].phase]
    <3>1. k # h /\ handle'[k] = handle[k] /\ handle[k].state # "disarmed"
      BY <2>1, <1>6 DEF Disarmed
    <3>2. handle[k].slot_id # id /\ handle[k].phase \in Phases
      BY <3>1, <1>0, <1>4, HandleFields
    <3> QED BY <3>1, <3>2, <1>0, <1>1, <1>6 DEF SlotsFresh
  <2>2. \A k, m \in Handles :
          /\ handle'[k].state # "disarmed" /\ handle'[m].state # "disarmed"
          /\ handle'[k].slot_id = handle'[m].slot_id
          => k = m
    BY <1>0, <1>6 DEF SlotsFresh, Disarmed
  <2>3. \A q \in Phases : \A x \in detached'[q] : x < next_slot_id'
    BY <1>0, <1>1, <1>3, <1>6 DEF SlotsFresh
  <2> QED BY <2>1, <2>2, <2>3 DEF SlotsFresh
<1>9. RegistrationsOwned'
  <2>1. ASSUME NEW q \in Phases, NEW x
        PROVE  x \in Owned(q)' <=> x \in Owned(q) /\ ~(q = p /\ x = id)
    <3>1. x \in Owned(q)' <=>
            \E g \in Handles : IsArmed(g)' /\ handle'[g].phase = q /\ handle'[g].slot_id = x
      BY DEF Owned
    <3>2. x \in Owned(q) <=>
            \E g \in Handles : IsArmed(g) /\ handle[g].phase = q /\ handle[g].slot_id = x
      BY OwnedElements
    <3>3. \A g \in Handles : IsArmed(g)' <=> IsArmed(g) /\ g # h
      BY <1>6 DEF IsArmed, Disarmed
    <3>4. \A g \in Handles : IsArmed(g) /\ handle[g].slot_id = id => g = h
      BY <1>4 DEF IsArmed
    <3> QED BY <3>1, <3>2, <3>3, <3>4, <1>5, <1>6
  <2>2. ASSUME NEW q \in Phases
        PROVE  /\ Range(hooks'[q]) = Owned(q)' \cup detached'[q]
               /\ Owned(q)' \cap detached'[q] = {}
               /\ IsInjective(hooks'[q])
    <3>1. CASE q = p
      BY <3>1, <2>1, <1>0, <1>1, <1>2, <1>3, <1>6, SMTT(30) DEF RegistrationsOwned
    <3>2. CASE q # p
      BY <3>2, <2>1, <1>0, <1>1, <1>6 DEF RegistrationsOwned
    <3> QED BY <3>1, <3>2
  <2>3. \A g, k \in Handles :
          IsArmed(g)' /\ IsArmed(k)' /\ handle'[g].slot_id = handle'[k].slot_id => g = k
    BY <1>8 DEF SlotsFresh, IsArmed
  <2> QED BY <2>2, <2>3 DEF RegistrationsOwned
<1>10. GateAccurate' /\ FireInv'
  BY <1>0, <1>1 DEF GateAccurate, IInv, FireInv, FiringCovered, FiringComplete, FiringSound
<1> QED BY <1>7, <1>8, <1>9, <1>10 DEF IInv, BusInv
=============================================================================
