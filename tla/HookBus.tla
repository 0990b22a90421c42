------------------------------ MODULE HookBus ------------------------------
(***************************************************************************)
(* The server-wide hook bus and the handles that own its registrations     *)
(* (detail/hook_bus.cpp, hook_handle.cpp).                                 *)
(*                                                                         *)
(* A hook is known by its slot id.  Registration calls come from any       *)
(* thread, hooks that are running included, so they are tied to the handle *)
(* object they fill and not to a thread; Threads are the request threads   *)
(* that fire phases.  Each critical section of hook_table_mutex_ is one    *)
(* step, and so is the fetch_add that precedes a push.                     *)
(***************************************************************************)
EXTENDS Naturals, Sequences, SequencesExt

CONSTANTS Phases,       \* the phases in use, by their names in hook_phase.hpp
          Aliases,      \* the phases whose alias slot the constructor wired
          Handles,      \* the hook_handle objects of the application
          Threads,      \* the request threads
          MaxSlotId     \* the largest value of next_slot_id_

ASSUME BusAssumption ==
  /\ Phases # {}
  /\ Aliases \subseteq Phases \cap {"handler_exception", "response_sent"}
  /\ MaxSlotId \in Nat

VARIABLES next_slot_id, \* the allocator of slot ids
          hooks,        \* per phase, the slot ids in the order they were pushed
          any_hooks,    \* per phase, the advisory gate
          handle,       \* the handle objects
          detached,     \* history: per phase, the slots that were detached
          firing,       \* per thread, the firing it is in or did last
          standing,     \* history: slots registered ever since it began
          seen          \* history: slots registered at some time since it began

busVars == <<next_slot_id, hooks, any_hooks, handle, detached>>
fireVars == <<firing, standing, seen>>
vars == <<next_slot_id, hooks, any_hooks, handle, detached, firing, standing, seen>>

SlotIds == 1 .. MaxSlotId

\* The phases whose hooks return a hook_action; the others only observe.
ShortCircuit == {"request_received", "body_chunk", "before_handler",
                 "handler_exception", "after_handler"}

Disarmed == [state |-> "disarmed"]
Adding(p, id) == [state |-> "adding", phase |-> p, slot_id |-> id]
Armed(p, id) == [state |-> "armed", phase |-> p, slot_id |-> id]

Idle(p) == [phase |-> p, stage |-> "idle", snapshot |-> <<>>, ran |-> <<>>,
            alias |-> FALSE, answered |-> FALSE, failed |-> FALSE]

\* set_handler_exception_alias arms its gate, set_log_access_alias does not.
Init ==
  /\ next_slot_id = 1
  /\ hooks = [p \in Phases |-> <<>>]
  /\ any_hooks = [p \in Phases |-> p \in Aliases /\ p = "handler_exception"]
  /\ handle = [h \in Handles |-> Disarmed]
  /\ detached = [p \in Phases |-> {}]
  /\ firing = [t \in Threads |-> Idle(CHOOSE p \in Phases : TRUE)]
  /\ standing = [t \in Threads |-> {}]
  /\ seen = [t \in Threads |-> {}]
----------------------------------------------------------------------------
(* Registration and removal *)

IsArmed(h) == handle[h].state = "armed"

\* Mutant: the slot takes the value after the increment.
AllocateNext(h, p) ==
  /\ handle[h].state = "disarmed"
  /\ next_slot_id <= MaxSlotId
  /\ handle' = [handle EXCEPT ![h] = Adding(p, next_slot_id + 1)]
  /\ next_slot_id' = next_slot_id + 1
  /\ UNCHANGED <<hooks, any_hooks, detached, fireVars>>

\* add_impl up to the fetch_add: the id is taken before the lock.
AllocateSlot(h, p) ==
  /\ handle[h].state = "disarmed"
  /\ next_slot_id <= MaxSlotId
  /\ handle' = [handle EXCEPT ![h] = Adding(p, next_slot_id)]
  /\ next_slot_id' = next_slot_id + 1
  /\ UNCHANGED <<hooks, any_hooks, detached, fireVars>>

\* The critical section of add_impl, and the handle that add_hook returns.
PushSlot(h) ==
  LET p == handle[h].phase
      id == handle[h].slot_id IN
  /\ handle[h].state = "adding"
  /\ hooks' = [hooks EXCEPT ![p] = Append(@, id)]
  /\ any_hooks' = [any_hooks EXCEPT ![p] = TRUE]
  /\ handle' = [handle EXCEPT ![h] = Armed(p, id)]
  /\ seen' = [t \in Threads |-> IF firing[t].phase = p THEN seen[t] \cup {id} ELSE seen[t]]
  /\ UNCHANGED <<next_slot_id, detached, firing, standing>>

\* push_back throws, before the gate is stored: the id is spent and add_hook
\* returns no handle.
FailPush(h) ==
  /\ handle[h].state = "adding"
  /\ handle' = [handle EXCEPT ![h] = Disarmed]
  /\ UNCHANGED <<next_slot_id, hooks, any_hooks, detached, fireVars>>

\* Mutant: the gate follows the vector alone, whatever alias is wired.
EraseForgetsAlias(p, id) ==
  /\ \E i \in DOMAIN hooks[p] :
       /\ hooks[p][i] = id
       /\ hooks' = [hooks EXCEPT ![p] = RemoveAt(@, i)]
       /\ any_hooks' = [any_hooks EXCEPT ![p] = @ /\ Len(hooks[p]) > 1]
  /\ standing' = [t \in Threads |-> IF firing[t].phase = p THEN standing[t] \ {id} ELSE standing[t]]

\* Mutant: the last entry takes the place of the erased one.
EraseBySwap(p, id) ==
  /\ \E i \in DOMAIN hooks[p] :
       /\ hooks[p][i] = id
       /\ hooks' = [hooks EXCEPT ![p] = Front([@ EXCEPT ![i] = Last(hooks[p])])]
       /\ any_hooks' = [any_hooks EXCEPT ![p] = @ /\ (Len(hooks[p]) > 1 \/ p \in Aliases)]
  /\ standing' = [t \in Threads |-> IF firing[t].phase = p THEN standing[t] \ {id} ELSE standing[t]]

\* hook_bus::remove: erase the first match; the gate follows an empty vector
\* unless an alias still needs the phase.  No match changes nothing.
EraseSlot(p, id) ==
  /\ \/ \E i \in DOMAIN hooks[p] :
          /\ hooks[p][i] = id
          /\ \A j \in 1 .. i - 1 : hooks[p][j] # id
          /\ hooks' = [hooks EXCEPT ![p] = RemoveAt(@, i)]
          /\ any_hooks' = [any_hooks EXCEPT ![p] = @ /\ (Len(hooks[p]) > 1 \/ p \in Aliases)]
     \/ /\ id \notin Range(hooks[p])
        /\ UNCHANGED <<hooks, any_hooks>>
  /\ standing' = [t \in Threads |-> IF firing[t].phase = p THEN standing[t] \ {id} ELSE standing[t]]

\* hook_handle::remove on an armed handle, and the destructor.
RemoveHandle(h) ==
  /\ IsArmed(h)
  /\ EraseSlot(handle[h].phase, handle[h].slot_id)
  /\ handle' = [handle EXCEPT ![h] = Disarmed]
  /\ UNCHANGED <<next_slot_id, detached, firing, seen>>

\* Mutant: the source of a move stays armed.
MoveKeepsSource(h, g) ==
  /\ h # g
  /\ IsArmed(h)
  /\ handle[g].state = "disarmed"
  /\ handle' = [handle EXCEPT ![g] = handle[h]]
  /\ UNCHANGED <<next_slot_id, hooks, any_hooks, detached, fireVars>>

\* Move construction and move assignment from h to g: what g owns is removed
\* first, then g takes over what h owns.  (A disarmed h makes it a removal of g.)
Move(h, g) ==
  /\ h # g
  /\ IsArmed(h)
  /\ handle[g].state # "adding"
  /\ handle' = [handle EXCEPT ![h] = Disarmed, ![g] = handle[h]]
  /\ \/ /\ IsArmed(g)
        /\ EraseSlot(handle[g].phase, handle[g].slot_id)
     \/ /\ ~ IsArmed(g)
        /\ UNCHANGED <<hooks, any_hooks, standing>>
  /\ UNCHANGED <<next_slot_id, detached, firing, seen>>

\* detach: the registration stays, no handle removes it any more.
Detach(h) ==
  /\ IsArmed(h)
  /\ detached' = [detached EXCEPT ![handle[h].phase] = @ \cup {handle[h].slot_id}]
  /\ handle' = [handle EXCEPT ![h] = Disarmed]
  /\ UNCHANGED <<next_slot_id, hooks, any_hooks, fireVars>>
----------------------------------------------------------------------------
(* Firing *)

\* A firing of p begins when the thread reads the gate.
Begin(t, p, stage) ==
  /\ firing[t].stage \in {"idle", "done"}
  /\ firing' = [firing EXCEPT ![t] = [Idle(p) EXCEPT !.stage = stage, !.snapshot = firing[t].snapshot]]
  /\ standing' = [standing EXCEPT ![t] = Range(hooks[p])]
  /\ seen' = [seen EXCEPT ![t] = Range(hooks[p])]
  /\ UNCHANGED busVars

\* The caller finds the gate open, or the alias wired; response_sent is also
\* fired when only the route's own table has hooks for it.
EnterPhase(t, p) ==
  /\ any_hooks[p] \/ p \in Aliases \/ p = "response_sent"
  /\ Begin(t, p, "entered")

SkipPhase(t, p) ==
  /\ ~ any_hooks[p] /\ p \notin Aliases
  /\ Begin(t, p, "done")

\* Mutant: the thread-local buffer is not cleared.
SnapshotAppends(t) ==
  /\ firing[t].stage = "entered"
  /\ firing' = [firing EXCEPT ![t].stage = "running", ![t].snapshot = @ \o hooks[firing[t].phase]]
  /\ UNCHANGED <<busVars, standing, seen>>

\* clear, then copy the phase vector under the shared lock.
TakeSnapshot(t) ==
  /\ firing[t].stage = "entered"
  /\ firing' = [firing EXCEPT ![t].stage = "running", ![t].snapshot = hooks[firing[t].phase]]
  /\ UNCHANGED <<busVars, standing, seen>>

\* The copy throws: it is logged and no user hook runs.
FailSnapshot(t) ==
  /\ firing[t].stage = "entered"
  /\ firing' = [firing EXCEPT ![t].stage = "running", ![t].snapshot = <<>>, ![t].failed = TRUE]
  /\ UNCHANGED <<busVars, standing, seen>>

\* Mutant: the exception is caught outside the loop over the snapshot.
ThrowEndsChain(t, action) ==
  LET f == firing[t]
      responds == action = "respond" /\ f.phase \in ShortCircuit IN
  /\ f.stage = "running" /\ f.snapshot # <<>>
  /\ firing' = [firing EXCEPT ![t].ran = Append(@, Head(f.snapshot)),
                              ![t].snapshot = IF action = "throw" THEN <<>> ELSE Tail(@),
                              ![t].answered = responds,
                              ![t].stage = IF responds THEN "done" ELSE @]
  /\ UNCHANGED <<busVars, standing, seen>>

\* The next hook of the snapshot runs.  A hook that throws counts as a pass; a
\* response ends the chain.
CallHook(t, action) ==
  LET f == firing[t]
      responds == action = "respond" /\ f.phase \in ShortCircuit IN
  /\ f.stage = "running" /\ f.snapshot # <<>>
  /\ firing' = [firing EXCEPT ![t].ran = Append(@, Head(f.snapshot)),
                              ![t].snapshot = Tail(@),
                              ![t].answered = responds,
                              ![t].stage = IF responds THEN "done" ELSE @]
  /\ UNCHANGED <<busVars, standing, seen>>

\* Every user hook passed: the alias slot, where there is one, runs last.
RunTail(t, action) ==
  LET f == firing[t]
      alias == f.phase \in Aliases IN
  /\ f.stage = "running" /\ f.snapshot = <<>>
  /\ firing' = [firing EXCEPT ![t].stage = "done",
                              ![t].alias = alias,
                              ![t].answered = alias /\ action = "respond" /\ f.phase \in ShortCircuit]
  /\ UNCHANGED <<busVars, standing, seen>>

Actions == {"pass", "throw", "respond"}

Register == \E h \in Handles : (\E p \in Phases : AllocateSlot(h, p)) \/ PushSlot(h) \/ FailPush(h)
Release == \E h \in Handles : RemoveHandle(h) \/ Detach(h) \/ (\E g \in Handles : Move(h, g))
Fire == \E t \in Threads :
          \/ \E p \in Phases : EnterPhase(t, p) \/ SkipPhase(t, p)
          \/ TakeSnapshot(t) \/ FailSnapshot(t)
          \/ \E action \in Actions : CallHook(t, action) \/ RunTail(t, action)

Next == Register \/ Release \/ Fire

Spec == Init /\ [][Next]_vars
----------------------------------------------------------------------------
(* Properties *)

\* The handles, slots and vectors have their types.
TypeOK ==
  /\ next_slot_id \in 1 .. MaxSlotId + 1
  /\ hooks \in [Phases -> Seq(SlotIds)]
  /\ any_hooks \in [Phases -> BOOLEAN]
  /\ handle \in [Handles -> {Disarmed}
                   \cup [state : {"adding", "armed"}, phase : Phases, slot_id : SlotIds]]
  /\ detached \in [Phases -> SUBSET SlotIds]
  /\ firing \in [Threads -> [phase : Phases, stage : {"idle", "entered", "running", "done"},
                             snapshot : Seq(SlotIds), ran : Seq(SlotIds),
                             alias : BOOLEAN, answered : BOOLEAN, failed : BOOLEAN]]
  /\ standing \in [Threads -> SUBSET SlotIds]
  /\ seen \in [Threads -> SUBSET SlotIds]

\* The gate never hides a hook: a phase with a registration has its gate open,
\* an open gate means a registration or a wired alias, and the gate of
\* handler_exception is "the single source of truth even when only the alias is
\* wired" (hook_bus.hpp:170-172), also after its last hook was removed.  It is
\* stored in three places (set_handler_exception_alias, add_impl and remove)
\* that must agree with the vector and the alias slot.
GateAccurate ==
  \A p \in Phases :
    /\ hooks[p] # <<>> => any_hooks[p]
    /\ any_hooks[p] => hooks[p] # <<>> \/ p \in Aliases
    /\ p \in Aliases /\ p = "handler_exception" => any_hooks[p]

Owned(p) == {handle[h].slot_id : h \in {g \in Handles : IsArmed(g) /\ handle[g].phase = p}}

\* Registrations are neither leaked nor lost: whatever handles were moved,
\* assigned over, detached, removed or destroyed, the vector of a phase holds
\* the slots of its armed handles and the detached ones, each once, and no slot
\* has two owners.
RegistrationsOwned ==
  /\ \A p \in Phases :
       /\ Range(hooks[p]) = Owned(p) \cup detached[p]
       /\ Owned(p) \cap detached[p] = {}
       /\ IsInjective(hooks[p])
  /\ \A h, g \in Handles :
       IsArmed(h) /\ IsArmed(g) /\ handle[h].slot_id = handle[g].slot_id => h = g

\* A firing that no user hook answered has run every hook that was registered
\* when it began and still is: neither the gate, nor the snapshot, nor a hook
\* that throws, adds or removes hooks makes it miss one, and the alias, the last
\* resort, never answers in place of a hook that has not run.
FiringComplete ==
  \A t \in Threads :
    LET f == firing[t] IN
    f.stage = "done" /\ (f.answered => f.alias) /\ ~ f.failed
      => standing[t] \subseteq Range(f.ran)

\* A firing runs only hooks that were registered at some time since it began:
\* a hook removed before is never called again, whatever snapshots the thread
\* took earlier.
FiringSound == \A t \in Threads : Range(firing[t].ran) \subseteq seen[t]

\* Hooks run once and in the order of registration, as far as that is still
\* visible in the vector.
FiringInOrder ==
  \A t \in Threads :
    LET f == firing[t] IN
    \A i, j \in DOMAIN f.ran :
      i < j => /\ f.ran[i] # f.ran[j]
               /\ \A m, n \in DOMAIN hooks[f.phase] :
                    hooks[f.phase][m] = f.ran[i] /\ hooks[f.phase][n] = f.ran[j] => m < n
=============================================================================
