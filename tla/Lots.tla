-------------------------------- MODULE Lots --------------------------------
(***************************************************************************)
(* Which ready entry is dispatched next, and by how many lots at a time:   *)
(* the scheduling policy with its aging and its starvation override, the   *)
(* daemon's cycle that collects and submits dispatch lots, and a command   *)
(* line worker that dispatches beside the daemon.                          *)
(*                                                                         *)
(* Dispatch says which entries become ready and what a run does.  Here an  *)
(* entry is its slot, a Session and a role, and a run is the time between  *)
(* its lease and its end.  One unit of time is AGING_INTERVAL_SECONDS.     *)
(***************************************************************************)
EXTENDS Integers, Sequences, FiniteSets, FiniteSetsExt, SequencesExt

CONSTANTS
  Slots,           (* (session_id, role) pairs                             *)
  Sessions,        (* Session ids                                          *)
  SessionOf,       (* the Session of each slot                             *)
  Policies,        (* [Sessions -> Int]: class score plus base priority,   *)
                   (* the values a Session may be given                    *)
  StarvationWait,  (* STARVATION_WAIT_SECONDS, in aging intervals          *)
  AgingLimit,      (* AGING_SCORE_LIMIT                                    *)
  LotCap,          (* max_dispatch_lots                                    *)
  LotSizes,        (* the sizes set_dispatch_lot_size is called with       *)
  Pausable,        (* the Sessions whose Unit may be paused                *)
  WorkerSessions,  (* the session_id filters of command line workers       *)
  MaxEvents        (* bound on what users, administrators and faults do    *)

ASSUME LotsAssumption ==
  /\ Slots \subseteq Nat \ {0} /\ IsFiniteSet(Slots)
  /\ SessionOf \in [Slots -> Sessions]
  /\ Policies \subseteq [Sessions -> Int]
  /\ StarvationWait \in Nat /\ AgingLimit \in Nat /\ MaxEvents \in Nat
  /\ LotCap \in Nat \ {0} /\ LotSizes \subseteq Nat \ {0}
  /\ Pausable \subseteq Sessions
  /\ WorkerSessions \subseteq SUBSET Sessions

DaemonLots == 1..LotCap
Worker == 0
NoSlot == 0
AllLots == DaemonLots \cup {Worker}
DefaultPolicy == [x \in Sessions |-> 0]
LotStates ==
  {"free", "submitted", "running", "superseded", "dispatched", "nothing", "failed"}

VARIABLES
  queue,    (* the ready entries in the order of first_ready_at            *)
  age,      (* how long each has waited, up to StarvationWait              *)
  held,     (* the slots whose available_after lies in the future          *)
  leased,   (* slots with an acquired run                                  *)
  lapsed,   (* those of them whose lease has expired                       *)
  policy,   (* scheduling_policy of each Session                           *)
  paused,   (* Sessions whose Unit is paused                               *)
  lot,      (* what each dispatch_once call is doing; Worker is the        *)
            (* command line's                                              *)
  slot,     (* the slot a running lot has leased                           *)
  size,     (* runtime_settings.dispatch_lot_size                          *)
  idle,     (* idle_polls > 0                                              *)
  daemon,   (* up, draining (no more submissions) or down                  *)
  filter,   (* the Sessions a command line worker dispatches               *)
  events    (* how many of MaxEvents were taken                            *)

entries == <<queue, age, held>>
leases == <<leased, lapsed>>
settings == <<policy, paused, size>>
vars == <<entries, settings, leases, lot, slot, idle, daemon, filter, events>>

Spend == events < MaxEvents /\ events' = events + 1
Queued(s) == Contains(queue, s)
Running(l) == lot[l] = "running"
LotsOf(s) == {l \in AllLots : Running(l) /\ slot[l] = s}

-----------------------------------------------------------------------------
(***************************************************************************)
(* The policy, for the calls of dispatch_once that look at the Sessions in *)
(* scope.  Reconciliation comes first: it interrupts the runs whose lease  *)
(* has lapsed and makes their slots ready again.                           *)
(***************************************************************************)
(* Entries that become ready at the same time are in the order of Sessions.*)
InOrder(S) ==
  CHOOSE q \in [1..Cardinality(S) -> S] : \A m, n \in 1..Cardinality(S) : m < n => q[m] < q[n]
(* Mutant: a slot that is ready already gets a second entry. *)
EnqueuedAgain(S) == queue \o InOrder(S)
Enqueued(S) == queue \o InOrder({s \in S : ~Queued(s)})
Acquired == leased \ lapsed

(* scheduling_score *)
Score(s) == policy[SessionOf[s]] + (IF age[s] < AgingLimit THEN age[s] ELSE AgingLimit)
(* Mutant: a slot with an acquired run may be leased again. *)
AvailableOrAcquired(s, scope) == s \notin held /\ SessionOf[s] \in scope
Available(s, scope) == s \notin held /\ s \notin Acquired /\ SessionOf[s] \in scope
Candidates(scope) == {s \in Slots : (Queued(s) \/ s \in lapsed) /\ Available(s, scope)}
(* Mutant: aging is all there is against starvation. *)
NeverStarved(scope) == {}
Starved(scope) == {s \in Candidates(scope) : age[s] >= StarvationWait}
Best(scope) ==
  LET candidates == Candidates(scope)
  IN {s \in candidates : \A t \in candidates : Score(t) <= Score(s)}
(* Those that reconciliation has only just made ready come last. *)
Oldest(S) ==
  LET places == {n \in DOMAIN queue : queue[n] \in S}
  IN IF places # {} THEN queue[Min(places)] ELSE Min(S)
(* select_role_dispatch_readiness: the oldest of those that starve, or     *)
(* else the oldest of those with the highest score.                        *)
Selected(scope) == Oldest(IF Starved(scope) # {} THEN Starved(scope) ELSE Best(scope))

-----------------------------------------------------------------------------
(***************************************************************************)
(* Entries.  Reconciliation keeps one ready entry per slot, and one may    *)
(* become ready while the slot's last run is still acquired.               *)
(***************************************************************************)
Ready(s) ==
  /\ ~Queued(s)
  /\ queue' = Append(queue, s)
  /\ UNCHANGED <<age, held, settings, leases, lot, slot, idle, daemon, filter, events>>
(* New wake reasons without a delay make a delayed entry available. *)
Refreshed(s) ==
  /\ Queued(s) /\ s \in held
  /\ held' = held \ {s}
  /\ UNCHANGED <<queue, age, settings, leases, lot, slot, idle, daemon, filter, events>>
(* The goal is completed, waits or its Session becomes inactive. *)
Withdrawn(s) ==
  /\ Spend
  /\ Queued(s)
  /\ queue' = RemoveFirst(queue, s)
  /\ held' = held \ {s}
  /\ age' = [age EXCEPT ![s] = 0]
  /\ UNCHANGED <<settings, leases, lot, slot, idle, daemon, filter>>

(* Time: ages grow and delays pass. *)
Tick ==
  /\ age' = [s \in Slots |-> IF Queued(s) /\ age[s] < StarvationWait THEN age[s] + 1 ELSE age[s]]
  /\ held' = {}
  /\ UNCHANGED <<queue, settings, leases, lot, slot, idle, daemon, filter, events>>

-----------------------------------------------------------------------------
(***************************************************************************)
(* dispatch_once, called by a lot of the daemon or by the worker.          *)
(***************************************************************************)
Scope(l) == IF l = Worker THEN filter ELSE Sessions
(* Mutant: the state of the Unit is not looked at. *)
AnyLeasable(s) == TRUE
Leasable(s) == SessionOf[s] \notin paused
(* _acquire_dispatch_lease_locked *)
Lease(l) ==
  LET s == Selected(Scope(l)) IN
  /\ lot[l] = "submitted"
  /\ Candidates(Scope(l)) # {}
  /\ Leasable(s)
  /\ queue' = RemoveFirst(Enqueued(lapsed), s)
  /\ age' = [age EXCEPT ![s] = 0]
  /\ leased' = Acquired \cup {s}
  /\ lapsed' = {}
  /\ slot' = [slot EXCEPT ![l] = s]
  /\ lot' = [lot EXCEPT ![l] = "running"]
  /\ UNCHANGED <<held, settings, idle, daemon, filter, events>>
(* The Unit is paused: StoreError.  Nothing is saved, neither what was     *)
(* reconciled nor the entry's state.                                       *)
LeaseRaises(l) ==
  /\ lot[l] = "submitted"
  /\ Candidates(Scope(l)) # {}
  /\ ~Leasable(Selected(Scope(l)))
  /\ lot' = [lot EXCEPT ![l] = "failed"]
  /\ UNCHANGED <<entries, settings, leases, slot, idle, daemon, filter, events>>
NothingToLease(l) ==
  /\ lot[l] = "submitted"
  /\ Candidates(Scope(l)) = {}
  /\ lot' = [lot EXCEPT ![l] = "nothing"]
  /\ queue' = Enqueued(lapsed) /\ leased' = Acquired /\ lapsed' = {}
  /\ UNCHANGED <<age, held, settings, slot, idle, daemon, filter, events>>

(* The lease of a run that is gone reaches DISPATCH_LEASE_RECOVERY_SECONDS,*)
(* which a run that is there cannot: its provider call is ended before.    *)
Abandoned == {s \in leased : LotsOf(s) = {}}
LeaseLapses(s) ==
  /\ s \in Abandoned \ lapsed
  /\ lapsed' = lapsed \cup {s}
  /\ UNCHANGED <<entries, settings, leased, lot, slot, idle, daemon, filter, events>>

(* The commit of a run, or of its AgentError, releases the lease. *)
Commit(l) ==
  /\ Running(l)
  /\ leased' = leased \ {slot[l]} /\ UNCHANGED lapsed
  /\ lot' = [lot EXCEPT ![l] = "dispatched"]
  /\ slot' = [slot EXCEPT ![l] = NoSlot]
  /\ UNCHANGED <<entries, settings, idle, daemon, filter, events>>
(* So does that of a turn without a decision or a report, and GoalManager, *)
(* unless ready for another reason, is asked after a delay                 *)
(* (_role_turn_retry_at).                                                  *)
CommitViolation(l, g) ==
  /\ Running(l) /\ SessionOf[g] = SessionOf[slot[l]]
  /\ leased' = leased \ {slot[l]} /\ UNCHANGED lapsed
  /\ queue' = Enqueued({g})
  /\ held' = IF Queued(g) THEN held ELSE held \cup {g}
  /\ lot' = [lot EXCEPT ![l] = "dispatched"]
  /\ slot' = [slot EXCEPT ![l] = NoSlot]
  /\ UNCHANGED <<age, settings, idle, daemon, filter, events>>
(* Anything else raised in a lot leaves the lease acquired. *)
LotRaises(l) ==
  /\ Spend
  /\ Running(l)
  /\ lot' = [lot EXCEPT ![l] = "failed"]
  /\ slot' = [slot EXCEPT ![l] = NoSlot]
  /\ UNCHANGED <<entries, settings, leases, idle, daemon, filter>>

-----------------------------------------------------------------------------
(***************************************************************************)
(* run_daemon.                                                             *)
(***************************************************************************)
Finished == {l \in DaemonLots : lot[l] \in {"dispatched", "nothing", "failed"}}
Collected == [l \in AllLots |-> IF l \in Finished THEN "free" ELSE lot[l]]
ActiveLots(f) == {l \in DaemonLots : f[l] # "free"}
Progress == \E l \in DaemonLots : lot[l] = "dispatched"
TargetLots ==
  IF ActiveLots(Collected) = {} /\ idle /\ ~Progress THEN 1
  ELSE IF size < LotCap THEN size ELSE LotCap
(* Mutant: only the lot ids are limited, not how many are active. *)
SubmittedByIdOnly == {l \in 1..TargetLots : Collected[l] = "free"}
(* _submit_available_lots: the lowest free ids, as long as fewer than the  *)
(* target are active.                                                      *)
Submitted ==
  LET target == TargetLots
      free == {l \in 1..target : l \in Finished \/ lot[l] = "free"}
      room == target - Cardinality(ActiveLots(Collected))
  IN {l \in free : Cardinality({k \in free : k < l}) < room}

(* One cycle: _collect_completed_lots, then _submit_available_lots.  A lot *)
(* that failed is like one that found nothing to do.                       *)
Cycle ==
  LET submitted == Submitted IN
  /\ daemon = "up"
  /\ lot' = [l \in AllLots |-> IF l \in submitted THEN "submitted" ELSE Collected[l]]
  /\ idle' = ~Progress
  /\ UNCHANGED <<entries, settings, leases, slot, daemon, filter, events>>
(* max_cycles or idle_timeout: the lots still active are waited for. *)
DaemonEnds ==
  /\ Spend
  /\ daemon = "up"
  /\ daemon' = "draining"
  /\ UNCHANGED <<entries, settings, leases, lot, slot, idle, filter>>
DaemonDrained ==
  /\ daemon = "draining"
  /\ ActiveLots(Collected) = {}
  /\ daemon' = "down" /\ idle' = FALSE
  /\ lot' = Collected
  /\ UNCHANGED <<entries, settings, leases, slot, filter, events>>
(* A crash takes every lot along; their leases stay acquired. *)
DaemonCrashes ==
  /\ Spend
  /\ daemon # "down"
  /\ daemon' = "down" /\ idle' = FALSE
  /\ lot' = [l \in AllLots |-> IF l = Worker THEN lot[l] ELSE "free"]
  /\ slot' = [l \in AllLots |-> IF l = Worker THEN slot[l] ELSE NoSlot]
  /\ UNCHANGED <<entries, settings, leases, filter>>
(* init, record_runtime_recovery_signals and set_dispatch_lot_size: every  *)
(* acquired run is interrupted, also that of a command line worker, which  *)
(* goes on in its own process until its commit is discarded.  Their        *)
(* entries are ready again since the time, a ago, they first were, and     *)
(* come after the older ones (the queue is in the order of age).           *)
DaemonStarts(n, a) ==
  LET recovered == {s \in leased : ~Queued(s)}
      older == Cardinality({k \in DOMAIN queue : age[queue[k]] > a})
  IN
  /\ daemon = "down"
  /\ daemon' = "up"
  /\ size' = n
  /\ queue' = SubSeq(queue, 1, older) \o InOrder(recovered) \o SubSeq(queue, older + 1, Len(queue))
  /\ age' = [s \in Slots |-> IF s \in recovered THEN a ELSE age[s]]
  /\ leased' = {} /\ lapsed' = {}
  /\ lot' = [l \in AllLots |-> IF Running(l) THEN "superseded" ELSE lot[l]]
  /\ slot' = [l \in AllLots |-> NoSlot]
  /\ UNCHANGED <<held, policy, paused, idle, filter, events>>
(* The lease is lost: the commit changes nothing. *)
Discard ==
  /\ lot[Worker] = "superseded"
  /\ lot' = [lot EXCEPT ![Worker] = "dispatched"]
  /\ UNCHANGED <<entries, settings, leases, slot, idle, daemon, filter, events>>

(* run_dispatch_worker and run_dispatch_loop: one dispatch after another,  *)
(* again and again while there is nothing to do, until a limit is reached  *)
(* or dispatch_once raises.                                                *)
WorkerStarts(scope) ==
  /\ Spend
  /\ lot[Worker] = "free"
  /\ filter' = scope
  /\ lot' = [lot EXCEPT ![Worker] = "submitted"]
  /\ UNCHANGED <<entries, settings, leases, slot, idle, daemon>>
WorkerRepeats ==
  /\ lot[Worker] \in {"dispatched", "nothing"}
  /\ lot' = [lot EXCEPT ![Worker] = "submitted"]
  /\ UNCHANGED <<entries, settings, leases, slot, idle, daemon, filter, events>>
WorkerEnds ==
  /\ lot[Worker] \in {"dispatched", "nothing", "failed"}
  /\ lot' = [lot EXCEPT ![Worker] = "free"]
  /\ filter' = Sessions
  /\ UNCHANGED <<entries, settings, leases, slot, idle, daemon, events>>

-----------------------------------------------------------------------------
(***************************************************************************)
(* Administration.                                                         *)
(***************************************************************************)
(* set_session_scheduling_policy *)
SetSchedulingPolicy(p) ==
  /\ policy' = p
  /\ UNCHANGED <<entries, paused, size, leases, lot, slot, idle, daemon, filter, events>>
SetDispatchLotSize(n) ==
  /\ Spend
  /\ size' = n
  /\ UNCHANGED <<entries, policy, paused, leases, lot, slot, idle, daemon, filter>>
SetUnitActive(x) ==
  /\ Spend
  /\ paused' = IF x \in paused THEN paused \ {x} ELSE paused \cup {x}
  /\ UNCHANGED <<entries, policy, size, leases, lot, slot, idle, daemon, filter>>

Init ==
  /\ queue = <<>> /\ age = [s \in Slots |-> 0] /\ held = {}
  /\ leased = {} /\ lapsed = {} /\ policy = DefaultPolicy /\ paused = {}
  /\ lot = [l \in AllLots |-> "free"] /\ slot = [l \in AllLots |-> NoSlot]
  /\ size = 1 /\ idle = FALSE /\ daemon = "down"
  /\ filter = Sessions /\ events = 0

EntryStep ==
  \/ \E s \in Slots : Ready(s)
  \/ \E s \in Slots : Refreshed(s)
  \/ \E s \in Slots : Withdrawn(s)
  \/ Tick
DispatchOnce(l) ==
  \/ Lease(l)
  \/ LeaseRaises(l)
  \/ NothingToLease(l)
  \/ Commit(l)
  \/ \E g \in Slots : CommitViolation(l, g)
DaemonStep ==
  \/ Cycle
  \/ DaemonEnds
  \/ DaemonDrained
  \/ DaemonCrashes
  \/ \E n \in LotSizes, a \in 0..StarvationWait : DaemonStarts(n, a)
WorkerStep ==
  \/ \E scope \in WorkerSessions : WorkerStarts(scope)
  \/ Discard
  \/ WorkerRepeats
  \/ WorkerEnds
AdminStep ==
  \/ \E p \in Policies : SetSchedulingPolicy(p)
  \/ \E n \in LotSizes : SetDispatchLotSize(n)
  \/ \E x \in Pausable : SetUnitActive(x)
Next ==
  \/ EntryStep
  \/ \E l \in AllLots : DispatchOnce(l)
  \/ \E l \in AllLots : LotRaises(l)
  \/ \E s \in Slots : LeaseLapses(s)
  \/ DaemonStep
  \/ WorkerStep
  \/ AdminStep
Spec == Init /\ [][Next]_vars

(* The service manager restarts the daemon, whose loop cycles; every call  *)
(* of dispatch_once from there gets the lock and its provider call ends;   *)
(* time passes.  A command line worker owes nothing.                       *)
DaemonGoesOn == Cycle \/ DaemonDrained \/ \E n \in LotSizes, a \in 0..StarvationWait : DaemonStarts(n, a)
Fairness ==
  /\ WF_vars(DaemonGoesOn)
  /\ \A l \in DaemonLots : WF_vars(DispatchOnce(l))
  /\ WF_vars(\E s \in Slots : LeaseLapses(s)) /\ WF_vars(Tick)
FairSpec == Spec /\ Fairness

-----------------------------------------------------------------------------
(* Every component of the state has its type, a slot is queued once, and a *)
(* running lot holds the lease of the slot it runs.                        *)
TypeOK ==
  /\ queue \in Seq(Slots) /\ IsInjective(queue)
  /\ age \in [Slots -> 0..StarvationWait] /\ held \subseteq Slots
  /\ leased \subseteq Slots /\ lapsed \subseteq Abandoned
  /\ policy \in Policies \cup {DefaultPolicy} /\ paused \subseteq Pausable
  /\ lot \in [AllLots -> LotStates] /\ slot \in [AllLots -> Slots \cup {NoSlot}]
  /\ size \in LotSizes \cup {1} /\ idle \in BOOLEAN
  /\ daemon \in {"up", "draining", "down"}
  /\ filter \subseteq Sessions /\ events \in 0..MaxEvents
  /\ \A l \in AllLots : IF Running(l) THEN slot[l] \in leased ELSE slot[l] = NoSlot

(* Two lots, or a lot and a command line worker, never hold the same role  *)
(* of the same Session, although its next entry may be ready meanwhile.    *)
OneLotPerSlot == \A s \in Slots : Cardinality(LotsOf(s)) <= 1

(* A cycle submits no lot beyond the dispatch lot size, also when the size *)
(* was lowered while lots with higher ids were active.                     *)
LotSizeRespected ==
  [][Cycle => \/ Cardinality(ActiveLots(lot')) <= size
              \/ ActiveLots(lot') \subseteq ActiveLots(Collected)]_vars

(* "Pause a Unit so it cannot start Sessions at all and its Sessions       *)
(* dispatch nothing" (README.md:150): whatever its priority and age, no    *)
(* entry of a Session whose Unit is paused is leased.                      *)
PausedNotLeased ==
  [][\A s \in Slots : s \in leased' \ leased => SessionOf[s] \notin paused]_vars

Waiting(s) == Queued(s) /\ s \notin held /\ s \notin leased /\ SessionOf[s] \notin paused
Blocking(s) == Queued(s) /\ SessionOf[s] \in paused
(* Whatever priorities the others have and however often they become ready *)
(* again, an available entry is leased in the end, unless an entry of a    *)
(* paused Unit is in the way.                                              *)
ServedUnlessPaused ==
  \A s \in Slots : Waiting(s) ~> ~Waiting(s) \/ \E p \in Slots : Blocking(p)

(* "Priority controls normal ordering but cannot starve a Session          *)
(* indefinitely" (doc/2026-08-10-dispatch-liveness-invariant.md:33).       *)
Served == \A s \in Slots : Waiting(s) ~> ~Waiting(s)
=============================================================================
