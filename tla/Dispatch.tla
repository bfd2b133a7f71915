------------------------------ MODULE Dispatch ------------------------------
(***************************************************************************)
(* The dispatch core of AIze: Sessions with one current SessionGoal, the   *)
(* SessionLog each of them appends to, the role cursors and role readiness *)
(* derived from that log, and the dispatch runs by which GoalManager and   *)
(* WorkerAgent processes lease a role, work outside the state lock and     *)
(* commit their result under it.                                           *)
(*                                                                         *)
(* Every action is one state transaction: the code takes state.lock, loads *)
(* the state, mutates it and saves it.  Agents run between transactions,   *)
(* which is where all the interleaving comes from.  What a crash inside a  *)
(* save does to the files is the subject of SessionLogStore.               *)
(***************************************************************************)
EXTENDS Naturals, Sequences

CONSTANTS
  Sessions,     (* Session ids                                             *)
  Parents,      (* session_edges: the parents of each Session              *)
  Bodies,       (* SessionGoal bodies                                      *)
  DefaultBody,  (* the body of a goal created by UserInput                 *)
  WaitKinds,    (* the kinds of waiting decision GoalManager may declare   *)
  MessageKinds, (* the kinds of Messages agents write                      *)
  Working,      (* Sessions where GoalManager's first decision to have     *)
                (* work done does not count against MaxEvents              *)
  Pausable,     (* Sessions attached to a Unit that may be paused          *)
  MaxEvents,    (* bound on what users and agents do unasked               *)
  MaxFaults,    (* bound on crashes, restarts and provider overruns        *)
  MaxRuns       (* bound on dispatch runs                                  *)

GM == "GoalManager"
Worker == "WorkerAgent"
Roles == {GM, Worker}
NoRun == 0

ASSUME SessionsAssumption ==
  /\ {"none", "event"} \cap Sessions = {}
  /\ Parents \in [Sessions -> SUBSET Sessions]
  /\ \A s \in Sessions : s \notin Parents[s]
  /\ Pausable \subseteq Sessions
  /\ Working \subseteq Sessions
ASSUME DataAssumption ==
  /\ DefaultBody \in Bodies
  /\ WaitKinds \subseteq {"deadline", "event", "child"}
  /\ MessageKinds \subseteq {"WorkerRequest", "WorkerReport", "Note"}
  /\ MaxEvents \in Nat
  /\ MaxFaults \in Nat
  /\ MaxRuns \in Nat

(***************************************************************************)
(* SessionLog entries.  "Message" entries are split by the payload flags   *)
(* the dispatcher tells apart, "GoalStateChanged" by state, actor and      *)
(* deferral, "SystemSignal" by its target roles and available_after.       *)
(***************************************************************************)
AgentMessages == {"WorkerRequest", "WorkerReport", "Note"}
Messages == {"UserInput", "DeferredInput", "Followup"} \cup AgentMessages
Declared == {"DeclaredComplete", "DeclaredIncomplete", "DeclaredWaiting"}
StateChanges == {"BecameIncomplete", "BecameIncompleteDeferred"} \cup Declared
Signals == {"SignalGM", "SignalGMDelayed", "SignalBoth"}
EntryKinds == Messages \cup StateChanges \cup Signals
                \cup {"BodyUpdated", "Activated", "Deactivated", "ChildGoalCompleted"}

Entry == [kind : EntryKinds, run : Nat, tag : {"none", "event"} \cup Sessions]
Record(kind, i) == [kind |-> kind, run |-> i, tag |-> "none"]
Signal(kind) == Record(kind, NoRun)

Wait == [kind : {"none", "deadline", "event", "child"},
         child : {"none"} \cup Sessions, seq : Nat, passed : BOOLEAN]
NoWait == [kind |-> "none", child |-> "none", seq |-> 0, passed |-> FALSE]
Goal == [state : {"none", "incomplete", "complete"}, body : Bodies, wait : Wait]

(* A role readiness entry: "ready" when no run holds it, else "acquired". *)
Readiness == [role : Roles, holder : Nat, to : Nat, delayed : BOOLEAN]

(* A dispatch run; its run id is its position in `runs'.  `process' is the *)
(* dispatch_once call that will commit it.                                 *)
Run == [session : Sessions, role : Roles, body : Bodies, to : Nat,
        lease : {"acquired", "released", "interrupted"}, old : BOOLEAN,
        process : {"running", "gone"},
        declared : {"none", "complete", "incomplete", "waiting"}, wait : Wait]

VARIABLES
  goal,     (* the current SessionGoal of each Session                     *)
  active,   (* Session active flag                                         *)
  paused,   (* Sessions whose Unit is paused                               *)
  log,      (* the SessionLog of each Session                              *)
  cursor,   (* role_cursors                                                *)
  ready,    (* the dispatch_readiness entries of each Session              *)
  runs,     (* dispatch_runs in the order they were leased                 *)
  events,   (* how many of MaxEvents were taken                            *)
  faults    (* how many of MaxFaults were taken                            *)

vars == <<goal, active, paused, log, cursor, ready, runs, events, faults>>

Spend == events < MaxEvents /\ events' = events + 1 /\ UNCHANGED faults
Fault == faults < MaxFaults /\ faults' = faults + 1 /\ UNCHANGED events
Free == UNCHANGED <<events, faults>>

Larger(m, n) == IF m < n THEN n ELSE m
AdvancedCursor(s, r, n) == [cursor EXCEPT ![s][r] = Larger(@, n)]

-----------------------------------------------------------------------------
(***************************************************************************)
(* Role readiness, derived from the SessionLog.                            *)
(***************************************************************************)
(* Mutant: a run whose agent already wrote to the Session counts as ended. *)
HasAcquiredRunUnlessReported(rs, s, r) ==
  \E i \in DOMAIN rs : /\ rs[i].session = s /\ rs[i].role = r
                       /\ rs[i].lease = "acquired"
                       /\ \A n \in 1..Len(log[s]) : log[s][n].run # i
HasAcquiredRun(rs, s, r) ==
  \E i \in DOMAIN rs :
    rs[i].session = s /\ rs[i].role = r /\ rs[i].lease = "acquired"

(* Why an unread entry wakes a role. *)
WakesGoalManager(e, activeWorker) ==
  \/ e.kind \in {"UserInput", "WorkerReport", "Activated", "ChildGoalCompleted"} \cup Signals
  \/ e.kind = "BecameIncomplete" /\ ~activeWorker
WakesWorker(e) == e.kind \in {"WorkerRequest", "Followup", "SignalBoth"}
WakeReasons(s, r, rs, l) ==
  {n \in (cursor[s][r] + 1)..Len(l) :
     IF r = GM THEN WakesGoalManager(l[n], HasAcquiredRun(rs, s, Worker))
               ELSE WakesWorker(l[n])}

Dispatchable(s, g) == g.state = "incomplete" /\ active[s]

RoleBusy(s, r, rs, es) ==
  HasAcquiredRun(rs, s, r) \/ \E e \in es : e.role = r /\ e.holder # NoRun

(* Mutant: the window offered ends one entry late. *)
OfferPastEnd(s, r, rs, l) ==
  [role |-> r, holder |-> NoRun, to |-> Len(l) + 1, delayed |-> FALSE]
(* The ready entry of a role: all it has not read, and held back when only *)
(* delayed signals wake it.                                                *)
Offer(s, r, rs, l) ==
  [role |-> r, holder |-> NoRun, to |-> Len(l),
   delayed |-> \A n \in WakeReasons(s, r, rs, l) : l[n].kind = "SignalGMDelayed"]
(* The entries a refresh leaves for a Session: an idle role has a ready    *)
(* entry exactly when an unread entry of the log wakes it.                 *)
DerivedEntries(s, rs, l, es) ==
  {e \in es : RoleBusy(s, e.role, rs, es)}
    \cup {Offer(s, r, rs, l) :
            r \in {q \in Roles : ~RoleBusy(s, q, rs, es) /\ WakeReasons(s, q, rs, l) # {}}}

(* Mutant: the refresh does not look at the waiting decision. *)
RefreshedIgnoringWait(s, rs, g, l, es) ==
  IF Dispatchable(s, g) THEN DerivedEntries(s, rs, l, es) ELSE es
RefreshedEntries(s, rs, g, l, es) ==
  IF Dispatchable(s, g) /\ g.wait = NoWait THEN DerivedEntries(s, rs, l, es) ELSE es

(* The bounded wait of goal g is over. *)
WaitOver(s, g, l) ==
  /\ active[s]
  /\ \/ g.wait.kind = "deadline" /\ g.wait.passed
     \/ /\ g.wait.kind = "event"
        /\ \E n \in (g.wait.seq + 1)..Len(l) : l[n].tag = "event"
     \/ /\ g.wait.kind = "child"
        /\ \E n \in (g.wait.seq + 1)..Len(l) :
             l[n].kind = "ChildGoalCompleted" /\ l[n].tag = g.wait.child
WokenGoal(s, g, l) == IF WaitOver(s, g, l) THEN [g EXCEPT !.wait = NoWait] ELSE g
WokenLog(s, g, l) == IF WaitOver(s, g, l) THEN Append(l, Signal("SignalGM")) ELSE l

-----------------------------------------------------------------------------
(***************************************************************************)
(* _reconcile_dispatch_liveness, stage by stage: expire leases, drop the   *)
(* acquired readiness no run backs, signal GoalManager, refresh, and give  *)
(* a Session that nobody owns a recovery signal.                           *)
(***************************************************************************)
(* Mutant: only a run whose process is still there can expire. *)
LeaseExpiredIfRunning(i) ==
  runs[i].lease = "acquired" /\ runs[i].old /\ runs[i].process = "running"
LeaseExpired(i) == runs[i].lease = "acquired" /\ runs[i].old
RunsR == [i \in DOMAIN runs |->
            IF LeaseExpired(i) THEN [runs[i] EXCEPT !.lease = "interrupted"] ELSE runs[i]]

Orphans(s) ==
  {e \in ready[s] : /\ e.holder # NoRun
                    /\ ~(e.holder \in DOMAIN runs /\ RunsR[e.holder].lease = "acquired")}
Repaired(s) ==
  \/ Orphans(s) # {}
  \/ \E i \in DOMAIN runs : runs[i].session = s /\ LeaseExpired(i)
RepairedLog(s) == IF Repaired(s) THEN Append(log[s], Signal("SignalGM")) ELSE log[s]

GoalR(s) == WokenGoal(s, goal[s], RepairedLog(s))
RefreshedLog(s) == WokenLog(s, goal[s], RepairedLog(s))
RefreshedReady(s) ==
  RefreshedEntries(s, RunsR, GoalR(s), RefreshedLog(s), ready[s] \ Orphans(s))

Unowned(s) ==
  /\ Dispatchable(s, GoalR(s)) /\ s \notin paused /\ GoalR(s).wait = NoWait
  /\ RefreshedReady(s) = {}
  /\ \A r \in Roles : ~HasAcquiredRun(RunsR, s, r)
LogR(s) ==
  IF Unowned(s) THEN Append(RefreshedLog(s), Signal("SignalGM")) ELSE RefreshedLog(s)
(* The policy marks a ready entry of a goal that is not incomplete stale. *)
ReadyR(s) ==
  {e \in RefreshedEntries(s, RunsR, GoalR(s), LogR(s), RefreshedReady(s)) :
     e.holder # NoRun \/ GoalR(s).state = "incomplete"}

(* The entries select_role_dispatch_readiness may choose from. *)
Candidates(s) ==
  {e \in ReadyR(s) : /\ e.holder = NoRun /\ Dispatchable(s, GoalR(s))
                     /\ ~HasAcquiredRun(RunsR, s, e.role)}

-----------------------------------------------------------------------------
(***************************************************************************)
(* dispatch_once, up to the lease.  Which candidate the policy prefers is  *)
(* left open, and a delayed entry may or may not be due.                   *)
(***************************************************************************)
NewRun(s, e) ==
  [session |-> s, role |-> e.role, body |-> goal[s].body, to |-> e.to,
   lease |-> "acquired", old |-> FALSE, process |-> "running",
   declared |-> "none", wait |-> NoWait]

Acquire(s, r) ==
  /\ Len(runs) < MaxRuns
  /\ s \notin paused
  /\ \E e \in Candidates(s) :
       /\ e.role = r
       /\ runs' = Append(RunsR, NewRun(s, e))
       /\ ready' = [t \in Sessions |->
                      IF t = s THEN (ReadyR(s) \ {e}) \cup {[e EXCEPT !.holder = Len(runs) + 1]}
                               ELSE ReadyR(t)]
  /\ goal' = [t \in Sessions |-> GoalR(t)]
  /\ log' = [t \in Sessions |-> LogR(t)]
  /\ Free /\ UNCHANGED <<active, paused, cursor>>

(* The entry chosen belongs to a paused Unit: the code raises before it    *)
(* saves, and the reconciliation is lost with it.                          *)
ChoosePaused(s) == s \in paused /\ Candidates(s) # {} /\ UNCHANGED vars

(* Nothing can be selected: only the reconciliation is saved. *)
NothingToDispatch ==
  /\ \A s \in Sessions : \A e \in Candidates(s) : e.delayed
  /\ runs' = RunsR
  /\ ready' = [t \in Sessions |-> ReadyR(t)]
  /\ goal' = [t \in Sessions |-> GoalR(t)]
  /\ log' = [t \in Sessions |-> LogR(t)]
  /\ Free /\ UNCHANGED <<active, paused, cursor>>

-----------------------------------------------------------------------------
(***************************************************************************)
(* Users and administrators.                                               *)
(***************************************************************************)
WorkerRuns(s) ==
  {i \in DOMAIN runs : runs[i].session = s /\ runs[i].role = Worker /\ runs[i].lease = "acquired"}

InputEntries(s, w) ==
  LET cancelled == IF goal[s].wait = NoWait THEN <<>> ELSE <<Signal("SignalGM")>>
  IN IF w = NoRun
     THEN <<Signal("UserInput")>> \o cancelled \o <<Signal("BecameIncomplete")>>
     ELSE <<Signal("DeferredInput")>> \o cancelled
            \o <<Signal("BecameIncompleteDeferred"), Record("Followup", w)>>
(* append_user_input: a waiting decision is cancelled, the goal becomes    *)
(* incomplete, and input that meets a running Worker is deferred for       *)
(* GoalManager and forwarded to that run.                                  *)
UserInput(s) ==
  /\ Spend
  /\ \E w \in IF WorkerRuns(s) = {} THEN {NoRun} ELSE WorkerRuns(s) :
       /\ \A i \in WorkerRuns(s) : i <= w
       /\ log' = [log EXCEPT ![s] = @ \o InputEntries(s, w)]
  /\ goal' = [goal EXCEPT ![s] =
       [state |-> "incomplete", wait |-> NoWait,
        body |-> IF @.state = "none" THEN DefaultBody ELSE @.body]]
  /\ UNCHANGED <<active, paused, cursor, ready, runs>>

RevisionEntries(s) ==
  (IF goal[s].state = "none" THEN <<>> ELSE <<Signal("BodyUpdated")>>)
    \o <<Signal("BecameIncomplete")>>
(* update_goal: creates the goal or revises its body; a waiting decision   *)
(* is left as it is.                                                       *)
UpdateGoal(s, b) ==
  /\ Spend
  /\ goal' = [goal EXCEPT ![s].body = b, ![s].state = "incomplete"]
  /\ log' = [log EXCEPT ![s] = @ \o RevisionEntries(s)]
  /\ UNCHANGED <<active, paused, cursor, ready, runs>>

SetSessionActive(s, a) ==
  /\ Spend
  /\ active' = [active EXCEPT ![s] = a]
  /\ log' = [log EXCEPT ![s] = Append(@, Signal(IF a THEN "Activated" ELSE "Deactivated"))]
  /\ UNCHANGED <<goal, paused, cursor, ready, runs>>

SetUnitActive(s) ==
  /\ Spend
  /\ paused' = IF s \in paused THEN paused \ {s} ELSE paused \cup {s}
  /\ UNCHANGED <<goal, active, log, cursor, ready, runs>>

-----------------------------------------------------------------------------
(***************************************************************************)
(* The Agent API, called by the agent of run i while its provider runs.    *)
(***************************************************************************)
Running(i) == i \in DOMAIN runs /\ runs[i].process = "running"
LeaseHeld(i, r) == Running(i) /\ runs[i].role = r /\ runs[i].lease = "acquired"
Reported(i) ==
  \E n \in DOMAIN log[runs[i].session] : log[runs[i].session][n] \in
    {[Record("WorkerReport", i) EXCEPT !.tag = tag] : tag \in {"none", "event"}}

(* append_runtime_message; the lease of the run is not looked at.          *)
AgentMessage(i, kind, tag) ==
  /\ Running(i)
  /\ kind # (IF runs[i].role = GM THEN "WorkerReport" ELSE "WorkerRequest")
  /\ tag = "event" => "event" \in WaitKinds
  /\ IF kind = "WorkerReport" /\ tag = "none" /\ runs[i].lease = "acquired" /\ ~Reported(i)
     THEN Free ELSE Spend
  /\ log' = [log EXCEPT ![runs[i].session] =
               Append(@, [Record(kind, i) EXCEPT !.tag = tag])]
  /\ UNCHANGED <<goal, active, paused, cursor, ready, runs>>

(* Mutant: only entries bound to another run are taken for newer. *)
ConflictWithRunsOnly(i) ==
  LET l == log[runs[i].session]
  IN \E n \in (runs[i].to + 1)..Len(l) :
       \/ l[n].kind \in {"BodyUpdated", "ChildGoalCompleted"}
       \/ l[n].kind \in Messages \cup StateChanges /\ l[n].run \notin {i, NoRun}
(* A requirement newer than what run i observed, from another source. *)
Conflict(i) ==
  LET l == log[runs[i].session]
  IN \E n \in (runs[i].to + 1)..Len(l) :
       \/ l[n].kind \in {"BodyUpdated", "ChildGoalCompleted"}
       \/ l[n].kind \in Messages \cup StateChanges /\ l[n].run # i

(* set_goal_completion_state_from_runtime *)
FirstRequest(s) ==
  s \in Working /\ ~\E j \in DOMAIN runs : runs[j].session = s /\ runs[j].role = Worker
DeclareOutcome(i, state) ==
  /\ LeaseHeld(i, GM) /\ runs[i].declared = "none"
  /\ goal[runs[i].session].body = runs[i].body /\ ~Conflict(i)
  /\ IF state = "complete" \/ FirstRequest(runs[i].session) THEN Free ELSE Spend
  /\ runs' = [runs EXCEPT ![i].declared = state]
  /\ UNCHANGED <<goal, active, paused, log, cursor, ready>>

(* set_goal_waiting_from_runtime checks neither the body nor the window.   *)
DeclareWaiting(i, kind, child) ==
  /\ LeaseHeld(i, GM) /\ runs[i].declared = "none"
  /\ kind \in WaitKinds /\ (kind = "child" <=> child \in Sessions)
  /\ Spend
  /\ runs' = [runs EXCEPT ![i].declared = "waiting",
                          ![i].wait = [kind |-> kind, child |-> child, passed |-> FALSE,
                                       seq |-> Len(log[runs[i].session])]]
  /\ UNCHANGED <<goal, active, paused, log, cursor, ready>>

-----------------------------------------------------------------------------
(***************************************************************************)
(* The second transaction of dispatch_once: the agent of run i returned,   *)
(* and its result is committed, or discarded when the fence is up.         *)
(***************************************************************************)
(* Mutant: the fence does not ask whether the run still holds its lease. *)
FencedByWindowOnly(i) == goal[runs[i].session].body # runs[i].body \/ Conflict(i)
Fenced(i) ==
  \/ runs[i].lease # "acquired"
  \/ goal[runs[i].session].body # runs[i].body
  \/ Conflict(i)

(* What a run declared is only evidence once its process has gone; it is   *)
(* dropped here, because nothing reads it any more.                        *)
Ended(run) == [run EXCEPT !.process = "gone", !.declared = "none", !.wait = NoWait]

EntriesOf(i) == {e \in ready[runs[i].session] : e.holder = i}
ReviewEntries(s) == {e \in ready[s] : e.role = GM}

Released(i) == runs' = [runs EXCEPT ![i] = [Ended(@) EXCEPT !.lease = "released"]]
WindowRead(i) == cursor' = AdvancedCursor(runs[i].session, runs[i].role, runs[i].to)
EntriesResolved(s, es) == ready' = [ready EXCEPT ![s] = @ \ es]
LogExtended(s, es) == log' = [log EXCEPT ![s] = @ \o es]

(* Mutant: the cursor moves although the lease was lost. *)
CursorAlwaysMoves(i) == WindowRead(i)
CursorIfHeld(i) == IF runs[i].lease = "acquired" THEN WindowRead(i) ELSE UNCHANGED cursor
(* Mutant: a discarded result is not signalled. *)
NoStaleSignal == <<>>
StaleSignal == <<Signal("SignalGM")>>
Discard(i) ==
  LET s == runs[i].session IN
  /\ Running(i) /\ Fenced(i)
  /\ IF runs[i].lease = "acquired" THEN Released(i) ELSE runs' = [runs EXCEPT ![i] = Ended(@)]
  /\ CursorIfHeld(i)
  /\ EntriesResolved(s, IF runs[i].lease = "acquired" THEN EntriesOf(i) ELSE {})
  /\ LogExtended(s, StaleSignal)
  /\ Free /\ UNCHANGED <<goal, active, paused>>

Commit(i, r) == Running(i) /\ runs[i].role = r /\ ~Fenced(i) /\ Released(i) /\ WindowRead(i)

(* GoalManager returned without a decision. *)
CommitUndecided(i) ==
  /\ Commit(i, GM) /\ runs[i].declared = "none"
  /\ Spend
  /\ EntriesResolved(runs[i].session, EntriesOf(i))
  /\ LogExtended(runs[i].session, <<Signal("SignalGMDelayed")>>)
  /\ UNCHANGED <<goal, active, paused>>

CommitWaiting(i) ==
  LET s == runs[i].session IN
  /\ Commit(i, GM) /\ runs[i].declared = "waiting"
  /\ goal' = [goal EXCEPT ![s].wait = runs[i].wait]
  /\ EntriesResolved(s, ReviewEntries(s))
  /\ LogExtended(s, <<Record("DeclaredWaiting", i)>>)
  /\ Free /\ UNCHANGED <<active, paused>>

(* An incomplete decision asks for work even when GoalManager did not.     *)
WorkRequested(i) ==
  LET s == runs[i].session IN
  \/ \E e \in ready[s] : e.role = Worker
  \/ HasAcquiredRun(runs, s, Worker)
  \/ \E n \in DOMAIN log[s] :
       log[s][n].run = i /\ log[s][n].kind \in {"WorkerRequest", "Followup"}
CommitIncomplete(i) ==
  LET s == runs[i].session IN
  /\ Commit(i, GM) /\ runs[i].declared = "incomplete"
  /\ goal' = [goal EXCEPT ![s].state = "incomplete"]
  /\ EntriesResolved(s, ReviewEntries(s))
  /\ LogExtended(s, <<Record("DeclaredIncomplete", i)>>
                      \o (IF WorkRequested(i) THEN <<>> ELSE <<Record("WorkerRequest", i)>>))
  /\ Free /\ UNCHANGED <<active, paused>>

Notified(s) == IF goal[s].state = "complete" THEN {} ELSE Parents[s]
ReopenedParents(s) == {t \in Notified(s) : goal[t].state = "complete"}
(* Mutant: a parent is reopened behind the back of its log. *)
NoReopening(s, t) == <<>>
Reopening(s, t) == IF t \in ReopenedParents(s) THEN <<Signal("BecameIncomplete")>> ELSE <<>>
(* A completed goal leaves no readiness, is recorded in the log of every   *)
(* parent, and reopens a parent that is complete.                          *)
CommitComplete(i) ==
  LET s == runs[i].session
      news == <<[Record("ChildGoalCompleted", i) EXCEPT !.tag = s]>>
  IN
  /\ Commit(i, GM) /\ runs[i].declared = "complete"
  /\ goal' = [t \in Sessions |->
                IF t = s THEN [goal[t] EXCEPT !.state = "complete"]
                ELSE IF t \in ReopenedParents(s) THEN [goal[t] EXCEPT !.state = "incomplete"]
                ELSE goal[t]]
  /\ ready' = [ready EXCEPT ![s] = {}]
  /\ log' = [t \in Sessions |->
               log[t] \o (IF t = s THEN <<Record("DeclaredComplete", i)>> ELSE <<>>)
                      \o (IF t \in Notified(s) THEN news ELSE <<>>)
                      \o Reopening(s, t)]
  /\ Free /\ UNCHANGED <<active, paused>>

(* A Worker that did not report is a protocol violation for GoalManager.   *)
CommitWorker(i) ==
  LET s == runs[i].session IN
  /\ Commit(i, Worker)
  /\ EntriesResolved(s, EntriesOf(i))
  /\ IF Reported(i) THEN Free /\ UNCHANGED log
                    ELSE Spend /\ LogExtended(s, <<Signal("SignalGMDelayed")>>)
  /\ UNCHANGED <<goal, active, paused>>

(* The provider failed. *)
CommitError(i) ==
  LET s == runs[i].session IN
  /\ Commit(i, runs[i].role)
  /\ Spend
  /\ goal' = [goal EXCEPT ![s].state = "incomplete"]
  /\ EntriesResolved(s, EntriesOf(i))
  /\ LogExtended(s, <<Record("BecameIncomplete", i)>>)
  /\ UNCHANGED <<active, paused>>

-----------------------------------------------------------------------------
(***************************************************************************)
(* Time, crashes and restarts.                                             *)
(***************************************************************************)
(* A lease passes its recovery age.  While its process lives this means    *)
(* that the provider overran its own time limit.                           *)
LeaseAges(i) ==
  /\ i \in DOMAIN runs /\ runs[i].lease = "acquired" /\ ~runs[i].old
  /\ IF runs[i].process = "running" THEN Fault ELSE Free
  /\ runs' = [runs EXCEPT ![i].old = TRUE]
  /\ UNCHANGED <<goal, active, paused, log, cursor, ready>>

DeadlinePasses(s) ==
  /\ goal[s].wait.kind = "deadline" /\ ~goal[s].wait.passed
  /\ goal' = [goal EXCEPT ![s].wait.passed = TRUE]
  /\ Free /\ UNCHANGED <<active, paused, log, cursor, ready, runs>>

(* The dispatch_once calls in D go away without committing. *)
Crash(D) ==
  /\ D # {} /\ \A i \in D : Running(i)
  /\ Fault
  /\ runs' = [i \in DOMAIN runs |-> IF i \in D THEN Ended(runs[i]) ELSE runs[i]]
  /\ UNCHANGED <<goal, active, paused, log, cursor, ready>>

(* _reconcile_state_from_session_logs: the log is replayed onto the goal.  *)
Reopens(e) ==
  e.kind \in {"UserInput", "DeferredInput", "Followup", "BecameIncomplete",
              "BecameIncompleteDeferred", "DeclaredIncomplete"}
Completes(l, n) ==
  l[n].kind = "DeclaredComplete" /\ \A m \in (n + 1)..Len(l) : ~Reopens(l[m])
ReplayedState(s) ==
  IF goal[s].state = "none" THEN "none"
  ELSE IF \E n \in DOMAIN log[s] : Completes(log[s], n) THEN "complete"
  ELSE IF \E n \in DOMAIN log[s] : Reopens(log[s][n]) THEN "incomplete"
  ELSE goal[s].state
Switches(s) == {n \in DOMAIN log[s] : log[s][n].kind \in {"Activated", "Deactivated"}}
ReplayedActive(s) ==
  IF Switches(s) = {} THEN active[s]
  ELSE \E n \in Switches(s) : log[s][n].kind = "Activated" /\ \A m \in Switches(s) : m <= n

(* Store.init of a process that starts: replay, then refresh. *)
StoreInit ==
  LET g == [s \in Sessions |-> [goal[s] EXCEPT !.state = ReplayedState(s)]] IN
  /\ goal' = [s \in Sessions |-> WokenGoal(s, g[s], log[s])]
  /\ active' = [s \in Sessions |-> ReplayedActive(s)]
  /\ log' = [s \in Sessions |-> WokenLog(s, g[s], log[s])]
  /\ ready' = [s \in Sessions |->
       RefreshedEntries(s, runs, WokenGoal(s, g[s], log[s]), WokenLog(s, g[s], log[s]), ready[s])]
  /\ Fault /\ UNCHANGED <<paused, cursor, runs>>

(* record_runtime_recovery_signals: every lease is interrupted; in a goal  *)
(* that is still to be worked on the interrupted roles are ready again.    *)
Interrupted(s) == {i \in DOMAIN runs : runs[i].session = s /\ runs[i].lease = "acquired"}
(* Mutant: only the readiness of goals still to be worked on is repaired. *)
RecoveredEntriesOfWork(s) ==
  IF ~Dispatchable(s, goal[s]) THEN ready[s]
  ELSE {e \in ready[s] : e.holder = NoRun}
         \cup {[e EXCEPT !.holder = NoRun] :
                 e \in {f \in ready[s] : f.holder \in Interrupted(s)}}
RecoveredEntries(s) ==
  {e \in ready[s] : e.holder = NoRun}
    \cup {[e EXCEPT !.holder = NoRun] :
            e \in {f \in ready[s] : Dispatchable(s, goal[s]) /\ f.holder \in Interrupted(s)}}
RecoverRuns ==
  /\ Fault
  /\ runs' = [i \in DOMAIN runs |->
                IF runs[i].lease = "acquired" THEN [runs[i] EXCEPT !.lease = "interrupted"]
                                              ELSE runs[i]]
  /\ ready' = [s \in Sessions |-> RecoveredEntries(s)]
  /\ log' = [s \in Sessions |->
       IF ~Dispatchable(s, goal[s]) THEN log[s]
       ELSE Append(log[s], Signal(IF WorkerRuns(s) # {} THEN "SignalBoth" ELSE "SignalGM"))]
  /\ UNCHANGED <<goal, active, paused, cursor>>

-----------------------------------------------------------------------------
(* A Session is created with or without a SessionGoal. *)
Init ==
  /\ goal \in [Sessions -> {[state |-> st, body |-> DefaultBody, wait |-> NoWait] :
                              st \in {"none", "incomplete"}}]
  /\ log = [s \in Sessions |->
              IF goal[s].state = "none" THEN <<>> ELSE <<Signal("BecameIncomplete")>>]
  /\ active = [s \in Sessions |-> TRUE]
  /\ paused = {}
  /\ cursor = [s \in Sessions |-> [r \in Roles |-> 0]]
  /\ ready = [s \in Sessions |-> {}]
  /\ runs = <<>>
  /\ events = 0 /\ faults = 0

UserStep ==
  \/ \E s \in Sessions : UserInput(s)
  \/ \E s \in Sessions, b \in Bodies : UpdateGoal(s, b)
  \/ \E s \in Sessions, a \in BOOLEAN : SetSessionActive(s, a)
  \/ \E s \in Pausable : SetUnitActive(s)
AgentStep(i) ==
  \/ \E kind \in MessageKinds, tag \in {"none", "event"} : AgentMessage(i, kind, tag)
  \/ \E state \in {"complete", "incomplete"} : DeclareOutcome(i, state)
  \/ \E kind \in WaitKinds, child \in {"none"} \cup Sessions : DeclareWaiting(i, kind, child)
ReturnStep(i) ==
  \/ Discard(i)
  \/ CommitUndecided(i)
  \/ CommitWaiting(i)
  \/ CommitIncomplete(i)
  \/ CommitComplete(i)
  \/ CommitWorker(i)
  \/ CommitError(i)
DispatchStep ==
  \/ \E s \in Sessions, r \in Roles : Acquire(s, r)
  \/ \E s \in Sessions : ChoosePaused(s)
  \/ NothingToDispatch
ClockStep ==
  \/ \E i \in DOMAIN runs : LeaseAges(i)
  \/ \E s \in Sessions : DeadlinePasses(s)
RestartStep ==
  \/ \E D \in SUBSET DOMAIN runs : Crash(D)
  \/ StoreInit
  \/ RecoverRuns

Next ==
  \/ UserStep
  \/ \E i \in DOMAIN runs : AgentStep(i)
  \/ \E i \in DOMAIN runs : ReturnStep(i)
  \/ DispatchStep
  \/ ClockStep
  \/ RestartStep

Spec == Init /\ [][Next]_vars

(***************************************************************************)
(* Fairness.  The daemon polls, and the starvation override of the policy  *)
(* serves every ready entry in the end; a provider call ends, by its time  *)
(* limit if need be, and then the run commits; clocks advance.  Users,     *)
(* crashes and restarts owe nothing.                                       *)
(***************************************************************************)
TurnEnds(i) == DeclareOutcome(i, "complete") \/ AgentMessage(i, "WorkerReport", "none") \/ ReturnStep(i)
Fairness ==
  /\ \A s \in Sessions, r \in Roles : WF_vars(Acquire(s, r))
  /\ WF_vars(NothingToDispatch)
  /\ \A i \in 1..MaxRuns : WF_vars(TurnEnds(i)) /\ WF_vars(LeaseAges(i))
  /\ \A s \in Sessions : WF_vars(DeadlinePasses(s))
FairSpec == Spec /\ Fairness

-----------------------------------------------------------------------------
(* Every component of the state has its type. *)
Typed ==
  /\ goal \in [Sessions -> Goal]
  /\ active \in [Sessions -> BOOLEAN]
  /\ paused \subseteq Pausable
  /\ log \in [Sessions -> Seq(Entry)]
  /\ cursor \in [Sessions -> [Roles -> Nat]]
  /\ ready \in [Sessions -> SUBSET Readiness]
  /\ runs \in Seq(Run)
  /\ events \in 0..MaxEvents /\ faults \in 0..MaxFaults

(* What a role has read, what is offered to it and what a run observed are *)
(* prefixes of the Session's log (role_cursors, observed_to_seq).          *)
WindowsInLog ==
  /\ \A s \in Sessions, r \in Roles : cursor[s][r] <= Len(log[s])
  /\ \A s \in Sessions : \A e \in ready[s] : e.to <= Len(log[s])
  /\ \A i \in DOMAIN runs : runs[i].to <= Len(log[runs[i].session])

(* Every component of the state has its type, and no cursor, offer or run  *)
(* of a Session points beyond the end of its log.                          *)
TypeOK == Typed /\ WindowsInLog

(* A role of a Session is leased to one run at a time, whatever expires,   *)
(* completes or restarts in between (_has_acquired_role_run).              *)
OneRunPerRole ==
  \A i, j \in DOMAIN runs :
    /\ runs[i].lease = "acquired" /\ runs[j].lease = "acquired"
    /\ runs[i].session = runs[j].session /\ runs[i].role = runs[j].role
    => i = j

(* Acquired readiness belongs to a live lease of its own Session and role, *)
(* so no commit or restart leaves a role blocked by an entry nobody owns.  *)
ReadinessOwned ==
  \A s \in Sessions : \A e \in ready[s] :
    e.holder # NoRun =>
      /\ e.holder \in DOMAIN runs
      /\ runs[e.holder].lease = "acquired"
      /\ runs[e.holder].session = s /\ runs[e.holder].role = e.role

(* While a goal waits, nothing reviews it: the bounded wait is not cut     *)
(* short by readiness or by a GoalManager leased before the decision.      *)
WaitingSuppressesReview ==
  \A s \in Sessions : goal[s].wait # NoWait =>
    /\ goal[s].state = "incomplete"
    /\ \A e \in ready[s] : e.role # GM
    /\ ~HasAcquiredRun(runs, s, GM)

Requirements == {"UserInput", "DeferredInput", "BodyUpdated", "ChildGoalCompleted"}

(* A goal is complete only if GoalManager's completing review had read     *)
(* every user input, body revision and child completion (the fence).       *)
CompleteMeansReviewed ==
  \A s \in Sessions : goal[s].state = "complete" =>
    \A n \in DOMAIN log[s] : log[s][n].kind \in Requirements => n <= cursor[s][GM]

(* A cursor stands at the end of the last window whose run kept its lease  *)
(* to the end: the window of an interrupted run is read again.             *)
CursorFromReleasedRuns ==
  \A s \in Sessions, r \in Roles :
    LET windows == {runs[i].to : i \in {j \in DOMAIN runs :
                      runs[j].session = s /\ runs[j].role = r /\ runs[j].lease = "released"}}
    IN /\ cursor[s][r] \in windows \cup {0}
       /\ \A n \in windows : n <= cursor[s][r]

(* Replaying the SessionLog at startup reproduces the completion state and *)
(* the active flag that the transactions left in the state files.          *)
LogAuthoritative ==
  \A s \in Sessions :
    goal[s].state = ReplayedState(s) /\ active[s] = ReplayedActive(s)

(* Input deferred to a running Worker still reaches GoalManager: until it  *)
(* is read, that Worker run is live, or a wake-up for GoalManager follows. *)
DeferredInputReachesGoalManager ==
  \A s \in Sessions : Dispatchable(s, goal[s]) =>
    \A n \in (cursor[s][GM] + 1)..Len(log[s]) :
      log[s][n].kind = "DeferredInput" =>
        \/ \E i \in WorkerRuns(s) : runs[i].to < n
        \/ \E m \in (n + 1)..Len(log[s]) : WakesGoalManager(log[s][m], FALSE)

(* No transaction leaves an active, incomplete Session to nobody: some run *)
(* holds a lease, a bounded wait is declared, or an unread entry wakes a   *)
(* role.  README.md:297 asks for this before every lease; the recovery     *)
(* signal of _reconcile_dispatch_liveness is then only a safety net.       *)
NoSessionForgotten ==
  \A s \in Sessions : Dispatchable(s, goal[s]) /\ goal[s].wait = NoWait =>
    \E r \in Roles : HasAcquiredRun(runs, s, r) \/ WakeReasons(s, r, runs, log[s]) # {}

(* No other step completes a goal than the commit of a lease that was      *)
(* still held, on the body the run observed.                               *)
CompletionByLeaseHolder ==
  [][\A s \in Sessions : goal[s].state # "complete" /\ goal'[s].state = "complete" =>
       \E i \in DOMAIN runs :
         /\ runs[i].session = s /\ runs[i].role = GM
         /\ runs[i].lease = "acquired" /\ runs'[i].lease = "released"
         /\ runs[i].body = goal'[s].body]_vars

(* Once the users, agents and crashes calm down, no Session stays active,  *)
(* incomplete and not waiting: every lost lease, discarded result and      *)
(* deferred input ends in a review that completes it or declares a wait.   *)
Settles ==
  \A s \in Sessions :
    (Dispatchable(s, goal[s]) /\ goal[s].wait = NoWait)
      ~> ~(Dispatchable(s, goal[s]) /\ goal[s].wait = NoWait)
=============================================================================
