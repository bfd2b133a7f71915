--------------------------- MODULE DispatchProofs ---------------------------
(***************************************************************************)
(* Theorems about Dispatch, for every set of Sessions, every parent graph  *)
(* and every bound.                                                        *)
(***************************************************************************)
EXTENDS Dispatch, SequenceTheorems, TLAPS

USE DEF GM, Worker, Roles, NoRun

-----------------------------------------------------------------------------
(* Appending to a log keeps it a log and never shortens it. *)
LEMMA Extension ==
  ASSUME NEW l \in Seq(Entry), NEW m \in Seq(Entry)
  PROVE  /\ l \o m \in Seq(Entry)
         /\ Len(l) <= Len(l \o m)
         /\ \A e \in Entry : Append(l, e) \in Seq(Entry) /\ Len(l) <= Len(Append(l, e))
  OBVIOUS

(* So does appending in three parts, as a completion does to each log. *)
LEMMA ExtensionInParts ==
  ASSUME NEW l \in Seq(Entry), NEW a \in Seq(Entry), NEW b \in Seq(Entry), NEW c \in Seq(Entry)
  PROVE  l \o a \o b \o c \in Seq(Entry) /\ Len(l) <= Len(l \o a \o b \o c)
  <1>1. l \o a \in Seq(Entry) /\ Len(l) <= Len(l \o a)
    BY Extension
  <1>2. l \o a \o b \in Seq(Entry) /\ Len(l \o a) <= Len(l \o a \o b)
    BY <1>1, Extension
  <1>3. l \o a \o b \o c \in Seq(Entry) /\ Len(l \o a \o b) <= Len(l \o a \o b \o c)
    BY <1>2, Extension
  <1>4. /\ Len(l) \in Nat /\ Len(l \o a) \in Nat /\ Len(l \o a \o b) \in Nat
        /\ Len(l \o a \o b \o c) \in Nat
    BY <1>1, <1>2, <1>3
  <1> QED
    BY <1>1, <1>2, <1>3, <1>4

(* The entries the actions write are entries. *)
LEMMA Records ==
  /\ \A k \in EntryKinds, i \in Nat : Record(k, i) \in Entry
  /\ \A k \in EntryKinds : Signal(k) \in Entry
  /\ \A k \in EntryKinds, i \in Nat, tag \in {"none", "event"} \cup Sessions :
       [Record(k, i) EXCEPT !.tag = tag] \in Entry
  BY DEF Record, Signal, Entry

(* A goal without a waiting decision is well typed. *)
LEMMA NoWaitType == NoWait \in Wait
  BY DEF NoWait, Wait

(* The changes the actions make to a run. *)
LEMMA RunUpdates ==
  ASSUME NEW run \in Run
  PROVE  /\ \A x \in {"acquired", "released", "interrupted"} : [run EXCEPT !.lease = x] \in Run
         /\ Ended(run) \in Run
         /\ [Ended(run) EXCEPT !.lease = "released"] \in Run
         /\ [run EXCEPT !.old = TRUE] \in Run
         /\ \A d \in {"complete", "incomplete"} : [run EXCEPT !.declared = d] \in Run
         /\ \A w \in Wait : [run EXCEPT !.declared = "waiting", !.wait = w] \in Run
  BY NoWaitType DEF Run, Ended

(* Rewriting the runs one by one keeps them a sequence of runs. *)
LEMMA RunsMapped ==
  ASSUME NEW rs \in Seq(Run), NEW f, f = [i \in DOMAIN rs |-> f[i]],
         \A i \in DOMAIN rs : f[i] \in Run
  PROVE  f \in Seq(Run) /\ Len(f) = Len(rs) /\ DOMAIN f = DOMAIN rs
  <1>1. Len(rs) \in Nat /\ DOMAIN rs = 1..Len(rs)
    OBVIOUS
  <1>2. f \in [1..Len(rs) -> Run]
    BY <1>1
  <1> QED
    BY <1>1, <1>2, SeqDef

-----------------------------------------------------------------------------
(* The reconciliation of dispatch_once yields well-typed components, and   *)
(* lengthens logs only.                                                    *)
LEMMA WokenTypes ==
  ASSUME NEW s \in Sessions, NEW g \in Goal, NEW l \in Seq(Entry)
  PROVE  /\ WokenGoal(s, g, l) \in Goal
         /\ WokenLog(s, g, l) \in Seq(Entry)
         /\ Len(l) <= Len(WokenLog(s, g, l))
         /\ WokenGoal(s, g, l).state = g.state /\ WokenGoal(s, g, l).body = g.body
  <1>1. Signal("SignalGM") \in Entry
    BY Records DEF EntryKinds, Signals
  <1>2. WokenGoal(s, g, l) \in Goal /\ WokenGoal(s, g, l).state = g.state
          /\ WokenGoal(s, g, l).body = g.body
    BY NoWaitType DEF WokenGoal, Goal
  <1>3. WokenLog(s, g, l) \in Seq(Entry) /\ Len(l) <= Len(WokenLog(s, g, l))
    BY <1>1, Extension DEF WokenLog
  <1> QED
    BY <1>2, <1>3

(* A refresh of role readiness keeps entries or offers whole logs. *)
LEMMA RefreshedTypes ==
  ASSUME NEW s \in Sessions, NEW rs, NEW g, NEW l \in Seq(Entry),
         NEW es \in SUBSET Readiness
  PROVE  /\ RefreshedEntries(s, rs, g, l, es) \in SUBSET Readiness
         /\ \A e \in RefreshedEntries(s, rs, g, l, es) :
              e \in es \/ (e.holder = NoRun /\ e.to = Len(l))
  <1>1. \A r \in Roles : /\ Offer(s, r, rs, l) \in Readiness
                         /\ Offer(s, r, rs, l).holder = NoRun
                         /\ Offer(s, r, rs, l).to = Len(l)
    BY DEF Offer, Readiness
  <1> QED
    BY <1>1 DEF RefreshedEntries, DerivedEntries

(* Expiring leases leaves every run in its place and revives no lease. *)
LEMMA ReconciledRuns ==
  ASSUME Typed
  PROVE  /\ RunsR \in Seq(Run) /\ Len(RunsR) = Len(runs) /\ DOMAIN RunsR = DOMAIN runs
         /\ \A i \in DOMAIN runs :
              /\ RunsR[i].session = runs[i].session /\ RunsR[i].role = runs[i].role
              /\ RunsR[i].to = runs[i].to
              /\ RunsR[i].lease = "acquired" => runs[i].lease = "acquired"
  <1>1. \A i \in DOMAIN runs : RunsR[i] \in Run
    <2> SUFFICES ASSUME NEW i \in DOMAIN runs PROVE RunsR[i] \in Run
      OBVIOUS
    <2>1. runs[i] \in Run
      BY DEF Typed
    <2>2. [runs[i] EXCEPT !.lease = "interrupted"] \in Run
      BY <2>1, RunUpdates
    <2> QED
      BY <2>1, <2>2 DEF RunsR
  <1>2. \A i \in DOMAIN runs :
          /\ RunsR[i].session = runs[i].session /\ RunsR[i].role = runs[i].role
          /\ RunsR[i].to = runs[i].to
          /\ RunsR[i].lease = "acquired" => runs[i].lease = "acquired"
    BY DEF Typed, RunsR, Run
  <1>3. RunsR = [i \in DOMAIN runs |-> RunsR[i]]
    BY DEF RunsR
  <1> HIDE DEF RunsR
  <1> QED
    BY <1>1, <1>2, <1>3, RunsMapped DEF Typed

(* Reconciling one Session leaves its goal state and body, lengthens its   *)
(* log and neither keeps nor invents acquired readiness without a run.     *)
LEMMA ReconciledSession ==
  ASSUME Typed, NEW s \in Sessions
  PROVE  /\ GoalR(s) \in Goal /\ GoalR(s).state = goal[s].state /\ GoalR(s).body = goal[s].body
         /\ LogR(s) \in Seq(Entry) /\ Len(log[s]) <= Len(LogR(s))
         /\ ReadyR(s) \in SUBSET Readiness
         /\ \A e \in ReadyR(s) : \/ e \in ready[s] \ Orphans(s)
                                 \/ e.holder = NoRun /\ e.to <= Len(LogR(s))
  <1>0. goal[s] \in Goal /\ log[s] \in Seq(Entry) /\ ready[s] \in SUBSET Readiness
    BY DEF Typed
  <1>1. Signal("SignalGM") \in Entry
    BY Records DEF EntryKinds, Signals
  <1>2. RepairedLog(s) \in Seq(Entry) /\ Len(log[s]) <= Len(RepairedLog(s))
    BY <1>0, <1>1, Extension DEF RepairedLog
  <1>3. /\ GoalR(s) \in Goal /\ GoalR(s).state = goal[s].state /\ GoalR(s).body = goal[s].body
        /\ RefreshedLog(s) \in Seq(Entry) /\ Len(RepairedLog(s)) <= Len(RefreshedLog(s))
    BY <1>0, <1>2, WokenTypes DEF GoalR, RefreshedLog
  <1>4. LogR(s) \in Seq(Entry) /\ Len(RefreshedLog(s)) <= Len(LogR(s))
    BY <1>1, <1>3, Extension DEF LogR
  <1>5. /\ RefreshedReady(s) \in SUBSET Readiness
        /\ \A e \in RefreshedReady(s) : \/ e \in ready[s] \ Orphans(s)
                                        \/ e.holder = NoRun /\ e.to = Len(RefreshedLog(s))
    BY <1>0, <1>3, RefreshedTypes DEF RefreshedReady, Orphans
  <1>6. /\ ReadyR(s) \in SUBSET Readiness
        /\ \A e \in ReadyR(s) : e \in RefreshedReady(s) \/ (e.holder = NoRun /\ e.to = Len(LogR(s)))
    BY <1>4, <1>5, RefreshedTypes DEF ReadyR
  <1>7. Len(RefreshedLog(s)) \in Nat /\ Len(LogR(s)) \in Nat /\ Len(log[s]) \in Nat
          /\ Len(RepairedLog(s)) \in Nat
    BY <1>0, <1>2, <1>3, <1>4
  <1>8. \A e \in ReadyR(s) : \/ e \in ready[s] \ Orphans(s)
                             \/ e.holder = NoRun /\ e.to <= Len(LogR(s))
    BY <1>4, <1>5, <1>6, <1>7
  <1> QED
    BY <1>2, <1>3, <1>4, <1>6, <1>7, <1>8

-----------------------------------------------------------------------------
(***************************************************************************)
(* Type correctness.  Each step keeps the types and lengthens logs only.   *)
(***************************************************************************)
LogsGrow == \A s \in Sessions : Len(log[s]) <= Len(log'[s])

(* A step that writes no entry lengthens no log. *)
LEMMA SameLogs == ASSUME Typed, UNCHANGED log PROVE LogsGrow
  BY DEF Typed, LogsGrow

(* A step that extends one SessionLog by several entries. *)
LEMMA OneLogGrows ==
  ASSUME Typed, NEW s \in Sessions, NEW m \in Seq(Entry), log' = [log EXCEPT ![s] = @ \o m]
  PROVE  log' \in [Sessions -> Seq(Entry)] /\ LogsGrow
  BY Extension DEF Typed, LogsGrow

(* A step that appends one entry to one SessionLog. *)
LEMMA OneLogAppends ==
  ASSUME Typed, NEW s \in Sessions, NEW e \in Entry, log' = [log EXCEPT ![s] = Append(@, e)]
  PROVE  log' \in [Sessions -> Seq(Entry)] /\ LogsGrow
  BY Extension DEF Typed, LogsGrow

(* The counters of environment steps. *)
LEMMA Counters ==
  ASSUME Typed, Spend \/ Fault \/ Free
  PROVE  events' \in 0..MaxEvents /\ faults' \in 0..MaxFaults
  BY DataAssumption DEF Typed, Spend, Fault, Free

(* Acquiring a lease, or only reconciling, keeps the types. *)
LEMMA DispatchTyped ==
  ASSUME Typed, DispatchStep PROVE Typed' /\ LogsGrow
  <1>0. /\ \A s \in Sessions : GoalR(s) \in Goal /\ LogR(s) \in Seq(Entry)
                                 /\ ReadyR(s) \in SUBSET Readiness /\ Len(log[s]) <= Len(LogR(s))
    BY ReconciledSession
  <1>1. ASSUME NEW s \in Sessions, NEW r \in Roles, Acquire(s, r) PROVE Typed' /\ LogsGrow
    <2>1. PICK e \in Candidates(s) :
            /\ runs' = Append(RunsR, NewRun(s, e))
            /\ ready' = [t \in Sessions |->
                 IF t = s THEN (ReadyR(s) \ {e}) \cup {[e EXCEPT !.holder = Len(runs) + 1]}
                          ELSE ReadyR(t)]
      BY <1>1 DEF Acquire
    <2>2. e \in Readiness
      BY <2>1, <1>0 DEF Candidates
    <2>3. NewRun(s, e) \in Run
      BY <2>2, NoWaitType DEF NewRun, Run, Readiness, Typed, Goal
    <2>4. runs' \in Seq(Run)
      BY <2>1, <2>3, ReconciledRuns
    <2>5. [e EXCEPT !.holder = Len(runs) + 1] \in Readiness
      <3>1. Len(runs) + 1 \in Nat
        BY DEF Typed
      <3> QED
        BY <2>2, <3>1 DEF Readiness
    <2>6. ready' \in [Sessions -> SUBSET Readiness]
      BY <2>1, <2>5, <1>0
    <2>7. goal' \in [Sessions -> Goal] /\ log' \in [Sessions -> Seq(Entry)] /\ LogsGrow
      BY <1>0, <1>1 DEF Acquire, LogsGrow
    <2>8. Free /\ UNCHANGED <<active, paused, cursor>>
      BY <1>1 DEF Acquire
    <2> QED
      BY <2>4, <2>6, <2>7, <2>8, Counters DEF Typed
  <1>2. ASSUME NothingToDispatch PROVE Typed' /\ LogsGrow
    <2>1. runs' \in Seq(Run)
      BY <1>2, ReconciledRuns DEF NothingToDispatch
    <2>2. /\ goal' \in [Sessions -> Goal] /\ log' \in [Sessions -> Seq(Entry)] /\ LogsGrow
          /\ ready' \in [Sessions -> SUBSET Readiness]
      BY <1>0, <1>2 DEF NothingToDispatch, LogsGrow
    <2>3. Free /\ UNCHANGED <<active, paused, cursor>>
      BY <1>2 DEF NothingToDispatch
    <2> QED
      BY <2>1, <2>2, <2>3, Counters DEF Typed
  <1>3. ASSUME UNCHANGED vars PROVE Typed' /\ LogsGrow
    BY <1>3, SameLogs DEF vars, Typed
  <1> QED
    BY <1>1, <1>2, <1>3 DEF DispatchStep, ChoosePaused

(* User input, goal revisions and activation keep the types. *)
LEMMA UserTyped ==
  ASSUME Typed, UserStep PROVE Typed' /\ LogsGrow
  <1>1. ASSUME NEW s \in Sessions, UserInput(s) PROVE Typed' /\ LogsGrow
    <2>1. PICK w \in Nat : log' = [log EXCEPT ![s] = @ \o InputEntries(s, w)]
      <3>1. \A w \in WorkerRuns(s) : w \in Nat
        BY DEF WorkerRuns, Typed
      <3>2. PICK w \in IF WorkerRuns(s) = {} THEN {NoRun} ELSE WorkerRuns(s) :
              log' = [log EXCEPT ![s] = @ \o InputEntries(s, w)]
        BY <1>1 DEF UserInput
      <3> QED
        BY <3>1, <3>2
    <2>2. InputEntries(s, w) \in Seq(Entry)
      <3>1. /\ Signal("UserInput") \in Entry /\ Signal("DeferredInput") \in Entry
            /\ Signal("SignalGM") \in Entry /\ Signal("BecameIncomplete") \in Entry
            /\ Signal("BecameIncompleteDeferred") \in Entry /\ Record("Followup", w) \in Entry
        BY Records DEF EntryKinds, Messages, StateChanges, Signals
      <3> QED
        BY <3>1 DEF InputEntries
    <2>3. log' \in [Sessions -> Seq(Entry)] /\ LogsGrow
      BY <2>1, <2>2, OneLogGrows
    <2>4. goal' \in [Sessions -> Goal]
      BY <1>1, DataAssumption, NoWaitType DEF UserInput, Goal, Typed
    <2> QED
      BY <1>1, <2>3, <2>4, Counters DEF UserInput, Typed
  <1>2. ASSUME NEW s \in Sessions, NEW b \in Bodies, UpdateGoal(s, b) PROVE Typed' /\ LogsGrow
    <2>1. RevisionEntries(s) \in Seq(Entry)
      <3>1. Signal("BodyUpdated") \in Entry /\ Signal("BecameIncomplete") \in Entry
        BY Records DEF EntryKinds, StateChanges
      <3> QED
        BY <3>1 DEF RevisionEntries
    <2>2. log' \in [Sessions -> Seq(Entry)] /\ LogsGrow
      BY <1>2, <2>1, OneLogGrows DEF UpdateGoal
    <2>3. goal' \in [Sessions -> Goal]
      BY <1>2 DEF UpdateGoal, Goal, Typed
    <2> QED
      BY <1>2, <2>2, <2>3, Counters DEF UpdateGoal, Typed
  <1>3. ASSUME NEW s \in Sessions, NEW a \in BOOLEAN, SetSessionActive(s, a)
        PROVE  Typed' /\ LogsGrow
    <2>1. Signal(IF a THEN "Activated" ELSE "Deactivated") \in Entry
      BY Records DEF EntryKinds
    <2>2. log' \in [Sessions -> Seq(Entry)] /\ LogsGrow
      BY <1>3, <2>1, OneLogAppends DEF SetSessionActive
    <2>3. active' \in [Sessions -> BOOLEAN]
      BY <1>3 DEF SetSessionActive, Typed
    <2> QED
      BY <1>3, <2>2, <2>3, Counters DEF SetSessionActive, Typed
  <1>4. ASSUME NEW s \in Pausable, SetUnitActive(s) PROVE Typed' /\ LogsGrow
    BY <1>4, Counters, SameLogs DEF SetUnitActive, Typed
  <1> QED
    BY <1>1, <1>2, <1>3, <1>4 DEF UserStep

(* A run that is typed, named by its position. *)
LEMMA RunTyped ==
  ASSUME Typed, NEW i \in DOMAIN runs
  PROVE  runs[i] \in Run /\ i \in Nat /\ runs[i].session \in Sessions /\ runs[i].role \in Roles
  <1>1. runs[i] \in Run /\ i \in Nat
    BY DEF Typed
  <1> QED
    BY <1>1 DEF Run

(* One run changes, the others stay. *)
LEMMA OneRunChanged ==
  ASSUME NEW rs \in Seq(Run), NEW i \in DOMAIN rs, NEW run \in Run,
         NEW new, new = [rs EXCEPT ![i] = run]
  PROVE  /\ new \in Seq(Run) /\ Len(new) = Len(rs) /\ DOMAIN new = DOMAIN rs
         /\ new[i] = run /\ \A j \in DOMAIN rs \ {i} : new[j] = rs[j]
  <1>1. new = [j \in DOMAIN rs |-> new[j]]
    OBVIOUS
  <1>2. \A j \in DOMAIN rs : new[j] \in Run
    OBVIOUS
  <1>3. new \in Seq(Run) /\ Len(new) = Len(rs) /\ DOMAIN new = DOMAIN rs
    BY <1>1, <1>2, RunsMapped
  <1> QED
    BY <1>3

(* The Agent API calls of a running agent keep the types. *)
LEMMA AgentTyped ==
  ASSUME Typed, NEW i \in DOMAIN runs, AgentStep(i) PROVE Typed' /\ LogsGrow
  <1>0. runs[i] \in Run /\ runs[i].session \in Sessions /\ i \in Nat
    BY RunTyped
  <1>00. runs \in Seq(Run)
    BY DEF Typed
  <1>1. ASSUME NEW kind \in MessageKinds, NEW tag \in {"none", "event"},
               AgentMessage(i, kind, tag)
        PROVE  Typed' /\ LogsGrow
    <2>1. kind \in EntryKinds
      BY DataAssumption DEF EntryKinds, Messages, AgentMessages
    <2>2. [Record(kind, i) EXCEPT !.tag = tag] \in Entry
      BY <1>0, <2>1, Records
    <2>3. log' \in [Sessions -> Seq(Entry)] /\ LogsGrow
      BY <1>0, <1>1, <2>2, OneLogAppends DEF AgentMessage
    <2>4. events' \in 0..MaxEvents /\ faults' \in 0..MaxFaults
      BY <1>1, Counters DEF AgentMessage
    <2> QED
      BY <1>1, <2>3, <2>4 DEF AgentMessage, Typed
  <1>2. ASSUME NEW d \in {"complete", "incomplete"}, DeclareOutcome(i, d)
        PROVE  Typed' /\ LogsGrow
    <2>1. [runs[i] EXCEPT !.declared = d] \in Run
      BY <1>0, RunUpdates
    <2>2. runs' = [runs EXCEPT ![i] = [runs[i] EXCEPT !.declared = d]]
      BY <1>2 DEF DeclareOutcome
    <2>3. runs' \in Seq(Run)
      BY <1>00, <2>1, <2>2, OneRunChanged
    <2>4. events' \in 0..MaxEvents /\ faults' \in 0..MaxFaults
      BY <1>2, Counters DEF DeclareOutcome
    <2> QED
      BY <1>2, <2>3, <2>4, SameLogs DEF DeclareOutcome, Typed
  <1>3. ASSUME NEW kind \in WaitKinds, NEW child \in {"none"} \cup Sessions,
               DeclareWaiting(i, kind, child)
        PROVE  Typed' /\ LogsGrow
    <2> DEFINE w == [kind |-> kind, child |-> child, passed |-> FALSE,
                     seq |-> Len(log[runs[i].session])]
    <2>1. w \in Wait
      BY <1>0, DataAssumption DEF Wait, Typed
    <2>2. runs' = [runs EXCEPT ![i] = [runs[i] EXCEPT !.declared = "waiting", !.wait = w]]
      BY <1>3 DEF DeclareWaiting
    <2> HIDE DEF w
    <2>3. [runs[i] EXCEPT !.declared = "waiting", !.wait = w] \in Run
      BY <1>0, <2>1, RunUpdates
    <2>4. runs' \in Seq(Run)
      BY <1>00, <2>2, <2>3, OneRunChanged
    <2> QED
      BY <1>3, <2>4, SameLogs, Counters DEF DeclareWaiting, Typed
  <1> QED
    BY <1>1, <1>2, <1>3 DEF AgentStep

(* What a returning run leaves: the run is over, and what it was is kept.  *)
LEMMA RunReturns ==
  ASSUME Typed, NEW i \in DOMAIN runs, Released(i) \/ runs' = [runs EXCEPT ![i] = Ended(@)]
  PROVE  /\ runs' \in Seq(Run) /\ DOMAIN runs' = DOMAIN runs
         /\ \A j \in DOMAIN runs \ {i} : runs'[j] = runs[j]
         /\ /\ runs'[i].session = runs[i].session /\ runs'[i].role = runs[i].role
            /\ runs'[i].to = runs[i].to
         /\ Released(i) => runs'[i].lease = "released"
         /\ ~Released(i) => runs'[i].lease = runs[i].lease
  <1>1. runs[i] \in Run /\ runs \in Seq(Run)
    BY RunTyped DEF Typed
  <1>2. Ended(runs[i]) \in Run /\ [Ended(runs[i]) EXCEPT !.lease = "released"] \in Run
    BY <1>1, RunUpdates
  <1>3. PICK run \in Run : /\ runs' = [runs EXCEPT ![i] = run]
                           /\ \/ run = [Ended(runs[i]) EXCEPT !.lease = "released"]
                              \/ ~Released(i) /\ run = Ended(runs[i])
    BY <1>2 DEF Released
  <1>4. /\ runs' \in Seq(Run) /\ DOMAIN runs' = DOMAIN runs /\ runs'[i] = run
        /\ \A j \in DOMAIN runs \ {i} : runs'[j] = runs[j]
    BY <1>1, <1>3, OneRunChanged
  <1>5. run.session = runs[i].session /\ run.role = runs[i].role /\ run.to = runs[i].to
    BY <1>1, <1>3 DEF Ended, Run
  <1>6. Released(i) => run.lease = "released"
    BY <1>1, <1>3 DEF Ended, Run
  <1>7. ~Released(i) => run.lease = runs[i].lease
    BY <1>1, <1>3 DEF Ended, Run, Released
  <1> QED
    BY <1>4, <1>5, <1>6, <1>7

(* A role cursor only moves forward, to the end of a run's window. *)
LEMMA CursorMoves ==
  ASSUME Typed, NEW i \in DOMAIN runs, WindowRead(i)
  PROVE  /\ cursor' \in [Sessions -> [Roles -> Nat]]
         /\ \A s \in Sessions, r \in Roles :
              \/ cursor'[s][r] = cursor[s][r]
              \/ s = runs[i].session /\ r = runs[i].role /\ cursor'[s][r] = runs[i].to
  <1>1. runs[i].session \in Sessions /\ runs[i].role \in Roles /\ runs[i].to \in Nat
    BY RunTyped DEF Run
  <1>2. \A m, n \in Nat : Larger(m, n) \in {m, n}
    BY DEF Larger
  <1>3. cursor[runs[i].session][runs[i].role] \in Nat
    BY <1>1 DEF Typed
  <1>4. PICK n \in {cursor[runs[i].session][runs[i].role], runs[i].to} :
          cursor' = [cursor EXCEPT ![runs[i].session][runs[i].role] = n]
    BY <1>1, <1>2, <1>3 DEF WindowRead, AdvancedCursor
  <1>5. n \in Nat
    BY <1>1, <1>3
  <1>6. cursor' \in [Sessions -> [Roles -> Nat]]
    BY <1>1, <1>4, <1>5 DEF Typed
  <1> QED
    BY <1>1, <1>4, <1>6 DEF Typed

(* Resolving readiness entries only removes entries. *)
LEMMA ReadinessShrinks ==
  ASSUME Typed, NEW s \in Sessions, NEW es, EntriesResolved(s, es)
  PROVE  ready' \in [Sessions -> SUBSET Readiness] /\ \A t \in Sessions : ready'[t] \subseteq ready[t]
  BY DEF Typed, EntriesResolved

(* What all commits have in common. *)
LEMMA CommitTyped ==
  ASSUME Typed, NEW i \in DOMAIN runs, NEW r, Commit(i, r)
  PROVE  runs' \in Seq(Run) /\ cursor' \in [Sessions -> [Roles -> Nat]]
  BY RunReturns, CursorMoves DEF Commit

(* Every way a run can return keeps the types. *)
LEMMA ReturnTyped ==
  ASSUME Typed, NEW i \in DOMAIN runs, ReturnStep(i) PROVE Typed' /\ LogsGrow
  <1> DEFINE s == runs[i].session
  <1>0. s \in Sessions /\ i \in Nat /\ runs[i].wait \in Wait
    BY RunTyped DEF Run
  <1>00. /\ Signal("SignalGM") \in Entry /\ Signal("SignalGMDelayed") \in Entry
         /\ Record("DeclaredWaiting", i) \in Entry /\ Record("DeclaredIncomplete", i) \in Entry
         /\ Record("DeclaredComplete", i) \in Entry /\ Record("WorkerRequest", i) \in Entry
         /\ Record("BecameIncomplete", i) \in Entry /\ Signal("BecameIncomplete") \in Entry
         /\ [Record("ChildGoalCompleted", i) EXCEPT !.tag = s] \in Entry
    BY <1>0, Records DEF EntryKinds, Messages, AgentMessages, StateChanges, Declared, Signals
  <1> HIDE DEF s
  <1>1. CASE Discard(i)
    <2>1. runs' \in Seq(Run)
      BY <1>1, RunReturns DEF Discard
    <2>2. cursor' \in [Sessions -> [Roles -> Nat]]
      BY <1>1, CursorMoves DEF Discard, CursorIfHeld, Typed
    <2>3. ready' \in [Sessions -> SUBSET Readiness]
      BY <1>0, <1>1, ReadinessShrinks DEF Discard, s
    <2>4. log' \in [Sessions -> Seq(Entry)] /\ LogsGrow
      <3>1. log' = [log EXCEPT ![s] = @ \o <<Signal("SignalGM")>>]
        BY <1>1 DEF Discard, LogExtended, StaleSignal, s
      <3>2. <<Signal("SignalGM")>> \in Seq(Entry)
        BY <1>00
      <3> QED
        BY <1>0, <3>1, <3>2, OneLogGrows
    <2> QED
      BY <1>1, <2>1, <2>2, <2>3, <2>4, Counters DEF Discard, Typed
  <1>2. CASE CommitUndecided(i)
    <2>1. runs' \in Seq(Run) /\ cursor' \in [Sessions -> [Roles -> Nat]]
      BY <1>2, CommitTyped DEF CommitUndecided
    <2>3. ready' \in [Sessions -> SUBSET Readiness]
      BY <1>0, <1>2, ReadinessShrinks DEF CommitUndecided, s
    <2>4. log' \in [Sessions -> Seq(Entry)] /\ LogsGrow
      <3>1. log' = [log EXCEPT ![s] = @ \o <<Signal("SignalGMDelayed")>>]
        BY <1>2 DEF CommitUndecided, LogExtended, s
      <3>2. <<Signal("SignalGMDelayed")>> \in Seq(Entry)
        BY <1>00
      <3> QED
        BY <1>0, <3>1, <3>2, OneLogGrows
    <2> QED
      BY <1>2, <2>1, <2>3, <2>4, Counters DEF CommitUndecided, Typed
  <1>3. CASE CommitWaiting(i)
    <2>1. runs' \in Seq(Run) /\ cursor' \in [Sessions -> [Roles -> Nat]]
      BY <1>3, CommitTyped DEF CommitWaiting
    <2>2. goal' \in [Sessions -> Goal]
      BY <1>0, <1>3 DEF CommitWaiting, Typed, Goal
    <2>3. ready' \in [Sessions -> SUBSET Readiness]
      BY <1>0, <1>3, ReadinessShrinks DEF CommitWaiting, s
    <2>4. log' \in [Sessions -> Seq(Entry)] /\ LogsGrow
      <3>1. log' = [log EXCEPT ![s] = @ \o <<Record("DeclaredWaiting", i)>>]
        BY <1>3 DEF CommitWaiting, LogExtended, s
      <3>2. <<Record("DeclaredWaiting", i)>> \in Seq(Entry)
        BY <1>00
      <3> QED
        BY <1>0, <3>1, <3>2, OneLogGrows
    <2> QED
      BY <1>3, <2>1, <2>2, <2>3, <2>4, Counters DEF CommitWaiting, Typed
  <1>4. CASE CommitIncomplete(i)
    <2>1. runs' \in Seq(Run) /\ cursor' \in [Sessions -> [Roles -> Nat]]
      BY <1>4, CommitTyped DEF CommitIncomplete
    <2>2. goal' \in [Sessions -> Goal]
      BY <1>4 DEF CommitIncomplete, Typed, Goal
    <2>3. ready' \in [Sessions -> SUBSET Readiness]
      BY <1>0, <1>4, ReadinessShrinks DEF CommitIncomplete, s
    <2>4. log' \in [Sessions -> Seq(Entry)] /\ LogsGrow
      <3> DEFINE m == <<Record("DeclaredIncomplete", i)>>
                        \o (IF WorkRequested(i) THEN <<>> ELSE <<Record("WorkerRequest", i)>>)
      <3>1. log' = [log EXCEPT ![s] = @ \o m]
        BY <1>4 DEF CommitIncomplete, LogExtended, s
      <3>2. m \in Seq(Entry)
        BY <1>00
      <3> QED
        BY <1>0, <3>1, <3>2, OneLogGrows
    <2> QED
      BY <1>4, <2>1, <2>2, <2>3, <2>4, Counters DEF CommitIncomplete, Typed
  <1>5. CASE CommitComplete(i)
    <2>1. runs' \in Seq(Run) /\ cursor' \in [Sessions -> [Roles -> Nat]]
      BY <1>5, CommitTyped DEF CommitComplete
    <2>2. goal' \in [Sessions -> Goal]
      BY <1>5 DEF CommitComplete, Typed, Goal
    <2>3. ready' \in [Sessions -> SUBSET Readiness]
      BY <1>5 DEF CommitComplete, Typed
    <2>4. log' \in [Sessions -> Seq(Entry)] /\ LogsGrow
      <3> DEFINE a(t) == IF t = s THEN <<Record("DeclaredComplete", i)>> ELSE <<>>
                 b(t) == IF t \in Notified(s)
                           THEN <<[Record("ChildGoalCompleted", i) EXCEPT !.tag = s]>> ELSE <<>>
                 c(t) == Reopening(s, t)
      <3>1. log' = [t \in Sessions |-> log[t] \o a(t) \o b(t) \o c(t)]
        BY <1>5 DEF CommitComplete, s
      <3>2. \A t \in Sessions : /\ a(t) \in Seq(Entry) /\ b(t) \in Seq(Entry)
                                /\ c(t) \in Seq(Entry) /\ log[t] \in Seq(Entry)
        BY <1>00 DEF Reopening, Typed
      <3> HIDE DEF a, b, c
      <3>5. \A t \in Sessions : /\ log[t] \o a(t) \o b(t) \o c(t) \in Seq(Entry)
                                /\ Len(log[t]) <= Len(log[t] \o a(t) \o b(t) \o c(t))
        BY <3>2, ExtensionInParts
      <3> QED
        BY <3>1, <3>5 DEF LogsGrow
    <2> QED
      BY <1>5, <2>1, <2>2, <2>3, <2>4, Counters DEF CommitComplete, Typed
  <1>6. CASE CommitWorker(i)
    <2>1. runs' \in Seq(Run) /\ cursor' \in [Sessions -> [Roles -> Nat]]
      BY <1>6, CommitTyped DEF CommitWorker
    <2>3. ready' \in [Sessions -> SUBSET Readiness]
      BY <1>0, <1>6, ReadinessShrinks DEF CommitWorker, s
    <2>4. log' \in [Sessions -> Seq(Entry)] /\ LogsGrow
      <3>1. \/ UNCHANGED log
            \/ log' = [log EXCEPT ![s] = @ \o <<Signal("SignalGMDelayed")>>]
        BY <1>6 DEF CommitWorker, LogExtended, s
      <3>2. <<Signal("SignalGMDelayed")>> \in Seq(Entry)
        BY <1>00
      <3>3. CASE UNCHANGED log
        BY <3>3, SameLogs DEF Typed
      <3> QED
        BY <1>0, <3>1, <3>2, <3>3, OneLogGrows
    <2>5. Free \/ Spend
      BY <1>6 DEF CommitWorker
    <2> QED
      BY <1>6, <2>1, <2>3, <2>4, <2>5, Counters DEF CommitWorker, Typed
  <1>7. CASE CommitError(i)
    <2>1. runs' \in Seq(Run) /\ cursor' \in [Sessions -> [Roles -> Nat]]
      BY <1>7, CommitTyped DEF CommitError
    <2>2. goal' \in [Sessions -> Goal]
      <3>1. goal \in [Sessions -> Goal] /\ [goal[s] EXCEPT !.state = "incomplete"] \in Goal
        BY <1>0 DEF Typed, Goal
      <3>2. goal' = [goal EXCEPT ![s] = [goal[s] EXCEPT !.state = "incomplete"]]
        BY <1>7 DEF CommitError, s
      <3> QED
        BY <3>1, <3>2
    <2>3. ready' \in [Sessions -> SUBSET Readiness]
      BY <1>0, <1>7, ReadinessShrinks DEF CommitError, s
    <2>4. log' \in [Sessions -> Seq(Entry)] /\ LogsGrow
      <3>1. log' = [log EXCEPT ![s] = @ \o <<Record("BecameIncomplete", i)>>]
        BY <1>7 DEF CommitError, LogExtended, s
      <3>2. <<Record("BecameIncomplete", i)>> \in Seq(Entry)
        BY <1>00
      <3> QED
        BY <1>0, <3>1, <3>2, OneLogGrows
    <2> QED
      BY <1>7, <2>1, <2>2, <2>3, <2>4, Counters DEF CommitError, Typed
  <1> QED
    BY <1>1, <1>2, <1>3, <1>4, <1>5, <1>6, <1>7 DEF ReturnStep

(* The clocks keep the types. *)
LEMMA ClockTyped ==
  ASSUME Typed, ClockStep PROVE Typed' /\ LogsGrow
  <1>1. ASSUME NEW i \in DOMAIN runs, LeaseAges(i) PROVE Typed' /\ LogsGrow
    <2>1. runs \in Seq(Run) /\ [runs[i] EXCEPT !.old = TRUE] \in Run
      BY RunTyped, RunUpdates DEF Typed
    <2>2. runs' = [runs EXCEPT ![i] = [runs[i] EXCEPT !.old = TRUE]]
      BY <1>1 DEF LeaseAges
    <2>3. runs' \in Seq(Run)
      BY <2>1, <2>2, OneRunChanged
    <2>4. Fault \/ Free
      BY <1>1 DEF LeaseAges
    <2> QED
      BY <1>1, <2>3, <2>4, Counters, SameLogs DEF LeaseAges, Typed
  <1>2. ASSUME NEW s \in Sessions, DeadlinePasses(s) PROVE Typed' /\ LogsGrow
    <2>1. goal[s] \in Goal /\ goal[s].wait \in Wait
      BY DEF Typed, Goal
    <2>2. [goal[s].wait EXCEPT !.passed = TRUE] \in Wait
      BY <2>1 DEF Wait
    <2>3. [goal[s] EXCEPT !.wait = [goal[s].wait EXCEPT !.passed = TRUE]] \in Goal
      BY <2>1, <2>2 DEF Goal
    <2>4. goal' = [goal EXCEPT ![s] = [goal[s] EXCEPT !.wait = [goal[s].wait EXCEPT !.passed = TRUE]]]
      BY <1>2 DEF DeadlinePasses
    <2>5. goal' \in [Sessions -> Goal]
      BY <2>3, <2>4 DEF Typed
    <2> QED
      BY <1>2, <2>5, Counters, SameLogs DEF DeadlinePasses, Typed
  <1> QED
    BY <1>1, <1>2 DEF ClockStep

(* Crashes, Store.init and runtime recovery keep the types. *)
LEMMA RestartTyped ==
  ASSUME Typed, RestartStep PROVE Typed' /\ LogsGrow
  <1>0. runs \in Seq(Run)
    BY DEF Typed
  <1>1. ASSUME NEW D \in SUBSET DOMAIN runs, Crash(D) PROVE Typed' /\ LogsGrow
    <2>1. \A i \in DOMAIN runs : runs[i] \in Run /\ Ended(runs[i]) \in Run
      BY RunTyped, RunUpdates
    <2>2. runs' = [i \in DOMAIN runs |-> IF i \in D THEN Ended(runs[i]) ELSE runs[i]]
      BY <1>1 DEF Crash
    <2>3. runs' = [i \in DOMAIN runs |-> runs'[i]] /\ \A i \in DOMAIN runs : runs'[i] \in Run
      BY <2>1, <2>2
    <2>4. runs' \in Seq(Run)
      BY <1>0, <2>3, RunsMapped
    <2> QED
      BY <1>1, <2>4, Counters, SameLogs DEF Crash, Typed
  <1>2. ASSUME StoreInit PROVE Typed' /\ LogsGrow
    <2> DEFINE g(s) == [goal[s] EXCEPT !.state = ReplayedState(s)]
    <2>1. /\ goal' = [s \in Sessions |-> WokenGoal(s, g(s), log[s])]
          /\ active' = [s \in Sessions |-> ReplayedActive(s)]
          /\ log' = [s \in Sessions |-> WokenLog(s, g(s), log[s])]
          /\ ready' = [s \in Sessions |->
               RefreshedEntries(s, runs, WokenGoal(s, g(s), log[s]), WokenLog(s, g(s), log[s]), ready[s])]
      BY <1>2 DEF StoreInit
    <2>2. \A s \in Sessions : g(s) \in Goal
      <3>1. \A s \in Sessions : ReplayedState(s) \in {"none", "incomplete", "complete"}
        BY DEF ReplayedState, Typed, Goal
      <3> QED
        BY <3>1 DEF Typed, Goal
    <2> HIDE DEF g
    <2>3. \A s \in Sessions : log[s] \in Seq(Entry) /\ ready[s] \in SUBSET Readiness
      BY DEF Typed
    <2>4. \A s \in Sessions : /\ WokenGoal(s, g(s), log[s]) \in Goal
                              /\ WokenLog(s, g(s), log[s]) \in Seq(Entry)
                              /\ Len(log[s]) <= Len(WokenLog(s, g(s), log[s]))
      BY <2>2, <2>3, WokenTypes
    <2>5. goal' \in [Sessions -> Goal] /\ log' \in [Sessions -> Seq(Entry)] /\ LogsGrow
      BY <2>1, <2>4 DEF LogsGrow
    <2>6. ready' \in [Sessions -> SUBSET Readiness]
      <3>1. \A s \in Sessions :
              RefreshedEntries(s, runs, WokenGoal(s, g(s), log[s]), WokenLog(s, g(s), log[s]), ready[s])
                \in SUBSET Readiness
        BY <2>3, <2>4, RefreshedTypes
      <3> QED
        BY <2>1, <3>1
    <2>7. active' \in [Sessions -> BOOLEAN]
      <3>1. \A s \in Sessions : ReplayedActive(s) \in BOOLEAN
        BY DEF ReplayedActive, Typed
      <3> QED
        BY <2>1, <3>1
    <2>8. Fault /\ UNCHANGED <<paused, cursor, runs>>
      BY <1>2 DEF StoreInit
    <2> QED
      BY <2>5, <2>6, <2>7, <2>8, Counters DEF Typed
  <1>3. ASSUME RecoverRuns PROVE Typed' /\ LogsGrow
    <2>1. \A i \in DOMAIN runs : runs[i] \in Run /\ [runs[i] EXCEPT !.lease = "interrupted"] \in Run
      BY RunTyped, RunUpdates
    <2>2. runs' = [i \in DOMAIN runs |->
                IF runs[i].lease = "acquired" THEN [runs[i] EXCEPT !.lease = "interrupted"]
                                              ELSE runs[i]]
      BY <1>3 DEF RecoverRuns
    <2>3. runs' = [i \in DOMAIN runs |-> runs'[i]] /\ \A i \in DOMAIN runs : runs'[i] \in Run
      BY <2>1, <2>2
    <2>4. runs' \in Seq(Run)
      BY <1>0, <2>3, RunsMapped
    <2>5. ready' \in [Sessions -> SUBSET Readiness]
      <3>1. \A s \in Sessions : ready[s] \in SUBSET Readiness
        BY DEF Typed
      <3>2. \A e \in Readiness : [e EXCEPT !.holder = NoRun] \in Readiness
        BY DEF Readiness
      <3>3. \A s \in Sessions : RecoveredEntries(s) \in SUBSET Readiness
        BY <3>1, <3>2 DEF RecoveredEntries
      <3> QED
        BY <1>3, <3>3 DEF RecoverRuns
    <2>6. log' \in [Sessions -> Seq(Entry)] /\ LogsGrow
      <3>1. \A s \in Sessions : log[s] \in Seq(Entry)
        BY DEF Typed
      <3>2. \A s \in Sessions : Signal(IF WorkerRuns(s) # {} THEN "SignalBoth" ELSE "SignalGM") \in Entry
        BY Records DEF EntryKinds, Signals
      <3>3. \A s \in Sessions : log'[s] \in Seq(Entry) /\ Len(log[s]) <= Len(log'[s])
        BY <1>3, <3>1, <3>2, Extension DEF RecoverRuns
      <3>4. log' = [s \in Sessions |-> log'[s]]
        BY <1>3 DEF RecoverRuns
      <3> QED
        BY <3>3, <3>4 DEF LogsGrow
    <2> QED
      BY <1>3, <2>4, <2>5, <2>6, Counters DEF RecoverRuns, Typed
  <1> QED
    BY <1>1, <1>2, <1>3 DEF RestartStep

(* Every step keeps the types and lengthens logs only. *)
LEMMA TypedStep ==
  ASSUME Typed, [Next]_vars PROVE Typed' /\ LogsGrow
  <1>1. CASE UNCHANGED vars
    BY <1>1, SameLogs DEF vars, Typed
  <1> QED
    BY <1>1, UserTyped, AgentTyped, ReturnTyped, DispatchTyped, ClockTyped, RestartTyped DEF Next

(* The initial states are well typed. *)
LEMMA TypedInit ==
  ASSUME Init PROVE Typed
  <1>1. goal \in [Sessions -> Goal]
    BY NoWaitType, DataAssumption DEF Init, Goal
  <1>2. Signal("BecameIncomplete") \in Entry
    BY Records DEF EntryKinds, StateChanges
  <1>3. log \in [Sessions -> Seq(Entry)]
    BY <1>2 DEF Init
  <1>4. events \in 0..MaxEvents /\ faults \in 0..MaxFaults
    BY DataAssumption DEF Init
  <1>5. runs \in Seq(Run)
    BY DEF Init
  <1>6. /\ active \in [Sessions -> BOOLEAN] /\ paused \subseteq Pausable
        /\ cursor \in [Sessions -> [Roles -> Nat]] /\ ready \in [Sessions -> SUBSET Readiness]
    BY DEF Init
  <1> QED
    BY <1>1, <1>3, <1>4, <1>5, <1>6 DEF Typed

-----------------------------------------------------------------------------
(***************************************************************************)
(* What a step may do to the runs: a run keeps its Session, role and       *)
(* window, a lease that ended stays ended, and only Acquire adds a run.    *)
(***************************************************************************)
Kept(i) == /\ runs'[i].session = runs[i].session /\ runs'[i].role = runs[i].role
           /\ runs'[i].to = runs[i].to
           /\ runs'[i].lease = "acquired" => runs[i].lease = "acquired"
NoNewRun == DOMAIN runs' = DOMAIN runs /\ \A i \in DOMAIN runs : Kept(i)

AcquireStep == \E s \in Sessions, r \in Roles : Acquire(s, r)

LeasesKept ==
  /\ DOMAIN runs' = DOMAIN runs
  /\ \A i \in DOMAIN runs : Kept(i) /\ runs'[i].lease = runs[i].lease

(* A step that leaves the runs alone keeps all leases. *)
LEMMA RunsUntouched ==
  ASSUME UNCHANGED runs PROVE LeasesKept
  BY DEF LeasesKept, Kept

(* Changing what is not part of the lease of one run. *)
LEMMA RunTouched ==
  ASSUME Typed, NEW i \in DOMAIN runs, NEW run \in Run, runs' = [runs EXCEPT ![i] = run],
         run.session = runs[i].session, run.role = runs[i].role, run.to = runs[i].to,
         run.lease = runs[i].lease
  PROVE  LeasesKept
  BY OneRunChanged DEF Typed, LeasesKept, Kept

(* Users, agents and clocks neither give nor take a lease; nor does the    *)
(* death of a process.                                                     *)
LEMMA LeasesKeptStep ==
  ASSUME Typed, \/ UserStep
                \/ \E i \in DOMAIN runs : AgentStep(i)
                \/ ClockStep
                \/ \E D \in SUBSET DOMAIN runs : Crash(D)
  PROVE  LeasesKept
  <1>0. runs \in Seq(Run) /\ \A i \in DOMAIN runs : runs[i] \in Run
    BY RunTyped DEF Typed
  <1>1. CASE UserStep
    BY <1>1, RunsUntouched DEF UserStep, UserInput, UpdateGoal, SetSessionActive, SetUnitActive
  <1>2. ASSUME NEW i \in DOMAIN runs, AgentStep(i) PROVE LeasesKept
    <2>1. ASSUME NEW kind \in MessageKinds, NEW tag \in {"none", "event"},
                 AgentMessage(i, kind, tag)
          PROVE  LeasesKept
      BY <2>1, RunsUntouched DEF AgentMessage
    <2>2. ASSUME NEW d \in {"complete", "incomplete"}, DeclareOutcome(i, d) PROVE LeasesKept
      <3> DEFINE run == [runs[i] EXCEPT !.declared = d]
      <3>1. runs' = [runs EXCEPT ![i] = run]
        BY <2>2 DEF DeclareOutcome
      <3>2. run \in Run
        BY <1>0, RunUpdates
      <3>3. /\ run.session = runs[i].session /\ run.role = runs[i].role
            /\ run.to = runs[i].to /\ run.lease = runs[i].lease
        BY <1>0 DEF Run
      <3> HIDE DEF run
      <3> QED
        BY <3>1, <3>2, <3>3, RunTouched
    <2>3. ASSUME NEW kind \in WaitKinds, NEW child \in {"none"} \cup Sessions,
                 DeclareWaiting(i, kind, child)
          PROVE  LeasesKept
      <3> DEFINE w == [kind |-> kind, child |-> child, passed |-> FALSE,
                       seq |-> Len(log[runs[i].session])]
                 run == [runs[i] EXCEPT !.declared = "waiting", !.wait = w]
      <3>1. runs' = [runs EXCEPT ![i] = run]
        BY <2>3 DEF DeclareWaiting
      <3>2. w \in Wait
        BY RunTyped, DataAssumption DEF Wait, Typed
      <3> HIDE DEF w
      <3>3. run \in Run
        BY <1>0, <3>2, RunUpdates
      <3>4. /\ run.session = runs[i].session /\ run.role = runs[i].role
            /\ run.to = runs[i].to /\ run.lease = runs[i].lease
        BY <1>0 DEF Run
      <3> HIDE DEF run
      <3> QED
        BY <3>1, <3>3, <3>4, RunTouched
    <2> QED
      BY <1>2, <2>1, <2>2, <2>3 DEF AgentStep
  <1>3. CASE ClockStep
    <2>1. ASSUME NEW i \in DOMAIN runs, LeaseAges(i) PROVE LeasesKept
      <3>1. runs' = [runs EXCEPT ![i].old = TRUE] /\ runs[i] \in Run
        BY <1>0, <2>1 DEF LeaseAges
      <3> QED
        BY <3>1 DEF LeasesKept, Kept, Run
    <2> QED
      BY <1>3, <2>1, RunsUntouched DEF ClockStep, DeadlinePasses
  <1>4. ASSUME NEW D \in SUBSET DOMAIN runs, Crash(D) PROVE LeasesKept
    <2>1. \A i \in DOMAIN runs :
            /\ Ended(runs[i]).session = runs[i].session /\ Ended(runs[i]).role = runs[i].role
            /\ Ended(runs[i]).to = runs[i].to /\ Ended(runs[i]).lease = runs[i].lease
      BY <1>0 DEF Ended, Run
    <2> QED
      BY <1>4, <2>1 DEF Crash, LeasesKept, Kept
  <1> QED
    BY <1>1, <1>2, <1>3, <1>4

(* Only Acquire adds a run; no step brings an ended lease back. *)
LEMMA RunsKept ==
  ASSUME Typed, [Next]_vars PROVE AcquireStep \/ NoNewRun
  <1>0. LeasesKept => NoNewRun
    BY DEF LeasesKept, NoNewRun
  <1>1. ASSUME NEW i \in DOMAIN runs, ReturnStep(i) PROVE NoNewRun
    <2>1. Released(i) \/ runs' = [runs EXCEPT ![i] = Ended(@)]
      BY <1>1 DEF ReturnStep, Discard, Commit, CommitUndecided, CommitWaiting, CommitIncomplete,
                  CommitComplete, CommitWorker, CommitError
    <2> QED
      BY <2>1, RunReturns DEF NoNewRun, Kept
  <1>2. CASE DispatchStep
    BY <1>0, <1>2, ReconciledRuns, RunsUntouched
    DEF DispatchStep, AcquireStep, ChoosePaused, NothingToDispatch, vars, NoNewRun, Kept
  <1>3. CASE RecoverRuns
    BY <1>3, RunTyped DEF RecoverRuns, NoNewRun, Kept, Run
  <1>4. CASE StoreInit
    BY <1>0, <1>4, RunsUntouched DEF StoreInit
  <1> QED
    BY <1>0, <1>1, <1>2, <1>3, <1>4, RunsUntouched, LeasesKeptStep DEF Next, RestartStep, vars

(* The run Acquire adds, and what it leaves of the others. *)
LEMMA LeaseAdded ==
  ASSUME Typed, NEW s \in Sessions, NEW r \in Roles, Acquire(s, r)
  PROVE  \E e \in Candidates(s) :
           /\ e.role = r
           /\ DOMAIN runs' = DOMAIN runs \cup {Len(runs) + 1} /\ Len(runs) + 1 \notin DOMAIN runs
           /\ runs'[Len(runs) + 1] = NewRun(s, e)
           /\ \A i \in DOMAIN runs : Kept(i) /\ runs'[i] = RunsR[i]
           /\ ready' = [t \in Sessions |->
                IF t = s THEN (ReadyR(s) \ {e}) \cup {[e EXCEPT !.holder = Len(runs) + 1]}
                         ELSE ReadyR(t)]
  <1>1. PICK e \in Candidates(s) :
            /\ e.role = r
            /\ runs' = Append(RunsR, NewRun(s, e))
            /\ ready' = [t \in Sessions |->
                 IF t = s THEN (ReadyR(s) \ {e}) \cup {[e EXCEPT !.holder = Len(runs) + 1]}
                          ELSE ReadyR(t)]
    BY DEF Acquire
  <1>2. /\ RunsR \in Seq(Run) /\ Len(RunsR) = Len(runs) /\ DOMAIN RunsR = DOMAIN runs
        /\ runs \in Seq(Run)
    BY ReconciledRuns DEF Typed
  <1>3. /\ DOMAIN runs' = 1..(Len(RunsR) + 1)
        /\ runs'[Len(runs) + 1] = NewRun(s, e)
        /\ \A i \in 1..Len(RunsR) : runs'[i] = RunsR[i]
    BY <1>1, <1>2
  <1>4. Len(runs) \in Nat /\ DOMAIN runs = 1..Len(runs)
    BY <1>2
  <1>5. DOMAIN runs' = DOMAIN runs \cup {Len(runs) + 1} /\ Len(runs) + 1 \notin DOMAIN runs
    BY <1>2, <1>3, <1>4
  <1>6. \A i \in DOMAIN runs : runs'[i] = RunsR[i]
    BY <1>2, <1>3, <1>4
  <1>7. \A i \in DOMAIN runs : Kept(i)
    BY <1>6, ReconciledRuns DEF Kept
  <1> QED
    BY <1>1, <1>3, <1>5, <1>6, <1>7

-----------------------------------------------------------------------------
(***************************************************************************)
(* Windows stay inside the logs.                                           *)
(***************************************************************************)
(* Each step takes an entry from the readiness it finds, or offers one     *)
(* that ends with the log it writes.                                       *)
ReadinessFrom == \A s \in Sessions : \A e \in ready'[s] :
                   (\E f \in ready[s] : f.to = e.to) \/ e.to <= Len(log'[s])

(* Removing readiness offers no new window. *)
LEMMA ReadinessShrunk ==
  ASSUME \A s \in Sessions : ready'[s] \subseteq ready[s] PROVE ReadinessFrom
  BY DEF ReadinessFrom

(* A readiness entry has the window of an earlier one or the end of the    *)
(* log it was derived from.                                                *)
LEMMA ReadinessStep ==
  ASSUME Typed, [Next]_vars PROVE ReadinessFrom
  <1>1. CASE UNCHANGED ready
    BY <1>1, ReadinessShrunk
  <1>2. ASSUME NEW i \in DOMAIN runs, ReturnStep(i) PROVE ReadinessFrom
    <2>1. runs[i].session \in Sessions
      BY RunTyped
    <2>2. CASE CommitComplete(i)
      BY <2>1, <2>2, ReadinessShrunk DEF CommitComplete, Typed
    <2>3. \/ CommitComplete(i)
          \/ \E es : EntriesResolved(runs[i].session, es)
      BY <1>2 DEF ReturnStep, Discard, CommitUndecided, CommitWaiting, CommitIncomplete,
                  CommitWorker, CommitError
    <2> QED
      BY <2>1, <2>2, <2>3, ReadinessShrinks, ReadinessShrunk
  <1>3. ASSUME NEW s \in Sessions, NEW r \in Roles, Acquire(s, r) PROVE ReadinessFrom
    <2>1. PICK e \in Candidates(s) :
            ready' = [t \in Sessions |->
                 IF t = s THEN (ReadyR(s) \ {e}) \cup {[e EXCEPT !.holder = Len(runs) + 1]}
                          ELSE ReadyR(t)]
      BY <1>3, LeaseAdded
    <2>2. log' = [t \in Sessions |-> LogR(t)]
      BY <1>3 DEF Acquire
    <2>3. \A t \in Sessions : \A f \in ReadyR(t) :
            (\E g \in ready[t] : g.to = f.to) \/ f.to <= Len(log'[t])
      BY <2>2, ReconciledSession
    <2>4. e \in ReadyR(s) /\ e \in Readiness
      BY <2>1, ReconciledSession DEF Candidates
    <2>5. [e EXCEPT !.holder = Len(runs) + 1].to = e.to
      BY <2>4 DEF Readiness
    <2> QED
      BY <2>1, <2>3, <2>4, <2>5 DEF ReadinessFrom
  <1>4. CASE NothingToDispatch
    BY <1>4, ReconciledSession DEF NothingToDispatch, ReadinessFrom
  <1>5. CASE StoreInit
    <2> DEFINE g(s) == [goal[s] EXCEPT !.state = ReplayedState(s)]
               l(s) == WokenLog(s, g(s), log[s])
    <2>1. /\ log' = [s \in Sessions |-> l(s)]
          /\ ready' = [s \in Sessions |->
               RefreshedEntries(s, runs, WokenGoal(s, g(s), log[s]), l(s), ready[s])]
      BY <1>5 DEF StoreInit
    <2>2. log' \in [Sessions -> Seq(Entry)] /\ ready \in [Sessions -> SUBSET Readiness]
      BY <1>5, RestartTyped DEF RestartStep, Typed
    <2> HIDE DEF g, l
    <2>3. \A s \in Sessions : l(s) \in Seq(Entry) /\ Len(l(s)) \in Nat
      BY <2>1, <2>2
    <2>4. \A s \in Sessions : \A e \in ready'[s] : e \in ready[s] \/ e.to = Len(l(s))
      BY <2>1, <2>2, <2>3, RefreshedTypes
    <2> QED
      BY <2>1, <2>3, <2>4 DEF ReadinessFrom
  <1>6. CASE RecoverRuns
    <2>1. \A s \in Sessions : \A e \in RecoveredEntries(s) : \E f \in ready[s] : f.to = e.to
      BY DEF RecoveredEntries, Typed, Readiness
    <2> QED
      BY <1>6, <2>1 DEF RecoverRuns, ReadinessFrom
  <1> QED
    BY <1>1, <1>2, <1>3, <1>4, <1>5, <1>6
    DEF Next, vars, UserStep, UserInput, UpdateGoal, SetSessionActive, SetUnitActive, AgentStep,
        AgentMessage, DeclareOutcome, DeclareWaiting, DispatchStep, ChoosePaused, ClockStep,
        LeaseAges, DeadlinePasses, RestartStep, Crash

(* A cursor stays where it is or moves to the end of a run's window. *)
LEMMA CursorStep ==
  ASSUME Typed, [Next]_vars
  PROVE  \/ UNCHANGED cursor
         \/ \E i \in DOMAIN runs : WindowRead(i)
  BY DEF Next, vars, UserStep, UserInput, UpdateGoal, SetSessionActive, SetUnitActive, AgentStep,
        AgentMessage, DeclareOutcome, DeclareWaiting, DispatchStep, Acquire, ChoosePaused,
        NothingToDispatch, ClockStep, LeaseAges, DeadlinePasses, RestartStep, Crash, StoreInit,
        RecoverRuns, ReturnStep, Discard, CursorIfHeld, Commit, CommitUndecided, CommitWaiting,
        CommitIncomplete, CommitComplete, CommitWorker, CommitError

(* No step moves a cursor, an offer or a run's window beyond its log:      *)
(* windows come from the log, and logs only grow.                          *)
LEMMA WindowsStep ==
  ASSUME TypeOK, [Next]_vars PROVE WindowsInLog'
  <1>0. Typed /\ WindowsInLog /\ Typed' /\ LogsGrow
    BY TypedStep DEF TypeOK
  <1>00. \A s \in Sessions : Len(log[s]) \in Nat /\ Len(log'[s]) \in Nat
    BY <1>0 DEF Typed
  <1>1. \A s \in Sessions, r \in Roles : cursor'[s][r] <= Len(log'[s])
    <2>1. \A s \in Sessions, r \in Roles : cursor'[s][r] <= Len(log[s])
      <3>1. CASE UNCHANGED cursor
        BY <1>0, <3>1 DEF WindowsInLog
      <3>2. ASSUME NEW i \in DOMAIN runs, WindowRead(i)
            PROVE  \A s \in Sessions, r \in Roles : cursor'[s][r] <= Len(log[s])
        BY <1>0, <3>2, CursorMoves DEF WindowsInLog
      <3> QED
        BY <1>0, <3>1, <3>2, CursorStep
    <2>2. \A s \in Sessions, r \in Roles : cursor'[s][r] \in Nat
      BY <1>0 DEF Typed
    <2> QED
      BY <1>0, <1>00, <2>1, <2>2 DEF LogsGrow
  <1>2. \A s \in Sessions : \A e \in ready'[s] : e.to <= Len(log'[s])
    <2> SUFFICES ASSUME NEW s \in Sessions, NEW e \in ready'[s] PROVE e.to <= Len(log'[s])
      OBVIOUS
    <2>1. \A f \in ready[s] : f.to \in Nat /\ f.to <= Len(log[s])
      BY <1>0 DEF Typed, Readiness, WindowsInLog
    <2>2. (\E f \in ready[s] : f.to = e.to) \/ e.to <= Len(log'[s])
      BY <1>0, ReadinessStep DEF ReadinessFrom
    <2> QED
      BY <1>0, <1>00, <2>1, <2>2 DEF LogsGrow
  <1>3. \A i \in DOMAIN runs' : runs'[i].to <= Len(log'[runs'[i].session])
    <2>1. ASSUME NEW i \in DOMAIN runs, Kept(i) PROVE runs'[i].to <= Len(log'[runs'[i].session])
      <3>1. /\ runs[i].session \in Sessions /\ runs[i].to \in Nat
            /\ runs[i].to <= Len(log[runs[i].session])
        BY <1>0, RunTyped DEF Run, WindowsInLog
      <3> QED
        BY <1>0, <1>00, <2>1, <3>1 DEF Kept, LogsGrow
    <2>2. CASE NoNewRun
      BY <2>1, <2>2 DEF NoNewRun
    <2>3. ASSUME NEW s \in Sessions, NEW r \in Roles, Acquire(s, r)
          PROVE  \A i \in DOMAIN runs' : runs'[i].to <= Len(log'[runs'[i].session])
      <3>1. PICK e \in Candidates(s) :
              /\ DOMAIN runs' = DOMAIN runs \cup {Len(runs) + 1}
              /\ runs'[Len(runs) + 1] = NewRun(s, e)
              /\ \A i \in DOMAIN runs : Kept(i)
              /\ ready' = [t \in Sessions |->
                   IF t = s THEN (ReadyR(s) \ {e}) \cup {[e EXCEPT !.holder = Len(runs) + 1]}
                            ELSE ReadyR(t)]
        BY <1>0, <2>3, LeaseAdded
      <3>2. [e EXCEPT !.holder = Len(runs) + 1] \in ready'[s] /\ e \in Readiness
        BY <1>0, <3>1, ReconciledSession DEF Candidates
      <3>3. e.to <= Len(log'[s])
        BY <1>2, <3>2 DEF Readiness
      <3>4. NewRun(s, e).to = e.to /\ NewRun(s, e).session = s
        BY DEF NewRun
      <3> QED
        BY <2>1, <3>1, <3>3, <3>4
    <2> QED
      BY <1>0, <2>2, <2>3, RunsKept DEF AcquireStep
  <1> QED
    BY <1>1, <1>2, <1>3 DEF WindowsInLog

(* TypeOK is inductive. *)
LEMMA TypeOKInductive ==
  ASSUME TypeOK, [Next]_vars PROVE TypeOK'
  BY WindowsStep, TypedStep DEF TypeOK

(* Every reachable state is well typed, and the role cursors, the offered  *)
(* windows and the windows runs observed never point beyond the end of the *)
(* SessionLog they belong to.                                              *)
THEOREM TypeCorrect == Spec => []TypeOK
  <1>1. Init => TypeOK
    <2> SUFFICES ASSUME Init PROVE TypeOK
      OBVIOUS
    <2>1. Typed
      BY TypedInit
    <2>2. WindowsInLog
      BY <2>1 DEF WindowsInLog, Init, Typed
    <2> QED
      BY <2>1, <2>2 DEF TypeOK
  <1>2. TypeOK /\ [Next]_vars => TypeOK'
    BY TypeOKInductive
  <1> QED
    BY <1>1, <1>2, PTL DEF Spec

-----------------------------------------------------------------------------
(* A step keeps a role of a Session leased to one run at most: a lease     *)
(* that ended stays ended, and Acquire looks for one first.                *)
LEMMA OneRunPerRoleStep ==
  ASSUME Typed, OneRunPerRole, [Next]_vars PROVE OneRunPerRole'
  <1>1. CASE NoNewRun
    BY <1>1 DEF NoNewRun, Kept, OneRunPerRole
  <1>2. ASSUME NEW s \in Sessions, NEW r \in Roles, Acquire(s, r) PROVE OneRunPerRole'
    <2>1. PICK e \in Candidates(s) :
           /\ DOMAIN runs' = DOMAIN runs \cup {Len(runs) + 1}
           /\ runs'[Len(runs) + 1] = NewRun(s, e)
           /\ \A i \in DOMAIN runs : Kept(i) /\ runs'[i] = RunsR[i]
      BY <1>2, LeaseAdded
    <2>2. \A i \in DOMAIN runs :
            ~(/\ runs'[i].session = s /\ runs'[i].role = e.role /\ runs'[i].lease = "acquired")
      BY <2>1, ReconciledRuns DEF Candidates, HasAcquiredRun
    <2>3. NewRun(s, e).session = s /\ NewRun(s, e).role = e.role
      BY DEF NewRun
    <2> QED
      BY <2>1, <2>2, <2>3 DEF Kept, OneRunPerRole
  <1> QED
    BY <1>1, <1>2, RunsKept DEF AcquireStep

(* However leases expire, crash, are released or recovered, no Session     *)
(* ever has two GoalManagers or two WorkerAgents leased at once.           *)
THEOREM LeasesExclusive == Spec => []OneRunPerRole
  <1>1. Init => Typed /\ OneRunPerRole
    <2> SUFFICES ASSUME Init PROVE Typed /\ OneRunPerRole
      OBVIOUS
    <2>1. DOMAIN runs = {}
      BY DEF Init
    <2> QED
      BY <2>1, TypedInit DEF OneRunPerRole
  <1>2. (Typed /\ OneRunPerRole) /\ [Next]_vars => (Typed /\ OneRunPerRole)'
    BY TypedStep, OneRunPerRoleStep
  <1> QED
    BY <1>1, <1>2, PTL DEF Spec

-----------------------------------------------------------------------------
(* Readiness that no run took is not the subject of ReadinessOwned, and a  *)
(* run that returns takes its readiness with it.                           *)
OwnedBy(e, s, rs) ==
  /\ e.holder \in DOMAIN rs /\ rs[e.holder].lease = "acquired"
  /\ rs[e.holder].session = s /\ rs[e.holder].role = e.role

(* A step that ends a lease also resolves, reopens or drops the readiness  *)
(* that lease holds.                                                       *)
LEMMA ReadinessOwnedStep ==
  ASSUME Typed, ReadinessOwned, [Next]_vars PROVE ReadinessOwned'
  <1>0. \A s \in Sessions : \A e \in ready[s] : e.holder # NoRun => OwnedBy(e, s, runs)
    BY DEF ReadinessOwned, OwnedBy
  <1>00. ASSUME \A s \in Sessions : \A e \in ready'[s] : e.holder # NoRun => OwnedBy(e, s, runs')
         PROVE  ReadinessOwned'
    BY <1>00 DEF ReadinessOwned, OwnedBy
  <1>1. ASSUME LeasesKept, \A s \in Sessions : \A e \in ready'[s] : e.holder = NoRun \/ e \in ready[s]
        PROVE  ReadinessOwned'
    BY <1>0, <1>00, <1>1 DEF LeasesKept, Kept, OwnedBy
  <1>2. CASE UserStep \/ (\E i \in DOMAIN runs : AgentStep(i)) \/ ClockStep
               \/ \E D \in SUBSET DOMAIN runs : Crash(D)
    <2>1. UNCHANGED ready
      BY <1>2 DEF UserStep, UserInput, UpdateGoal, SetSessionActive, SetUnitActive, AgentStep,
                  AgentMessage, DeclareOutcome, DeclareWaiting, ClockStep, LeaseAges,
                  DeadlinePasses, Crash
    <2> QED
      BY <1>1, <1>2, <2>1, LeasesKeptStep
  <1>3. ASSUME NEW i \in DOMAIN runs, ReturnStep(i) PROVE ReadinessOwned'
    <2> DEFINE s == runs[i].session
    <2>0. s \in Sessions /\ i \in Nat \ {0}
      BY RunTyped DEF Typed
    <2>1. \/ runs[i].lease # "acquired" /\ runs' = [runs EXCEPT ![i] = Ended(@)]
          \/ Released(i) /\ \A e \in ready'[s] : e.holder # i
      <3>1. \A e \in ready[s] : e.holder = i => e.role = runs[i].role
        BY <1>0, <2>0 DEF OwnedBy
      <3>2. CASE Discard(i)
        <4>1. CASE runs[i].lease = "acquired"
          BY <2>0, <3>2, <4>1 DEF Discard, Typed, EntriesResolved, EntriesOf
        <4> QED
          BY <3>2, <4>1 DEF Discard
      <3>3. CASE CommitComplete(i)
        BY <2>0, <3>3 DEF CommitComplete, Commit, Typed
      <3>4. CASE CommitWaiting(i) \/ CommitIncomplete(i)
        <4>1. Released(i) /\ runs[i].role = GM /\ EntriesResolved(s, ReviewEntries(s))
          BY <3>4 DEF CommitWaiting, CommitIncomplete, Commit
        <4>2. ready'[s] = ready[s] \ ReviewEntries(s)
          BY <2>0, <4>1 DEF EntriesResolved, Typed
        <4> QED
          BY <3>1, <4>1, <4>2 DEF ReviewEntries
      <3>5. CASE CommitUndecided(i) \/ CommitWorker(i) \/ CommitError(i)
        BY <2>0, <3>5
        DEF CommitUndecided, CommitWorker, CommitError, Commit, Typed, EntriesResolved, EntriesOf
      <3> QED
        BY <1>3, <3>2, <3>3, <3>4, <3>5 DEF ReturnStep
    <2>2. \A t \in Sessions : ready'[t] \subseteq ready[t]
      <3>1. CASE CommitComplete(i)
        BY <2>0, <3>1 DEF CommitComplete, Typed
      <3>2. CommitComplete(i) \/ \E es : EntriesResolved(s, es)
        BY <1>3 DEF ReturnStep, Discard, CommitUndecided, CommitWaiting, CommitIncomplete,
                    CommitWorker, CommitError
      <3> QED
        BY <2>0, <3>1, <3>2, ReadinessShrinks
    <2> HIDE DEF s
    <2>3. \A t \in Sessions : \A e \in ready'[t] : e.holder # NoRun => e.holder # i
      BY <1>0, <2>0, <2>1, <2>2 DEF OwnedBy, s
    <2>4. DOMAIN runs' = DOMAIN runs /\ \A j \in DOMAIN runs \ {i} : runs'[j] = runs[j]
      BY <2>1, RunReturns
    <2> QED
      BY <1>0, <1>00, <2>2, <2>3, <2>4 DEF OwnedBy
  <1>4. \A t \in Sessions : \A e \in ReadyR(t) :
          e.holder # NoRun => OwnedBy(e, t, RunsR)
    <2> SUFFICES ASSUME NEW t \in Sessions, NEW e \in ReadyR(t), e.holder # NoRun
                 PROVE  OwnedBy(e, t, RunsR)
      OBVIOUS
    <2>1. e \in ready[t] \ Orphans(t)
      BY ReconciledSession
    <2>2. e.holder \in DOMAIN runs /\ RunsR[e.holder].lease = "acquired"
      BY <2>1 DEF Orphans
    <2> QED
      BY <1>0, <2>1, <2>2, ReconciledRuns DEF OwnedBy
  <1>5. CASE NothingToDispatch
    BY <1>00, <1>4, <1>5 DEF NothingToDispatch
  <1>6. ASSUME NEW s \in Sessions, NEW r \in Roles, Acquire(s, r) PROVE ReadinessOwned'
    <2>1. PICK e \in Candidates(s) :
           /\ DOMAIN runs' = DOMAIN runs \cup {Len(runs) + 1} /\ Len(runs) + 1 \notin DOMAIN runs
           /\ runs'[Len(runs) + 1] = NewRun(s, e)
           /\ \A i \in DOMAIN runs : Kept(i) /\ runs'[i] = RunsR[i]
           /\ ready' = [t \in Sessions |->
                IF t = s THEN (ReadyR(s) \ {e}) \cup {[e EXCEPT !.holder = Len(runs) + 1]}
                         ELSE ReadyR(t)]
      BY <1>6, LeaseAdded
    <2>2. e \in Readiness
      BY <2>1, ReconciledSession DEF Candidates
    <2>3. [e EXCEPT !.holder = Len(runs) + 1].holder = Len(runs) + 1
            /\ [e EXCEPT !.holder = Len(runs) + 1].role = e.role
      BY <2>2 DEF Readiness
    <2>4. /\ NewRun(s, e).lease = "acquired" /\ NewRun(s, e).session = s
          /\ NewRun(s, e).role = e.role
      BY DEF NewRun
    <2>5. OwnedBy([e EXCEPT !.holder = Len(runs) + 1], s, runs')
      BY <2>1, <2>3, <2>4 DEF OwnedBy
    <2>6. \A t \in Sessions : \A f \in ReadyR(t) : f.holder # NoRun => OwnedBy(f, t, runs')
      BY <1>4, <2>1, ReconciledRuns DEF OwnedBy
    <2>7. \A t \in Sessions : \A f \in ready'[t] :
            f \in ReadyR(t) \/ (t = s /\ f = [e EXCEPT !.holder = Len(runs) + 1])
      BY <2>1
    <2> QED
      BY <1>00, <2>5, <2>6, <2>7
  <1>7. CASE StoreInit
    <2> DEFINE g(s) == [goal[s] EXCEPT !.state = ReplayedState(s)]
               l(s) == WokenLog(s, g(s), log[s])
    <2>1. /\ log' = [s \in Sessions |-> l(s)] /\ UNCHANGED runs
          /\ ready' = [s \in Sessions |->
               RefreshedEntries(s, runs, WokenGoal(s, g(s), log[s]), l(s), ready[s])]
      BY <1>7 DEF StoreInit
    <2>2. log' \in [Sessions -> Seq(Entry)] /\ ready \in [Sessions -> SUBSET Readiness]
      BY <1>7, RestartTyped DEF RestartStep, Typed
    <2> HIDE DEF g, l
    <2>3. \A s \in Sessions : l(s) \in Seq(Entry)
      BY <2>1, <2>2
    <2>4. \A s \in Sessions : \A e \in ready'[s] : e \in ready[s] \/ e.holder = NoRun
      BY <2>1, <2>2, <2>3, RefreshedTypes
    <2> QED
      BY <1>1, <2>1, <2>4, RunsUntouched
  <1>8. CASE RecoverRuns
    <2>1. \A s \in Sessions : \A e \in RecoveredEntries(s) : e.holder = NoRun
      BY DEF RecoveredEntries, Typed, Readiness
    <2> QED
      BY <1>00, <1>8, <2>1 DEF RecoverRuns
  <1>9. CASE UNCHANGED vars
    BY <1>1, <1>9, RunsUntouched DEF vars
  <1> QED
    BY <1>2, <1>3, <1>5, <1>6, <1>7, <1>8, <1>9
    DEF Next, DispatchStep, ChoosePaused, RestartStep

(* No commit, expiry, crash or restart leaves acquired readiness behind    *)
(* that no live lease of its own Session and role stands for, so no role   *)
(* is blocked for good by an entry nobody will resolve.                    *)
THEOREM NoOrphanReadiness == Spec => []ReadinessOwned
  <1>1. Init => Typed /\ ReadinessOwned
    BY TypedInit DEF Init, ReadinessOwned
  <1>2. (Typed /\ ReadinessOwned) /\ [Next]_vars => (Typed /\ ReadinessOwned)'
    BY TypedStep, ReadinessOwnedStep
  <1> QED
    BY <1>1, <1>2, PTL DEF Spec
-----------------------------------------------------------------------------
(***************************************************************************)
(* A role cursor stands at the end of the furthest window whose run was    *)
(* released: what an interrupted run had read is offered again.            *)
(***************************************************************************)
ReleasedBy(i, s, r) == runs[i].session = s /\ runs[i].role = r /\ runs[i].lease = "released"
(* The invariant, run by run. *)
CursorReached ==
  \A s \in Sessions, r \in Roles :
    \/ cursor[s][r] = 0
    \/ \E i \in DOMAIN runs : ReleasedBy(i, s, r) /\ runs[i].to = cursor[s][r]
CursorFurthest ==
  \A i \in DOMAIN runs :
    runs[i].lease = "released" => runs[i].to <= cursor[runs[i].session][runs[i].role]

(* A step that keeps the released runs and the cursors. *)
SameReleased ==
  /\ UNCHANGED cursor
  /\ DOMAIN runs \subseteq DOMAIN runs'
  /\ \A i \in DOMAIN runs : /\ runs'[i].session = runs[i].session /\ runs'[i].role = runs[i].role
                            /\ runs'[i].to = runs[i].to
                            /\ runs'[i].lease = "released" <=> runs[i].lease = "released"
  /\ \A i \in DOMAIN runs' \ DOMAIN runs : runs'[i].lease # "released"

(* Expiring leases releases none. *)
LEMMA ExpiryReleasesNone ==
  ASSUME Typed
  PROVE  \A i \in DOMAIN runs : RunsR[i].lease = "released" <=> runs[i].lease = "released"
  BY RunTyped DEF RunsR, LeaseExpired, Run

(* A step releases a run exactly when it moves the cursor to its window.   *)
LEMMA ReleaseStep ==
  ASSUME Typed, [Next]_vars
  PROVE  SameReleased \/ \E i \in DOMAIN runs : Released(i) /\ WindowRead(i)
  <1>0. \A i \in DOMAIN runs : runs[i] \in Run
    BY RunTyped
  <1>1. ASSUME NEW i \in DOMAIN runs, ReturnStep(i)
        PROVE  SameReleased \/ (Released(i) /\ WindowRead(i))
    <2>1. CASE Discard(i) /\ runs[i].lease # "acquired"
      <3>1. UNCHANGED cursor /\ runs' = [runs EXCEPT ![i] = Ended(@)]
        BY <2>1 DEF Discard, CursorIfHeld
      <3>2. /\ Ended(runs[i]).session = runs[i].session /\ Ended(runs[i]).role = runs[i].role
            /\ Ended(runs[i]).to = runs[i].to /\ Ended(runs[i]).lease = runs[i].lease
        BY <1>0 DEF Ended, Run
      <3>3. DOMAIN runs' = DOMAIN runs /\ runs'[i] = Ended(runs[i])
            /\ \A j \in DOMAIN runs \ {i} : runs'[j] = runs[j]
        BY <3>1, RunReturns
      <3> QED
        BY <3>1, <3>2, <3>3 DEF SameReleased
    <2>2. CASE ~(Discard(i) /\ runs[i].lease # "acquired")
      BY <1>1, <2>2 DEF ReturnStep, Discard, CursorIfHeld, Commit, CommitUndecided, CommitWaiting,
                        CommitIncomplete, CommitComplete, CommitWorker, CommitError
    <2> QED
      BY <2>1, <2>2
  <1>2. LeasesKept /\ UNCHANGED cursor => SameReleased
    BY DEF LeasesKept, Kept, SameReleased
  <1>3. CASE \/ UserStep \/ (\E i \in DOMAIN runs : AgentStep(i)) \/ ClockStep
             \/ \E D \in SUBSET DOMAIN runs : Crash(D)
    <2>1. UNCHANGED cursor
      BY <1>3 DEF UserStep, UserInput, UpdateGoal, SetSessionActive, SetUnitActive, AgentStep,
                  AgentMessage, DeclareOutcome, DeclareWaiting, ClockStep, LeaseAges,
                  DeadlinePasses, Crash
    <2> QED
      BY <1>2, <1>3, <2>1, LeasesKeptStep
  <1>4. ASSUME NEW s \in Sessions, NEW r \in Roles, Acquire(s, r) PROVE SameReleased
    <2>1. PICK e \in Candidates(s) :
            /\ DOMAIN runs' = DOMAIN runs \cup {Len(runs) + 1}
            /\ runs'[Len(runs) + 1] = NewRun(s, e)
            /\ \A i \in DOMAIN runs : Kept(i) /\ runs'[i] = RunsR[i]
      BY <1>4, LeaseAdded
    <2>2. NewRun(s, e).lease # "released"
      BY DEF NewRun
    <2>3. UNCHANGED cursor
      BY <1>4 DEF Acquire
    <2> QED
      BY <2>1, <2>2, <2>3, ExpiryReleasesNone DEF SameReleased, Kept
  <1>5. CASE NothingToDispatch
    BY <1>5, ReconciledRuns, ExpiryReleasesNone DEF NothingToDispatch, SameReleased
  <1>6. CASE StoreInit
    BY <1>2, <1>6, RunsUntouched DEF StoreInit
  <1>7. CASE RecoverRuns
    BY <1>0, <1>7 DEF RecoverRuns, SameReleased, Run
  <1>8. CASE UNCHANGED vars
    BY <1>2, <1>8, RunsUntouched DEF vars
  <1> QED
    BY <1>1, <1>3, <1>4, <1>5, <1>6, <1>7, <1>8
    DEF Next, DispatchStep, ChoosePaused, RestartStep

(* Releasing a run moves its cursor to the larger of the two. *)
LEMMA CursorAfter ==
  ASSUME Typed, NEW i \in DOMAIN runs, WindowRead(i)
  PROVE  /\ cursor'[runs[i].session][runs[i].role]
              = Larger(cursor[runs[i].session][runs[i].role], runs[i].to)
         /\ \A s \in Sessions, r \in Roles :
              s # runs[i].session \/ r # runs[i].role => cursor'[s][r] = cursor[s][r]
  <1>1. runs[i].session \in Sessions /\ runs[i].role \in Roles
    BY RunTyped
  <1>2. cursor \in [Sessions -> [Roles -> Nat]]
    BY DEF Typed
  <1> QED
    BY <1>1, <1>2 DEF WindowRead, AdvancedCursor

(* Releasing a run keeps both parts of the invariant. *)
LEMMA ReleaseKeeps ==
  ASSUME Typed, CursorReached, CursorFurthest, NEW i \in DOMAIN runs, Released(i), WindowRead(i)
  PROVE  CursorReached' /\ CursorFurthest'
  <1> DEFINE c == cursor[runs[i].session][runs[i].role]
             d == cursor'[runs[i].session][runs[i].role]
  <1>1. runs[i].session \in Sessions /\ runs[i].role \in Roles /\ runs[i].to \in Nat
    BY RunTyped DEF Run
  <1>2. c \in Nat
    BY <1>1 DEF Typed
  <1>3. /\ DOMAIN runs' = DOMAIN runs /\ \A j \in DOMAIN runs \ {i} : runs'[j] = runs[j]
        /\ runs'[i].session = runs[i].session /\ runs'[i].role = runs[i].role
        /\ runs'[i].to = runs[i].to /\ runs'[i].lease = "released"
    BY RunReturns
  <1>4. d = Larger(c, runs[i].to)
    BY CursorAfter
  <1>5. \A s \in Sessions, r \in Roles :
          s # runs[i].session \/ r # runs[i].role => cursor'[s][r] = cursor[s][r]
    BY CursorAfter
  <1>6. \A j \in DOMAIN runs : /\ runs[j].session \in Sessions /\ runs[j].role \in Roles
                               /\ runs[j].to \in Nat
    BY RunTyped DEF Run
  <1> HIDE DEF c, d
  <1>7. c <= d /\ runs[i].to <= d /\ (d = runs[i].to \/ d = c) /\ d \in Nat
    BY <1>1, <1>2, <1>4 DEF Larger
  <1>8. CursorFurthest'
    <2> SUFFICES ASSUME NEW j \in DOMAIN runs, runs'[j].lease = "released"
                 PROVE  runs'[j].to <= cursor'[runs'[j].session][runs'[j].role]
      BY <1>3 DEF CursorFurthest
    <2>1. CASE j = i
      BY <1>3, <1>7, <2>1 DEF d
    <2>2. CASE j # i
      <3>1. runs'[j] = runs[j] /\ runs[j].to <= cursor[runs[j].session][runs[j].role]
        BY <1>3, <2>2 DEF CursorFurthest
      <3>2. CASE runs[j].session = runs[i].session /\ runs[j].role = runs[i].role
        <4>1. runs[j].to <= c /\ cursor'[runs[j].session][runs[j].role] = d
          BY <3>1, <3>2 DEF c, d
        <4> QED
          BY <1>2, <1>6, <1>7, <3>1, <4>1
      <3> QED
        BY <1>5, <1>6, <3>1, <3>2
    <2> QED
      BY <2>1, <2>2
  <1>9. CursorReached'
    <2> SUFFICES ASSUME NEW s \in Sessions, NEW r \in Roles, cursor'[s][r] # 0
                 PROVE  \E j \in DOMAIN runs' : ReleasedBy(j, s, r)' /\ runs'[j].to = cursor'[s][r]
      BY DEF CursorReached
    <2>1. CASE s = runs[i].session /\ r = runs[i].role /\ d = runs[i].to
      BY <1>3, <2>1 DEF ReleasedBy, d
    <2>2. CASE cursor'[s][r] = cursor[s][r]
      <3>1. PICK j \in DOMAIN runs : ReleasedBy(j, s, r) /\ runs[j].to = cursor[s][r]
        BY <2>2 DEF CursorReached
      <3>2. ReleasedBy(j, s, r)' /\ runs'[j].to = runs[j].to
        BY <1>3, <3>1 DEF ReleasedBy
      <3> QED
        BY <1>3, <2>2, <3>1, <3>2
    <2>3. cursor'[s][r] = cursor[s][r] \/ (s = runs[i].session /\ r = runs[i].role /\ d = runs[i].to)
      BY <1>5, <1>7 DEF c, d
    <2> QED
      BY <2>1, <2>2, <2>3
  <1> QED
    BY <1>8, <1>9

(* Every step keeps both parts. *)
LEMMA CursorPartsStep ==
  ASSUME Typed, CursorReached, CursorFurthest, [Next]_vars
  PROVE  CursorReached' /\ CursorFurthest'
  <1>1. CASE SameReleased
    <2>1. CursorReached'
      <3> SUFFICES ASSUME NEW s \in Sessions, NEW r \in Roles, cursor'[s][r] # 0
                   PROVE  \E j \in DOMAIN runs' : ReleasedBy(j, s, r)' /\ runs'[j].to = cursor'[s][r]
        BY DEF CursorReached
      <3>1. PICK j \in DOMAIN runs : ReleasedBy(j, s, r) /\ runs[j].to = cursor[s][r]
        BY <1>1 DEF SameReleased, CursorReached
      <3> QED
        BY <1>1, <3>1 DEF SameReleased, ReleasedBy
    <2>2. CursorFurthest'
      BY <1>1 DEF SameReleased, CursorFurthest
    <2> QED
      BY <2>1, <2>2
  <1> QED
    BY <1>1, ReleaseStep, ReleaseKeeps

(* A role cursor is at the end of the furthest window of a released run:   *)
(* neither does a lost lease move it, nor does a commit move it back       *)
(* (_set_role_cursor, _discard_stale_dispatch_result_locked).              *)
THEOREM CursorsFollowReleases == Spec => []CursorFromReleasedRuns
  <1>1. Init => Typed /\ CursorReached /\ CursorFurthest
    <2> SUFFICES ASSUME Init PROVE Typed /\ CursorReached /\ CursorFurthest
      OBVIOUS
    <2>1. DOMAIN runs = {} /\ \A s \in Sessions, r \in Roles : cursor[s][r] = 0
      BY DEF Init
    <2> QED
      BY <2>1, TypedInit DEF CursorReached, CursorFurthest
  <1>2. (Typed /\ CursorReached /\ CursorFurthest) /\ [Next]_vars
          => (Typed /\ CursorReached /\ CursorFurthest)'
    BY TypedStep, CursorPartsStep
  <1>3. CursorReached /\ CursorFurthest => CursorFromReleasedRuns
    BY DEF CursorReached, CursorFurthest, ReleasedBy, CursorFromReleasedRuns
  <1> QED
    BY <1>1, <1>2, <1>3, PTL DEF Spec

-----------------------------------------------------------------------------
(***************************************************************************)
(* The SessionLog is authoritative: what the transactions of Dispatch      *)
(* leave as completion state and active flag is what a replay of the log   *)
(* gives.  Every entry is appended, so it is enough to know what one more  *)
(* entry does to the replay.                                               *)
(***************************************************************************)

Switch(e) == e.kind \in {"Activated", "Deactivated"}
Finishes(e) == e.kind = "DeclaredComplete"
(* Entries that the replay passes over. *)
Neutral(e) == ~Reopens(e) /\ ~Finishes(e) /\ ~Switch(e)

Completed(l) == \E n \in DOMAIN l : Completes(l, n)
Reopened(l) == \E n \in DOMAIN l : Reopens(l[n])
(* A completion state, and an active flag, that a replay of l leaves.      *)
StateAgrees(l, st) ==
  \/ st = "none"
  \/ Completed(l) /\ st = "complete"
  \/ ~Completed(l) /\ (Reopened(l) => st = "incomplete")
FlagAgrees(l, a) ==
  \/ \A n \in DOMAIN l : ~Switch(l[n])
  \/ \E n \in DOMAIN l : /\ Switch(l[n]) /\ (a <=> l[n].kind = "Activated")
                         /\ \A m \in DOMAIN l : Switch(l[m]) => m <= n

SessionAgrees(s) == StateAgrees(log[s], goal[s].state) /\ FlagAgrees(log[s], active[s])
ReplayInv == \A s \in Sessions : SessionAgrees(s)

-----------------------------------------------------------------------------
(* An entry is appended behind the others. *)
LEMMA OneMore ==
  ASSUME NEW l \in Seq(Entry), NEW e \in Entry
  PROVE  /\ Append(l, e) \in Seq(Entry)
         /\ Len(l) \in Nat /\ DOMAIN l = 1..Len(l)
         /\ DOMAIN Append(l, e) = 1..(Len(l) + 1) /\ Len(Append(l, e)) = Len(l) + 1
         /\ Append(l, e)[Len(l) + 1] = e
         /\ \A n \in 1..Len(l) : Append(l, e)[n] = l[n]
  OBVIOUS

(* What one more entry does to the state a replay ends in. *)
LEMMA OneMoreState ==
  ASSUME NEW l \in Seq(Entry), NEW e \in Entry
  PROVE  /\ \A st : StateAgrees(l, st) /\ ~Reopens(e) /\ ~Finishes(e) => StateAgrees(Append(l, e), st)
         /\ Reopens(e) => StateAgrees(Append(l, e), "incomplete")
         /\ Finishes(e) => StateAgrees(Append(l, e), "complete")
  <1> DEFINE k == Append(l, e)
             n == Len(l)
  <1>1. /\ n \in Nat /\ DOMAIN l = 1..n /\ DOMAIN k = 1..(n + 1) /\ Len(k) = n + 1
        /\ k[n + 1] = e /\ \A m \in 1..n : k[m] = l[m]
    BY OneMore
  <1>2. Len(l) = n
    OBVIOUS
  <1> HIDE DEF k, n
  <1>3. Reopened(k) <=> Reopened(l) \/ Reopens(e)
    <2>1. \A m \in 1..(n + 1) : m \in 1..n \/ m = n + 1
      BY <1>1
    <2>2. n + 1 \in 1..(n + 1) /\ \A m \in 1..n : m \in 1..(n + 1)
      BY <1>1
    <2> QED
      BY <1>1, <2>1, <2>2 DEF Reopened
  <1>4. ASSUME NEW m \in 1..n
        PROVE  Completes(k, m) <=> Completes(l, m) /\ ~Reopens(e)
    <2>1. k[m] = l[m]
      BY <1>1
    <2>2. (\A o \in (m + 1)..(n + 1) : ~Reopens(k[o]))
            <=> (\A o \in (m + 1)..n : ~Reopens(l[o])) /\ ~Reopens(e)
      <3>1. \A o \in (m + 1)..(n + 1) : o = n + 1 \/ (o \in (m + 1)..n /\ o \in 1..n)
        BY <1>1
      <3>2. /\ n + 1 \in (m + 1)..(n + 1)
            /\ \A o \in (m + 1)..n : o \in (m + 1)..(n + 1) /\ o \in 1..n
        BY <1>1
      <3> QED
        BY <1>1, <3>1, <3>2
    <2> QED
      BY <1>1, <1>2, <2>1, <2>2 DEF Completes
  <1>5. Completes(k, n + 1) <=> Finishes(e)
    BY <1>1 DEF Completes, Finishes
  <1>6. Completed(k) <=> Finishes(e) \/ (Completed(l) /\ ~Reopens(e))
    <2>1. \A m \in 1..(n + 1) : m \in 1..n \/ m = n + 1
      BY <1>1
    <2>2. n + 1 \in 1..(n + 1) /\ \A m \in 1..n : m \in 1..(n + 1)
      BY <1>1
    <2> QED
      BY <1>1, <1>4, <1>5, <2>1, <2>2 DEF Completed
  <1>7. ~(Reopens(e) /\ Finishes(e))
    BY DEF Reopens, Finishes
  <1> QED
    BY <1>3, <1>6, <1>7 DEF StateAgrees, k

(* What one more entry does to the flag a replay ends in. *)
LEMMA OneMoreFlag ==
  ASSUME NEW l \in Seq(Entry), NEW e \in Entry
  PROVE  /\ \A a : FlagAgrees(l, a) /\ ~Switch(e) => FlagAgrees(Append(l, e), a)
         /\ \A a : Switch(e) /\ (a <=> e.kind = "Activated") => FlagAgrees(Append(l, e), a)
  <1> DEFINE k == Append(l, e)
             n == Len(l)
  <1>1. /\ n \in Nat /\ DOMAIN l = 1..n /\ DOMAIN k = 1..(n + 1)
        /\ k[n + 1] = e /\ \A m \in 1..n : k[m] = l[m]
    BY OneMore
  <1> HIDE DEF k, n
  <1>2. /\ \A m \in 1..(n + 1) : (m \in 1..n \/ m = n + 1) /\ m <= n + 1
        /\ n + 1 \in 1..(n + 1) /\ \A m \in 1..n : m \in 1..(n + 1)
    BY <1>1
  <1>3. ASSUME NEW a, FlagAgrees(l, a), ~Switch(e) PROVE FlagAgrees(k, a)
    <2>1. CASE \A m \in DOMAIN l : ~Switch(l[m])
      BY <1>1, <1>2, <1>3, <2>1 DEF FlagAgrees
    <2>2. ASSUME NEW o \in DOMAIN l, Switch(l[o]), a <=> l[o].kind = "Activated",
                 \A m \in DOMAIN l : Switch(l[m]) => m <= o
          PROVE  FlagAgrees(k, a)
      <3>1. o \in DOMAIN k /\ k[o] = l[o]
        BY <1>1, <1>2
      <3>2. \A m \in DOMAIN k : Switch(k[m]) => m <= o
        BY <1>1, <1>2, <1>3, <2>2
      <3> QED
        BY <2>2, <3>1, <3>2 DEF FlagAgrees
    <2> QED
      BY <1>3, <2>1, <2>2 DEF FlagAgrees
  <1>4. ASSUME NEW a, Switch(e), a <=> e.kind = "Activated" PROVE FlagAgrees(k, a)
    BY <1>1, <1>2, <1>4 DEF FlagAgrees
  <1> QED
    BY <1>3, <1>4 DEF k

(* Both at once, for entries that are not switches. *)
Agrees(l, st, a) == l \in Seq(Entry) /\ StateAgrees(l, st) /\ FlagAgrees(l, a)
LEMMA OneMoreEntry ==
  ASSUME NEW l, NEW st, NEW a, Agrees(l, st, a), NEW e \in Entry
  PROVE  /\ Neutral(e) => Agrees(Append(l, e), st, a)
         /\ Reopens(e) => Agrees(Append(l, e), "incomplete", a)
         /\ Finishes(e) => Agrees(Append(l, e), "complete", a)
  <1>1. l \in Seq(Entry) /\ Append(l, e) \in Seq(Entry)
    BY OneMore DEF Agrees
  <1>2. ~(Reopens(e) /\ Switch(e)) /\ ~(Finishes(e) /\ Switch(e))
    BY DEF Reopens, Finishes, Switch
  <1> QED
    BY <1>1, <1>2, OneMoreState, OneMoreFlag DEF Agrees, Neutral

(* Appending the entries of a tuple is appending them one by one. *)
LEMMA Joined ==
  ASSUME NEW l \in Seq(Entry), NEW e \in Entry, NEW f \in Entry
  PROVE  l \o <<>> = l /\ l \o <<e>> = Append(l, e) /\ l \o <<e, f>> = Append(Append(l, e), f)
  <1>1. l \o <<>> = l /\ l \o <<e>> = Append(l, e)
    BY AppendIsConcat, ConcatEmptySeq
  <1>2. Append(l, e) \in Seq(Entry) /\ <<e>> \in Seq(Entry) /\ <<f>> \in Seq(Entry)
    BY OneMore
  <1>3. <<e, f>> = <<e>> \o <<f>>
    <2>1. <<e>> \o <<f>> = Append(<<e>>, f)
      BY <1>2, AppendIsConcat
    <2>2. Append(<<e>>, f) = <<e, f>>
      <3>1. /\ Append(<<e>>, f) \in Seq(Entry) /\ <<e, f>> \in Seq(Entry)
            /\ Len(Append(<<e>>, f)) = 2 /\ Len(<<e, f>>) = 2
        OBVIOUS
      <3>2. \A n \in 1..2 : Append(<<e>>, f)[n] = <<e, f>>[n]
        OBVIOUS
      <3> QED
        BY <3>1, <3>2, SeqEqual
    <2> QED
      BY <2>1, <2>2
  <1>4. l \o (<<e>> \o <<f>>) = (l \o <<e>>) \o <<f>>
    BY <1>2, ConcatAssociative
  <1>5. Append(l, e) \o <<f>> = Append(Append(l, e), f)
    BY <1>2, AppendIsConcat
  <1> QED
    BY <1>1, <1>3, <1>4, <1>5

(* The kinds of the entries. *)
LEMMA Kinds ==
  /\ \A k \in EntryKinds, i \in Nat : Record(k, i).kind = k /\ Record(k, i) \in Entry
  /\ \A k \in EntryKinds : Signal(k).kind = k /\ Signal(k) \in Entry
  /\ \A k \in EntryKinds, i \in Nat, tag \in {"none", "event"} \cup Sessions :
       [Record(k, i) EXCEPT !.tag = tag].kind = k /\ [Record(k, i) EXCEPT !.tag = tag] \in Entry
  BY Records DEF Record, Signal

-----------------------------------------------------------------------------
(* The invariant says what the property says. *)
LEMMA ReplayGives ==
  ASSUME Typed, ReplayInv
  PROVE  LogAuthoritative
  <1> SUFFICES ASSUME NEW s \in Sessions
               PROVE  goal[s].state = ReplayedState(s) /\ active[s] = ReplayedActive(s)
    BY DEF LogAuthoritative
  <1>1. StateAgrees(log[s], goal[s].state) /\ FlagAgrees(log[s], active[s])
    BY DEF ReplayInv, SessionAgrees
  <1>2. goal[s].state = ReplayedState(s)
    BY <1>1 DEF StateAgrees, Completed, Reopened, ReplayedState
  <1>3. log[s] \in Seq(Entry) /\ active[s] \in BOOLEAN
    BY DEF Typed
  <1>4. \A n \in DOMAIN log[s] : n \in Nat
    BY <1>3
  <1>5. active[s] = ReplayedActive(s)
    <2>1. CASE \A n \in DOMAIN log[s] : ~Switch(log[s][n])
      BY <2>1 DEF ReplayedActive, Switches, Switch
    <2>2. ASSUME NEW n \in DOMAIN log[s], Switch(log[s][n]),
                 active[s] <=> log[s][n].kind = "Activated",
                 \A m \in DOMAIN log[s] : Switch(log[s][m]) => m <= n
          PROVE  active[s] = ReplayedActive(s)
      <3>1. n \in Switches(s) /\ \A m \in Switches(s) : m <= n /\ m \in Nat /\ n \in Nat
        BY <1>4, <2>2 DEF Switches, Switch
      <3>2. \A m \in Switches(s) : (\A o \in Switches(s) : o <= m) => m = n
        BY <3>1
      <3>3. ReplayedActive(s) <=> log[s][n].kind = "Activated"
        BY <3>1, <3>2 DEF ReplayedActive
      <3>4. ReplayedActive(s) \in BOOLEAN
        BY <1>3 DEF ReplayedActive
      <3> QED
        BY <1>3, <2>2, <3>3, <3>4
    <2> QED
      BY <1>1, <2>1, <2>2 DEF FlagAgrees
  <1> QED
    BY <1>2, <1>5

(* The log, state and flag of a Session agree. *)
LEMMA Now ==
  ASSUME Typed, ReplayInv, NEW s \in Sessions
  PROVE  Agrees(log[s], goal[s].state, active[s])
  BY DEF Typed, ReplayInv, SessionAgrees, Agrees

(* A step that touches one Session. *)
LEMMA OneSession ==
  ASSUME Typed, ReplayInv, NEW s \in Sessions,
         Agrees(log'[s], goal'[s].state, active'[s]),
         \A t \in Sessions \ {s} :
           log'[t] = log[t] /\ goal'[t].state = goal[t].state /\ active'[t] = active[t]
  PROVE  ReplayInv'
  BY DEF ReplayInv, SessionAgrees, Agrees

(* A step that adds at most one neutral entry to each log. *)
LEMMA NeutralStep ==
  ASSUME Typed, ReplayInv, UNCHANGED active,
         \A s \in Sessions :
           /\ goal'[s].state = goal[s].state
           /\ log'[s] = log[s] \/ \E e \in Entry : Neutral(e) /\ log'[s] = Append(log[s], e)
  PROVE  ReplayInv'
  <1> SUFFICES ASSUME NEW s \in Sessions PROVE Agrees(log'[s], goal[s].state, active[s])
    BY DEF ReplayInv, SessionAgrees, Agrees
  <1> QED
    BY Now, OneMoreEntry

(* Signals, messages of agents and other entries the replay passes over. *)
LEMMA NeutralEntries ==
  /\ \A k \in Signals : Neutral(Signal(k))
  /\ \A k \in AgentMessages \cup {"DeclaredWaiting", "BodyUpdated", "ChildGoalCompleted"}, i \in Nat,
        tag \in {"none", "event"} \cup Sessions :
       Neutral(Record(k, i)) /\ Neutral([Record(k, i) EXCEPT !.tag = tag])
  BY DEF Neutral, Reopens, Finishes, Switch, Record, Signal, Signals, AgentMessages

(* A Session created without or with a goal. *)
LEMMA ReplayInit ==
  ASSUME Init PROVE ReplayInv
  <1> SUFFICES ASSUME NEW s \in Sessions PROVE SessionAgrees(s)
    BY DEF ReplayInv
  <1>1. goal[s].state \in {"none", "incomplete"}
    BY DEF Init
  <1>2. CASE goal[s].state = "none"
    <2>1. log[s] = <<>>
      BY <1>2 DEF Init
    <2> QED
      BY <1>2, <2>1 DEF SessionAgrees, StateAgrees, FlagAgrees
  <1>3. CASE goal[s].state = "incomplete"
    <2>1. log[s] = <<Signal("BecameIncomplete")>>
      BY <1>3 DEF Init
    <2>2. DOMAIN log[s] = {1} /\ log[s][1].kind = "BecameIncomplete"
      BY <2>1 DEF Signal, Record
    <2> QED
      BY <1>3, <2>2 DEF SessionAgrees, StateAgrees, FlagAgrees, Completed, Completes, Switch
  <1> QED
    BY <1>1, <1>2, <1>3

-----------------------------------------------------------------------------
(* User input reopens a goal, whatever comes between its entries. *)
LEMMA InputReopens ==
  ASSUME NEW s \in Sessions, NEW w \in Nat, NEW l, NEW st, NEW a, Agrees(l, st, a)
  PROVE  Agrees(l \o InputEntries(s, w), "incomplete", a)
  <1> DEFINE c == IF goal[s].wait = NoWait THEN <<>> ELSE <<Signal("SignalGM")>>
  <1>1. /\ Signal("SignalGM") \in Entry /\ Neutral(Signal("SignalGM"))
        /\ c = <<>> \/ c = <<Signal("SignalGM")>>
    BY Kinds, NeutralEntries DEF EntryKinds, Signals
  <1>2. c \in Seq(Entry)
    BY <1>1
  <1>3. /\ InputEntries(s, NoRun) = (<<Signal("UserInput")>> \o c) \o <<Signal("BecameIncomplete")>>
        /\ w # NoRun =>
             InputEntries(s, w) = (<<Signal("DeferredInput")>> \o c)
                                    \o <<Signal("BecameIncompleteDeferred"), Record("Followup", w)>>
    BY DEF InputEntries
  <1> HIDE DEF c
  <1>4. /\ \A k \in {"UserInput", "DeferredInput", "BecameIncomplete", "BecameIncompleteDeferred"} :
             Signal(k) \in Entry /\ Reopens(Signal(k))
        /\ Record("Followup", w) \in Entry /\ Reopens(Record("Followup", w))
    BY Kinds DEF EntryKinds, Messages, StateChanges, Reopens
  <1>5. ASSUME NEW u \in Entry, Reopens(u)
        PROVE  Agrees((l \o <<u>>) \o c, "incomplete", a)
    <2>1. l \in Seq(Entry) /\ l \o <<u>> = Append(l, u)
      BY Joined DEF Agrees
    <2>2. Agrees(l \o <<u>>, "incomplete", a)
      BY <1>5, <2>1, OneMoreEntry
    <2>3. l \o <<u>> \in Seq(Entry)
      BY <2>2 DEF Agrees
    <2>4. /\ (l \o <<u>>) \o <<>> = l \o <<u>>
          /\ (l \o <<u>>) \o <<Signal("SignalGM")>> = Append(l \o <<u>>, Signal("SignalGM"))
      BY <1>1, <2>3, Joined
    <2> QED
      BY <1>1, <2>2, <2>4, OneMoreEntry
  <1>6. ASSUME NEW u \in Entry, NEW m \in Seq(Entry)
        PROVE  l \o ((<<u>> \o c) \o m) = ((l \o <<u>>) \o c) \o m
    <2>1. l \in Seq(Entry) /\ <<u>> \in Seq(Entry) /\ <<u>> \o c \in Seq(Entry)
      BY <1>2, ConcatProperties DEF Agrees
    <2>2. l \o ((<<u>> \o c) \o m) = (l \o (<<u>> \o c)) \o m
      BY <1>6, <2>1, ConcatAssociative
    <2>3. l \o (<<u>> \o c) = (l \o <<u>>) \o c
      BY <1>2, <2>1, ConcatAssociative
    <2> QED
      BY <2>2, <2>3
  <1>7. CASE w = NoRun
    <2> DEFINE u == Signal("UserInput")
               b == Signal("BecameIncomplete")
               p == (l \o <<u>>) \o c
    <2>1. u \in Entry /\ b \in Entry /\ Reopens(b) /\ Agrees(p, "incomplete", a)
      BY <1>4, <1>5
    <2>2. l \o InputEntries(s, w) = p \o <<b>>
      <3>1. <<b>> \in Seq(Entry)
        BY <2>1
      <3> QED
        BY <1>3, <1>6, <1>7, <2>1, <3>1
    <2> HIDE DEF u, b, p
    <2>3. p \o <<b>> = Append(p, b)
      BY <2>1, Joined DEF Agrees
    <2> QED
      BY <2>1, <2>2, <2>3, OneMoreEntry
  <1>8. CASE w # NoRun
    <2> DEFINE u == Signal("DeferredInput")
               b == Signal("BecameIncompleteDeferred")
               f == Record("Followup", w)
               p == (l \o <<u>>) \o c
    <2>1. u \in Entry /\ b \in Entry /\ f \in Entry /\ Reopens(b) /\ Reopens(f)
      BY <1>4
    <2>2. Agrees(p, "incomplete", a)
      BY <1>4, <1>5
    <2>3. l \o InputEntries(s, w) = p \o <<b, f>>
      <3>1. <<b, f>> \in Seq(Entry)
        BY <2>1
      <3> QED
        BY <1>3, <1>6, <1>8, <2>1, <3>1
    <2> HIDE DEF u, b, f, p
    <2>4. p \o <<b, f>> = Append(Append(p, b), f)
      BY <2>1, <2>2, Joined DEF Agrees
    <2>5. Agrees(Append(p, b), "incomplete", a)
      BY <2>1, <2>2, OneMoreEntry
    <2>6. Agrees(Append(Append(p, b), f), "incomplete", a)
      BY <2>1, <2>5, OneMoreEntry
    <2> QED
      BY <2>3, <2>4, <2>6
  <1> QED
    BY <1>7, <1>8

(* So does a new or revised goal. *)
LEMMA RevisionReopens ==
  ASSUME NEW s \in Sessions, NEW l, NEW st, NEW a, Agrees(l, st, a)
  PROVE  Agrees(l \o RevisionEntries(s), "incomplete", a)
  <1> DEFINE c == IF goal[s].state = "none" THEN <<>> ELSE <<Signal("BodyUpdated")>>
             b == Signal("BecameIncomplete")
  <1>1. /\ Signal("BodyUpdated") \in Entry /\ Neutral(Signal("BodyUpdated"))
        /\ b \in Entry /\ Reopens(b)
        /\ c = <<>> \/ c = <<Signal("BodyUpdated")>>
    BY Kinds, NeutralEntries DEF EntryKinds, StateChanges, Reopens, Signal, NoRun
  <1>2. c \in Seq(Entry) /\ <<b>> \in Seq(Entry) /\ l \in Seq(Entry)
    BY <1>1 DEF Agrees
  <1>3. RevisionEntries(s) = c \o <<b>>
    BY DEF RevisionEntries
  <1> HIDE DEF c, b
  <1>4. l \o RevisionEntries(s) = (l \o c) \o <<b>>
    BY <1>2, <1>3, ConcatAssociative
  <1>5. l \o <<>> = l /\ l \o <<Signal("BodyUpdated")>> = Append(l, Signal("BodyUpdated"))
    BY <1>1, <1>2, Joined
  <1>6. Agrees(l \o c, st, a)
    BY <1>1, <1>5, OneMoreEntry
  <1>7. (l \o c) \o <<b>> = Append(l \o c, b)
    BY <1>1, <1>6, Joined DEF Agrees
  <1> QED
    BY <1>1, <1>4, <1>6, <1>7, OneMoreEntry

(* Users and administrators keep the log authoritative. *)
LEMMA UserReplay ==
  ASSUME Typed, ReplayInv, UserStep PROVE ReplayInv'
  <1>0. /\ goal \in [Sessions -> Goal] /\ log \in [Sessions -> Seq(Entry)]
        /\ active \in [Sessions -> BOOLEAN]
    BY DEF Typed
  <1>1. ASSUME NEW s \in Sessions, UserInput(s) PROVE ReplayInv'
    <2>1. PICK w \in Nat : log' = [log EXCEPT ![s] = @ \o InputEntries(s, w)]
      <3>1. \A w \in WorkerRuns(s) : w \in Nat
        BY DEF WorkerRuns, Typed
      <3> QED
        BY <1>1, <3>1 DEF UserInput, NoRun
    <2>2. /\ log'[s] = log[s] \o InputEntries(s, w) /\ goal'[s].state = "incomplete"
          /\ \A t \in Sessions \ {s} : log'[t] = log[t] /\ goal'[t] = goal[t]
          /\ UNCHANGED active
      BY <1>0, <1>1, <2>1 DEF UserInput
    <2>3. Agrees(log[s] \o InputEntries(s, w), "incomplete", active[s])
      BY Now, InputReopens
    <2>4. Agrees(log'[s], goal'[s].state, active'[s])
      BY <2>2, <2>3
    <2> QED
      BY <2>2, <2>4, OneSession
  <1>2. ASSUME NEW s \in Sessions, NEW b \in Bodies, UpdateGoal(s, b) PROVE ReplayInv'
    <2>1. log'[s] = log[s] \o RevisionEntries(s) /\ UNCHANGED active
      BY <1>0, <1>2 DEF UpdateGoal
    <2>2. goal'[s].state = "incomplete"
      BY <1>0, <1>2 DEF UpdateGoal, Goal
    <2>3. \A t \in Sessions \ {s} : log'[t] = log[t] /\ goal'[t] = goal[t]
      BY <1>0, <1>2 DEF UpdateGoal
    <2>4. Agrees(log[s] \o RevisionEntries(s), "incomplete", active[s])
      BY Now, RevisionReopens
    <2>5. Agrees(log'[s], goal'[s].state, active'[s])
      BY <2>1, <2>2, <2>4
    <2> QED
      BY <2>1, <2>3, <2>5, OneSession
  <1>3. ASSUME NEW s \in Sessions, NEW a \in BOOLEAN, SetSessionActive(s, a) PROVE ReplayInv'
    <2> DEFINE e == Signal(IF a THEN "Activated" ELSE "Deactivated")
    <2>1. log'[s] = Append(log[s], e) /\ active'[s] = a /\ UNCHANGED goal
      BY <1>0, <1>3 DEF SetSessionActive
    <2>2. \A t \in Sessions \ {s} : log'[t] = log[t] /\ active'[t] = active[t]
      BY <1>0, <1>3 DEF SetSessionActive
    <2>3. e \in Entry /\ Switch(e) /\ (a <=> e.kind = "Activated")
      BY Kinds DEF EntryKinds, Switch
    <2>4. ~Reopens(e) /\ ~Finishes(e)
      BY <2>3 DEF Switch, Reopens, Finishes
    <2> HIDE DEF e
    <2>5. Agrees(log'[s], goal'[s].state, active'[s])
      <3>1. StateAgrees(log[s], goal[s].state) /\ log[s] \in Seq(Entry)
        BY Now DEF Agrees
      <3>2. StateAgrees(Append(log[s], e), goal[s].state)
        BY <2>3, <2>4, <3>1, OneMoreState
      <3>3. FlagAgrees(Append(log[s], e), a)
        BY <2>3, <3>1, OneMoreFlag
      <3> QED
        BY <2>1, <2>3, <3>1, <3>2, <3>3, OneMore DEF Agrees
    <2> QED
      BY <2>1, <2>2, <2>5, OneSession
  <1>4. ASSUME NEW s \in Pausable, SetUnitActive(s) PROVE ReplayInv'
    BY <1>4, NeutralStep DEF SetUnitActive
  <1> QED
    BY <1>1, <1>2, <1>3, <1>4 DEF UserStep

(* Agents write messages the replay passes over. *)
LEMMA AgentReplay ==
  ASSUME Typed, ReplayInv, NEW i \in DOMAIN runs, AgentStep(i) PROVE ReplayInv'
  <1>1. ASSUME NEW kind \in MessageKinds, NEW tag \in {"none", "event"}, AgentMessage(i, kind, tag)
        PROVE  ReplayInv'
    <2> DEFINE e == [Record(kind, i) EXCEPT !.tag = tag]
    <2>1. e \in Entry /\ Neutral(e)
      BY RunTyped, Kinds, NeutralEntries, DataAssumption DEF EntryKinds, Messages, AgentMessages
    <2>2. log' = [log EXCEPT ![runs[i].session] = Append(@, e)] /\ UNCHANGED <<goal, active>>
      BY <1>1 DEF AgentMessage
    <2> HIDE DEF e
    <2>3. \A s \in Sessions : log'[s] = log[s] \/ log'[s] = Append(log[s], e)
      BY <2>2 DEF Typed
    <2> QED
      BY <2>1, <2>2, <2>3, NeutralStep
  <1>2. CASE UNCHANGED <<goal, active, log>>
    BY <1>2, NeutralStep
  <1> QED
    BY <1>1, <1>2 DEF AgentStep, DeclareOutcome, DeclareWaiting

-----------------------------------------------------------------------------
(* A run that returns without touching a completion state. *)
LEMMA QuietReturn ==
  ASSUME Typed, ReplayInv, NEW s \in Sessions, NEW e \in Entry, Neutral(e),
         LogExtended(s, <<e>>), UNCHANGED active,
         \A t \in Sessions : goal'[t].state = goal[t].state
  PROVE  ReplayInv'
  <1>1. log \in [Sessions -> Seq(Entry)] /\ log[s] \in Seq(Entry)
    BY DEF Typed
  <1>2. log[s] \o <<e>> = Append(log[s], e)
    BY <1>1, Joined
  <1>3. \A t \in Sessions : log'[t] = log[t] \/ log'[t] = Append(log[t], e)
    BY <1>1, <1>2 DEF LogExtended
  <1> QED
    BY <1>3, NeutralStep

(* Concatenation of SessionLogs is associative. *)
LEMMA Regroup ==
  ASSUME NEW a \in Seq(Entry), NEW b \in Seq(Entry), NEW c \in Seq(Entry)
  PROVE  (a \o b) \o c = a \o (b \o c)
  BY ConcatAssociative

(* A run that leaves its goal incomplete, and its log ending so. *)
LEMMA ReopeningReturn ==
  ASSUME Typed, ReplayInv, NEW s \in Sessions, NEW e \in Entry, Reopens(e), NEW m,
         m = <<>> \/ \E f \in Entry : Neutral(f) /\ m = <<f>>,
         LogExtended(s, <<e>> \o m), UNCHANGED active,
         goal' = [goal EXCEPT ![s].state = "incomplete"]
  PROVE  ReplayInv'
  <1>0. log \in [Sessions -> Seq(Entry)] /\ goal \in [Sessions -> Goal]
    BY DEF Typed
  <1>1. /\ log'[s] = log[s] \o (<<e>> \o m)
        /\ \A t \in Sessions \ {s} : log'[t] = log[t] /\ goal'[t] = goal[t]
    BY <1>0 DEF LogExtended
  <1>2. goal'[s].state = "incomplete"
    BY <1>0 DEF Goal
  <1>3. log[s] \in Seq(Entry) /\ <<e>> \in Seq(Entry) /\ m \in Seq(Entry)
    <2>1. \A f \in Entry : <<f>> \in Seq(Entry)
      OBVIOUS
    <2>2. <<>> \in Seq(Entry)
      OBVIOUS
    <2>3. m \in Seq(Entry)
      BY <2>1, <2>2
    <2> QED
      BY <1>0, <2>1, <2>3
  <1>4. log'[s] = (log[s] \o <<e>>) \o m
    BY <1>1, <1>3, Regroup
  <1>5. log[s] \o <<e>> = Append(log[s], e)
    BY <1>3, Joined
  <1>6. Agrees(Append(log[s], e), "incomplete", active[s])
    BY Now, OneMoreEntry
  <1>7. Append(log[s], e) \in Seq(Entry)
    BY <1>6 DEF Agrees
  <1>8. CASE m = <<>>
    <2>1. log'[s] = Append(log[s], e)
      BY <1>4, <1>5, <1>7, <1>8, Joined
    <2>2. Agrees(log'[s], goal'[s].state, active'[s])
      BY <1>2, <1>6, <2>1
    <2> QED
      BY <1>1, <2>2, OneSession
  <1>9. ASSUME NEW f \in Entry, Neutral(f), m = <<f>> PROVE ReplayInv'
    <2>1. log'[s] = Append(Append(log[s], e), f)
      BY <1>4, <1>5, <1>7, <1>9, Joined
    <2>2. Agrees(Append(Append(log[s], e), f), "incomplete", active[s])
      BY <1>6, <1>9, OneMoreEntry
    <2>3. Agrees(log'[s], goal'[s].state, active'[s])
      BY <1>2, <2>1, <2>2
    <2> QED
      BY <1>1, <2>3, OneSession
  <1> QED
    BY <1>8, <1>9

(* Completion: the Session's log declares it, and a parent's log records   *)
(* it and, when the parent had been complete, that it is open again.       *)
LEMMA CompletionReplay ==
  ASSUME Typed, ReplayInv, NEW i \in DOMAIN runs, CommitComplete(i) PROVE ReplayInv'
  <1> DEFINE s == runs[i].session
             d == Record("DeclaredComplete", i)
             n == [Record("ChildGoalCompleted", i) EXCEPT !.tag = s]
             b == Signal("BecameIncomplete")
  <1>0. s \in Sessions /\ i \in Nat
    BY RunTyped
  <1>1. /\ d \in Entry /\ Finishes(d) /\ n \in Entry /\ Neutral(n)
        /\ b \in Entry /\ Reopens(b)
    BY <1>0, Kinds, NeutralEntries DEF EntryKinds, StateChanges, Declared, Finishes, Reopens
  <1>2. /\ \A t \in Sessions :
             log'[t] = ((log[t] \o (IF t = s THEN <<d>> ELSE <<>>))
                          \o (IF t \in Notified(s) THEN <<n>> ELSE <<>>)) \o Reopening(s, t)
        /\ goal' = [t \in Sessions |->
                      IF t = s THEN [goal[t] EXCEPT !.state = "complete"]
                      ELSE IF t \in ReopenedParents(s) THEN [goal[t] EXCEPT !.state = "incomplete"]
                      ELSE goal[t]]
        /\ UNCHANGED active
    BY DEF CommitComplete
  <1>3. /\ s \notin Notified(s) /\ s \notin ReopenedParents(s)
        /\ \A t : Reopening(s, t) = IF t \in ReopenedParents(s) THEN <<b>> ELSE <<>>
    BY <1>0, SessionsAssumption DEF Notified, ReopenedParents, Reopening
  <1>4. \A t \in Sessions : goal[t] \in Goal /\ log[t] \in Seq(Entry)
    BY DEF Typed
  <1> HIDE DEF s, d, n, b
  <1>5. \A t \in Sessions : \A st : [goal[t] EXCEPT !.state = st].state = st
    BY <1>4 DEF Goal
  <1> SUFFICES ASSUME NEW t \in Sessions PROVE Agrees(log'[t], goal'[t].state, active[t])
    BY <1>2 DEF ReplayInv, SessionAgrees, Agrees
  <1>6. Agrees(log[t], goal[t].state, active[t])
    BY Now
  <1>7. CASE t = s
    <2>1. log'[t] = ((log[t] \o <<d>>) \o <<>>) \o <<>>
      BY <1>2, <1>3, <1>7
    <2>2. log[t] \o <<d>> = Append(log[t], d)
      BY <1>1, <1>4, Joined
    <2>3. Agrees(Append(log[t], d), "complete", active[t])
      BY <1>1, <1>6, OneMoreEntry
    <2>4. log'[t] = Append(log[t], d)
      BY <2>1, <2>2, <2>3, ConcatEmptySeq DEF Agrees
    <2>5. goal'[t].state = "complete"
      BY <1>2, <1>5, <1>7
    <2> QED
      BY <2>3, <2>4, <2>5
  <1>8. CASE t # s
    <2> DEFINE p == log[t] \o (IF t \in Notified(s) THEN <<n>> ELSE <<>>)
    <2>1. log[t] \o <<>> = log[t] /\ log[t] \o <<n>> = Append(log[t], n)
      BY <1>1, <1>4, Joined
    <2>2. log'[t] = p \o Reopening(s, t)
      BY <1>2, <1>8, <2>1
    <2>3. Agrees(p, goal[t].state, active[t])
      BY <1>1, <1>6, <2>1, OneMoreEntry
    <2> HIDE DEF p
    <2>4. p \o <<>> = p /\ p \o <<b>> = Append(p, b)
      BY <1>1, <2>3, Joined DEF Agrees
    <2>5. CASE t \in ReopenedParents(s)
      <3>1. goal'[t].state = "incomplete" /\ log'[t] = Append(p, b)
        BY <1>2, <1>3, <1>5, <1>8, <2>2, <2>4, <2>5
      <3>2. Agrees(Append(p, b), "incomplete", active[t])
        BY <1>1, <2>3, OneMoreEntry
      <3> QED
        BY <3>1, <3>2
    <2>6. CASE t \notin ReopenedParents(s)
      <3>1. goal'[t].state = goal[t].state /\ log'[t] = p
        BY <1>2, <1>3, <1>8, <2>2, <2>4, <2>6
      <3> QED
        BY <2>3, <3>1
    <2> QED
      BY <2>5, <2>6
  <1> QED
    BY <1>7, <1>8

(* However a run returns, the log stays authoritative. *)
LEMMA ReturnReplay ==
  ASSUME Typed, ReplayInv, NEW i \in DOMAIN runs, ReturnStep(i) PROVE ReplayInv'
  <1> DEFINE s == runs[i].session
  <1>0. s \in Sessions /\ i \in Nat /\ goal \in [Sessions -> Goal]
    BY RunTyped DEF Typed
  <1>1. /\ \A k \in Signals : Signal(k) \in Entry /\ Neutral(Signal(k))
        /\ \A k \in {"DeclaredWaiting", "WorkerRequest"} :
             Record(k, i) \in Entry /\ Neutral(Record(k, i))
        /\ \A k \in {"DeclaredIncomplete", "BecameIncomplete"} :
             Record(k, i) \in Entry /\ Reopens(Record(k, i))
    BY <1>0, Kinds, NeutralEntries
    DEF EntryKinds, Messages, AgentMessages, StateChanges, Declared, Reopens
  <1>2. CASE Discard(i)
    BY <1>0, <1>1, <1>2, QuietReturn DEF Discard, StaleSignal, Signals
  <1>3. CASE CommitUndecided(i)
    BY <1>0, <1>1, <1>3, QuietReturn DEF CommitUndecided, Signals
  <1>4. CASE CommitWaiting(i)
    <2>1. \A t \in Sessions : goal'[t].state = goal[t].state
      BY <1>0, <1>4 DEF CommitWaiting, Goal
    <2> QED
      BY <1>0, <1>1, <1>4, <2>1, QuietReturn DEF CommitWaiting
  <1>5. CASE CommitIncomplete(i)
    <2> DEFINE m == IF WorkRequested(i) THEN <<>> ELSE <<Record("WorkerRequest", i)>>
    <2>1. /\ LogExtended(s, <<Record("DeclaredIncomplete", i)>> \o m) /\ UNCHANGED active
          /\ goal' = [goal EXCEPT ![s].state = "incomplete"]
      BY <1>5 DEF CommitIncomplete
    <2>2. m = <<>> \/ \E f \in Entry : Neutral(f) /\ m = <<f>>
      BY <1>1
    <2> HIDE DEF m
    <2> QED
      BY <1>0, <1>1, <2>1, <2>2, ReopeningReturn
  <1>6. CASE CommitWorker(i)
    <2>1. CASE UNCHANGED log
      BY <1>6, <2>1, NeutralStep DEF CommitWorker
    <2>2. CASE LogExtended(s, <<Signal("SignalGMDelayed")>>)
      BY <1>0, <1>1, <1>6, <2>2, QuietReturn DEF CommitWorker, Signals
    <2> QED
      BY <1>6, <2>1, <2>2 DEF CommitWorker
  <1>7. CASE CommitError(i)
    <2> DEFINE e == Record("BecameIncomplete", i)
    <2>1. /\ LogExtended(s, <<e>>) /\ UNCHANGED active
          /\ goal' = [goal EXCEPT ![s].state = "incomplete"]
      BY <1>7 DEF CommitError
    <2>2. e \in Entry /\ Reopens(e)
      BY <1>1
    <2> HIDE DEF e
    <2>3. <<e>> \o <<>> = <<e>>
      <3>1. <<e>> \in Seq(Entry)
        BY <2>2
      <3> QED
        BY <3>1, ConcatEmptySeq
    <2>4. LogExtended(s, <<e>> \o <<>>)
      BY <2>1, <2>3
    <2> QED
      BY <1>0, <2>1, <2>2, <2>4, ReopeningReturn
  <1> QED
    BY <1>2, <1>3, <1>4, <1>5, <1>6, <1>7, CompletionReplay DEF ReturnStep

(* The end of a wait is a signal. *)
LEMMA WokenAgrees ==
  ASSUME NEW s \in Sessions, NEW g, NEW l, NEW st, NEW a, Agrees(l, st, a)
  PROVE  Agrees(WokenLog(s, g, l), st, a)
  <1>1. Signal("SignalGM") \in Entry /\ Neutral(Signal("SignalGM"))
    BY Kinds, NeutralEntries DEF EntryKinds, Signals
  <1> QED
    BY <1>1, OneMoreEntry DEF WokenLog

(* Reconciliation only signals. *)
LEMMA ReconciledAgrees ==
  ASSUME Typed, ReplayInv, NEW s \in Sessions
  PROVE  Agrees(LogR(s), goal[s].state, active[s])
  <1>1. Signal("SignalGM") \in Entry /\ Neutral(Signal("SignalGM"))
    BY Kinds, NeutralEntries DEF EntryKinds, Signals
  <1>2. Agrees(RepairedLog(s), goal[s].state, active[s])
    BY <1>1, Now, OneMoreEntry DEF RepairedLog
  <1>3. Agrees(RefreshedLog(s), goal[s].state, active[s])
    BY <1>2, WokenAgrees DEF RefreshedLog
  <1> QED
    BY <1>1, <1>3, OneMoreEntry DEF LogR

(* Dispatch, clocks, crashes and restarts. *)
LEMMA DispatchReplay ==
  ASSUME Typed, ReplayInv, DispatchStep PROVE ReplayInv'
  <1>1. CASE /\ goal' = [t \in Sessions |-> GoalR(t)] /\ log' = [t \in Sessions |-> LogR(t)]
             /\ UNCHANGED active
    <2>1. \A s \in Sessions : /\ goal'[s].state = goal[s].state /\ log'[s] = LogR(s)
                              /\ active'[s] = active[s]
      BY <1>1, ReconciledSession
    <2> QED
      BY <2>1, ReconciledAgrees DEF ReplayInv, SessionAgrees, Agrees
  <1>2. CASE UNCHANGED vars
    BY <1>2, NeutralStep DEF vars
  <1> QED
    BY <1>1, <1>2 DEF DispatchStep, Acquire, ChoosePaused, NothingToDispatch

(* Clocks, crashes and restarts: replaying the log changes nothing. *)
LEMMA RestartReplay ==
  ASSUME Typed, ReplayInv, ClockStep \/ RestartStep PROVE ReplayInv'
  <1>0. goal \in [Sessions -> Goal]
    BY DEF Typed
  <1>1. CASE ClockStep
    <2>1. /\ \A s \in Sessions : goal'[s].state = goal[s].state
          /\ UNCHANGED <<active, log>>
      BY <1>0, <1>1 DEF ClockStep, LeaseAges, DeadlinePasses, Goal
    <2> QED
      BY <2>1, NeutralStep
  <1>2. ASSUME NEW D \in SUBSET DOMAIN runs, Crash(D) PROVE ReplayInv'
    BY <1>2, NeutralStep DEF Crash
  <1>3. CASE StoreInit
    <2> DEFINE g(s) == [goal[s] EXCEPT !.state = ReplayedState(s)]
    <2>1. /\ goal' = [s \in Sessions |-> WokenGoal(s, g(s), log[s])]
          /\ active' = [s \in Sessions |-> ReplayedActive(s)]
          /\ log' = [s \in Sessions |-> WokenLog(s, g(s), log[s])]
      BY <1>3 DEF StoreInit
    <2>2. \A s \in Sessions : /\ ReplayedState(s) = goal[s].state /\ ReplayedActive(s) = active[s]
      BY ReplayGives DEF LogAuthoritative
    <2>3. \A s \in Sessions : g(s) \in Goal /\ g(s).state = goal[s].state
      BY <1>0, <2>2 DEF Goal
    <2> HIDE DEF g
    <2>4. \A s \in Sessions : WokenGoal(s, g(s), log[s]).state = goal[s].state
      <3> TAKE s \in Sessions
      <3>1. log[s] \in Seq(Entry) /\ g(s) \in Goal /\ g(s).state = goal[s].state
        BY <2>3 DEF Typed
      <3> QED
        BY <3>1, WokenTypes
    <2> SUFFICES ASSUME NEW s \in Sessions PROVE Agrees(log'[s], goal'[s].state, active'[s])
      BY DEF ReplayInv, SessionAgrees, Agrees
    <2>5. Agrees(WokenLog(s, g(s), log[s]), goal[s].state, active[s])
      BY Now, WokenAgrees
    <2> QED
      BY <2>1, <2>2, <2>4, <2>5
  <1>4. CASE RecoverRuns
    <2>1. \A k \in Signals : Signal(k) \in Entry /\ Neutral(Signal(k))
      BY Kinds, NeutralEntries DEF EntryKinds
    <2>2. \A s \in Sessions :
            log'[s] = log[s] \/ \E k \in Signals : log'[s] = Append(log[s], Signal(k))
      BY <1>4 DEF RecoverRuns, Signals
    <2>3. UNCHANGED <<goal, active>>
      BY <1>4 DEF RecoverRuns
    <2> QED
      BY <2>1, <2>2, <2>3, NeutralStep
  <1> QED
    BY <1>1, <1>2, <1>3, <1>4 DEF RestartStep

(* Every step keeps the log authoritative. *)
LEMMA ReplayStep ==
  ASSUME Typed, ReplayInv, [Next]_vars PROVE ReplayInv'
  <1>1. CASE UNCHANGED vars
    BY <1>1, NeutralStep DEF vars
  <1> QED
    BY <1>1, UserReplay, AgentReplay, ReturnReplay, DispatchReplay, RestartReplay DEF Next

(* A restart that replays the SessionLogs finds the completion states and  *)
(* active flags the transactions left                                      *)
(* (_reconcile_state_from_session_logs).                                   *)
THEOREM ReplayReproducesState == Spec => []LogAuthoritative
  <1>1. Init => Typed /\ ReplayInv
    BY TypedInit, ReplayInit
  <1>2. (Typed /\ ReplayInv) /\ [Next]_vars => (Typed /\ ReplayInv)'
    BY TypedStep, ReplayStep
  <1>3. Typed /\ ReplayInv => LogAuthoritative
    BY ReplayGives
  <1> QED
    BY <1>1, <1>2, <1>3, PTL DEF Spec

(* Only the commit of a held lease completes a goal: startup's replay of   *)
(* the log, in particular, completes none.                                 *)
LEMMA OnlyCommitsComplete ==
  ASSUME Typed, LogAuthoritative, [Next]_vars, NEW s \in Sessions,
         goal[s].state # "complete", goal'[s].state = "complete"
  PROVE  \E i \in DOMAIN runs : CommitComplete(i) /\ runs[i].session = s
  <1>0. goal \in [Sessions -> Goal] /\ \A t \in Sessions : goal[t] \in Goal
    BY DEF Typed
  <1>1. CASE UserStep
    <2>1. ASSUME NEW t \in Sessions, UserInput(t) PROVE FALSE
      <3>1. \E b : goal' = [goal EXCEPT ![t] = [state |-> "incomplete", wait |-> NoWait, body |-> b]]
        BY <2>1 DEF UserInput
      <3> QED
        BY <1>0, <3>1
    <2>2. ASSUME NEW t \in Sessions, NEW b \in Bodies, UpdateGoal(t, b) PROVE FALSE
      <3>1. goal' = [goal EXCEPT ![t].body = b, ![t].state = "incomplete"]
        BY <2>2 DEF UpdateGoal
      <3> QED
        BY <1>0, <3>1 DEF Goal
    <2>3. ASSUME NEW t \in Sessions, NEW a \in BOOLEAN, SetSessionActive(t, a) PROVE FALSE
      BY <2>3 DEF SetSessionActive
    <2>4. ASSUME NEW t \in Pausable, SetUnitActive(t) PROVE FALSE
      BY <2>4 DEF SetUnitActive
    <2> QED
      BY <1>1, <2>1, <2>2, <2>3, <2>4 DEF UserStep
  <1>2. CASE \E i \in DOMAIN runs : AgentStep(i)
    BY <1>2 DEF AgentStep, AgentMessage, DeclareOutcome, DeclareWaiting
  <1>3. ASSUME NEW i \in DOMAIN runs, ReturnStep(i), ~CommitComplete(i) PROVE FALSE
    BY <1>0, <1>3, RunTyped DEF ReturnStep, Discard, CommitUndecided, CommitWaiting, CommitIncomplete,
                                CommitWorker, CommitError, Goal
  <1>4. ASSUME NEW i \in DOMAIN runs, CommitComplete(i), runs[i].session # s PROVE FALSE
    BY <1>0, <1>4 DEF CommitComplete, Goal
  <1>5. CASE DispatchStep
    BY <1>5, ReconciledSession DEF DispatchStep, Acquire, ChoosePaused, NothingToDispatch, vars
  <1>6. CASE ClockStep
    BY <1>0, <1>6 DEF ClockStep, LeaseAges, DeadlinePasses, Goal
  <1>7. CASE RestartStep
    <2>1. CASE StoreInit
      <3> DEFINE g == [goal[s] EXCEPT !.state = ReplayedState(s)]
      <3>1. goal'[s] = WokenGoal(s, g, log[s])
        BY <2>1 DEF StoreInit
      <3>2. g \in Goal /\ g.state = goal[s].state
        BY <1>0 DEF LogAuthoritative, Goal
      <3> HIDE DEF g
      <3> QED
        BY <3>1, <3>2, WokenTypes DEF Typed
    <2> QED
      BY <1>7, <2>1 DEF RestartStep, Crash, RecoverRuns
  <1> QED
    BY <1>1, <1>2, <1>3, <1>4, <1>5, <1>6, <1>7 DEF Next, vars

(* A goal becomes complete only by the commit of GoalManager's run that    *)
(* still held its lease and had observed the goal's body                   *)
(* (_commit_goal_manager_run_locked behind _stale_dispatch_fence_locked).  *)
THEOREM LeaseHoldersComplete == Spec => CompletionByLeaseHolder
  <1> DEFINE Held(s, i) == /\ runs[i].session = s /\ runs[i].role = GM
                           /\ runs[i].lease = "acquired" /\ runs'[i].lease = "released"
                           /\ runs[i].body = goal'[s].body
             A == \A s \in Sessions : goal[s].state # "complete" /\ goal'[s].state = "complete" =>
                    \E i \in DOMAIN runs : Held(s, i)
  <1>1. Typed /\ LogAuthoritative /\ [Next]_vars => [A]_vars
    <2> SUFFICES ASSUME Typed, LogAuthoritative, [Next]_vars, NEW s \in Sessions,
                        goal[s].state # "complete", goal'[s].state = "complete"
                 PROVE  \E i \in DOMAIN runs : Held(s, i)
      OBVIOUS
    <2>1. PICK i \in DOMAIN runs : CommitComplete(i) /\ runs[i].session = s
      BY OnlyCommitsComplete
    <2>2. runs[i].role = GM /\ ~Fenced(i) /\ Released(i)
      BY <2>1 DEF CommitComplete, Commit
    <2>3. runs[i].lease = "acquired" /\ goal[s].body = runs[i].body
      BY <2>1, <2>2 DEF Fenced
    <2>4. runs'[i].lease = "released"
      BY <2>2, RunReturns
    <2>5. goal'[s] = [goal[s] EXCEPT !.state = "complete"] /\ goal[s] \in Goal
      BY <2>1 DEF CommitComplete, Typed
    <2>6. goal'[s].body = goal[s].body
      BY <2>5 DEF Goal
    <2> QED
      BY <2>1, <2>2, <2>3, <2>4, <2>6
  <1>2. Spec => []Typed
    <2>1. TypeOK => Typed
      BY DEF TypeOK
    <2> QED
      BY <2>1, TypeCorrect, PTL
  <1>3. Spec => [][A]_vars
    BY <1>1, <1>2, ReplayReproducesState, PTL DEF Spec
  <1> QED
    BY <1>3 DEF CompletionByLeaseHolder
=============================================================================
