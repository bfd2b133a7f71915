------------------------ MODULE DispatchReviewProofs ------------------------
(***************************************************************************)
(* Every requirement is reviewed: a complete goal has no unread one, a     *)
(* waiting goal has no reviewer, deferred input still reaches GoalManager, *)
(* and no open goal is left to nobody.                                     *)
(***************************************************************************)
EXTENDS DispatchProofs

USE DEF GM, Worker, Roles, NoRun

-----------------------------------------------------------------------------
(***************************************************************************)
(* What a step may append to the SessionLog of s.                          *)
(***************************************************************************)
NewEntry(s, e) ==
  /\ e.kind \in Requirements => goal'[s].state # "complete"
  /\ e.kind \in {"UserInput", "DeferredInput"} => e.run = NoRun
  /\ e.kind = "DeferredInput" =>
       goal'[s].state = "incomplete" /\ WorkerRuns(s) # {} /\ UNCHANGED runs
  /\ e.run # NoRun => e.run \in DOMAIN runs
News(s) == {e \in Entry : NewEntry(s, e)}
LogAppended(s) == \E m \in Seq(News(s)) : log'[s] = log[s] \o m

(* Where the entries of a log are after an append. *)
LEMMA Positions ==
  ASSUME NEW E \in SUBSET Entry, NEW l \in Seq(Entry), NEW m \in Seq(E), NEW k, k = l \o m
  PROVE  /\ k \in Seq(Entry) /\ Len(l) \in Nat /\ Len(k) \in Nat /\ Len(l) <= Len(k)
         /\ Len(k) = Len(l) + Len(m)
         /\ \A n \in 1..Len(l) : n \in 1..Len(k) /\ k[n] = l[n]
         /\ \A n \in (Len(l) + 1)..Len(k) : k[n] \in E
  <1>1. m \in Seq(Entry) /\ Len(m) \in Nat /\ \A n \in 1..Len(m) : m[n] \in E
    OBVIOUS
  <1>2. /\ k \in Seq(Entry) /\ Len(k) = Len(l) + Len(m) /\ Len(l) \in Nat
        /\ \A n \in 1..Len(l) : k[n] = l[n]
    BY <1>1
  <1>3. ASSUME NEW n \in (Len(l) + 1)..Len(k) PROVE k[n] \in E
    <2>1. n - Len(l) \in 1..Len(m) /\ k[n] = m[n - Len(l)]
      BY <1>1, <1>2
    <2> QED
      BY <1>1, <2>1
  <1> QED
    BY <1>1, <1>2, <1>3

(* An entry appended behind two parts of a log belongs to the second.      *)
LEMMA AppendBehind ==
  ASSUME NEW l \in Seq(Entry), NEW k \in Seq(Entry), NEW e \in Entry
  PROVE  Append(l \o k, e) = l \o (k \o <<e>>)
  <1>1. l \o k \in Seq(Entry) /\ <<e>> \in Seq(Entry)
    BY ConcatProperties
  <1>2. Append(l \o k, e) = (l \o k) \o <<e>>
    BY <1>1, AppendIsConcat
  <1>3. (l \o k) \o <<e>> = l \o (k \o <<e>>)
    BY <1>1, ConcatAssociative
  <1> QED
    BY <1>2, <1>3

(* Run ids count from 1. *)
LEMMA RunIds ==
  ASSUME Typed
  PROVE  DOMAIN runs = 1..Len(runs) /\ Len(runs) \in Nat /\ NoRun \notin DOMAIN runs
  <1>1. runs \in Seq(Run)
    BY DEF Typed
  <1>2. DOMAIN runs = 1..Len(runs) /\ Len(runs) \in Nat
    BY <1>1
  <1> QED
    BY <1>2

(* Writing nothing, one entry, or one entry behind others.                 *)
LEMMA AppendsNothing ==
  ASSUME Typed, NEW s \in Sessions, log'[s] = log[s] PROVE LogAppended(s)
  <1>1. log[s] \o <<>> = log[s] /\ <<>> \in Seq(News(s))
    BY ConcatEmptySeq DEF Typed
  <1> QED
    BY <1>1 DEF LogAppended

LEMMA AppendsOne ==
  ASSUME Typed, NEW s \in Sessions, NEW e \in News(s), log'[s] = Append(log[s], e)
  PROVE  LogAppended(s)
  <1>1. e \in Entry /\ log[s] \in Seq(Entry)
    BY DEF News, Typed
  <1>2. log[s] \o <<e>> = Append(log[s], e) /\ <<e>> \in Seq(News(s))
    BY <1>1, Joined
  <1> QED
    BY <1>2 DEF LogAppended

LEMMA Tuples ==
  ASSUME NEW E, NEW m \in Seq(E)
  PROVE  /\ <<>> \in Seq(E)
         /\ \A e \in E : <<e>> \in Seq(E) /\ m \o <<e>> \in Seq(E) /\ <<e>> \o m \in Seq(E)
         /\ \A n \in Seq(E) : m \o n \in Seq(E)
         /\ \A e, f \in E : <<e, f>> \in Seq(E)
  OBVIOUS

LEMMA AppendsParts ==
  ASSUME Typed, NEW t \in Sessions,
         NEW a \in Seq(News(t)), NEW b \in Seq(News(t)), NEW c \in Seq(News(t)),
         log'[t] = ((log[t] \o a) \o b) \o c
  PROVE  LogAppended(t)
  <1>1. /\ log[t] \in Seq(Entry) /\ a \in Seq(Entry) /\ b \in Seq(Entry) /\ c \in Seq(Entry)
        /\ a \o b \in Seq(Entry)
    <2>1. log[t] \in Seq(Entry)
      BY DEF Typed
    <2>2. News(t) \subseteq Entry
      BY DEF News
    <2>3. a \in Seq(Entry) /\ b \in Seq(Entry) /\ c \in Seq(Entry)
      BY <2>2
    <2> QED
      BY <2>1, <2>3, Tuples
  <1>2. (log[t] \o a) \o b = log[t] \o (a \o b)
    BY <1>1, Regroup
  <1>3. (log[t] \o (a \o b)) \o c = log[t] \o ((a \o b) \o c)
    <2> DEFINE ab == a \o b
    <2>1. log[t] \in Seq(Entry) /\ ab \in Seq(Entry) /\ c \in Seq(Entry)
      BY <1>1
    <2> HIDE DEF ab
    <2>2. (log[t] \o ab) \o c = log[t] \o (ab \o c)
      BY <2>1, Regroup
    <2> QED
      BY <2>2 DEF ab
  <1>4. (a \o b) \o c \in Seq(News(t))
    BY Tuples
  <1> QED
    BY <1>2, <1>3, <1>4 DEF LogAppended

(* Signals, activation and goal states ask for nothing. *)
LEMMA NeutralNews ==
  ASSUME NEW s \in Sessions
  PROVE  /\ \A k \in Signals \cup StateChanges \cup {"Activated", "Deactivated"} : Signal(k) \in News(s)
         /\ \A k \in StateChanges \cup AgentMessages \cup {"Followup"}, i \in DOMAIN runs,
               tag \in {"none", "event"} :
              i \in Nat => Record(k, i) \in News(s) /\ [Record(k, i) EXCEPT !.tag = tag] \in News(s)
  <1>1. \A k \in Signals \cup StateChanges \cup {"Activated", "Deactivated"} :
          k \in EntryKinds /\ k \notin Requirements /\ k # "DeferredInput"
    BY DEF EntryKinds, Signals, StateChanges, Declared, Requirements
  <1>2. \A k \in StateChanges \cup AgentMessages \cup {"Followup"} :
          k \in EntryKinds /\ k \notin Requirements /\ k # "DeferredInput"
    BY DEF EntryKinds, Messages, AgentMessages, StateChanges, Declared, Requirements
  <1>3. Requirements = {"UserInput", "DeferredInput", "BodyUpdated", "ChildGoalCompleted"}
    BY DEF Requirements
  <1>4. \A k, i, tag : [Record(k, i) EXCEPT !.tag = tag] = [kind |-> k, run |-> i, tag |-> tag]
    BY DEF Record
  <1>5. /\ \A k \in EntryKinds : Signal(k) \in Entry
        /\ \A k \in EntryKinds, i \in Nat, tag \in {"none", "event"} \cup Sessions :
             Record(k, i) \in Entry /\ [Record(k, i) EXCEPT !.tag = tag] \in Entry
    BY Records
  <1> QED
    BY <1>1, <1>2, <1>3, <1>4, <1>5 DEF News, NewEntry, Signal, Record
(* What users and administrators write. *)
LEMMA UserAppends ==
  ASSUME Typed, UserStep, NEW t \in Sessions PROVE LogAppended(t)
  <1>0. /\ log \in [Sessions -> Seq(Entry)] /\ goal \in [Sessions -> Goal]
        /\ Signal("SignalGM") \in News(t) /\ Signal("BecameIncomplete") \in News(t)
        /\ Signal("BecameIncompleteDeferred") \in News(t)
    BY NeutralNews DEF Typed, Signals, StateChanges
  <1>1. ASSUME NEW s \in Sessions, UserInput(s) PROVE LogAppended(t)
    <2> DEFINE c == IF goal[s].wait = NoWait THEN <<>> ELSE <<Signal("SignalGM")>>
    <2>1. PICK w \in IF WorkerRuns(s) = {} THEN {NoRun} ELSE WorkerRuns(s) :
            log' = [log EXCEPT ![s] = @ \o InputEntries(s, w)]
      BY <1>1 DEF UserInput
    <2>2. goal'[s].state = "incomplete" /\ UNCHANGED runs
      BY <1>0, <1>1 DEF UserInput
    <2>3. CASE t = s
      <3>1. c \in Seq(News(t))
        BY <1>0
      <3>2. CASE WorkerRuns(s) = {}
        <4>1. Signal("UserInput") \in News(t)
          BY <2>2, <2>3, Kinds DEF News, NewEntry, Signal, Record, EntryKinds, Messages
        <4>2. InputEntries(s, w) = <<Signal("UserInput")>> \o c \o <<Signal("BecameIncomplete")>>
          BY <2>1, <3>2 DEF InputEntries
        <4> HIDE DEF c
        <4>3. InputEntries(s, w) \in Seq(News(t))
          BY <1>0, <3>1, <4>1, <4>2, Tuples
        <4> QED
          BY <1>0, <2>1, <2>3, <4>3 DEF LogAppended
      <3>3. CASE WorkerRuns(s) # {}
        <4>1. Signal("DeferredInput") \in News(t)
          BY <2>2, <2>3, <3>3, Kinds DEF News, NewEntry, Signal, Record, EntryKinds, Messages
        <4>2. w \in DOMAIN runs /\ w \in Nat /\ w # NoRun
          <5>1. w \in DOMAIN runs
            BY <2>1, <3>3 DEF WorkerRuns
          <5> QED
            BY <5>1, RunIds
        <4>3. Record("Followup", w) \in News(t)
          BY <4>2, NeutralNews
        <4>4. InputEntries(s, w) = <<Signal("DeferredInput")>> \o c
                  \o <<Signal("BecameIncompleteDeferred"), Record("Followup", w)>>
          BY <4>2 DEF InputEntries
        <4> HIDE DEF c
        <4>5. InputEntries(s, w) \in Seq(News(t))
          BY <1>0, <3>1, <4>1, <4>3, <4>4, Tuples
        <4> QED
          BY <1>0, <2>1, <2>3, <4>5 DEF LogAppended
      <3> QED
        BY <3>2, <3>3
    <2>4. CASE t # s
      BY <1>0, <2>1, <2>4, AppendsNothing
    <2> QED
      BY <2>3, <2>4
  <1>2. ASSUME NEW s \in Sessions, NEW b \in Bodies, UpdateGoal(s, b) PROVE LogAppended(t)
    <2>1. log' = [log EXCEPT ![s] = @ \o RevisionEntries(s)]
      BY <1>2 DEF UpdateGoal
    <2>2. goal'[s].state = "incomplete"
      BY <1>0, <1>2 DEF UpdateGoal, Goal
    <2>3. CASE t = s
      <3>1. Signal("BodyUpdated") \in News(t)
        BY <2>2, <2>3, Kinds DEF News, NewEntry, Signal, Record, EntryKinds
      <3>2. RevisionEntries(s) \in Seq(News(t))
        BY <1>0, <3>1, Tuples DEF RevisionEntries
      <3> QED
        BY <1>0, <2>1, <2>3, <3>2 DEF LogAppended
    <2>4. CASE t # s
      BY <1>0, <2>1, <2>4, AppendsNothing
    <2> QED
      BY <2>3, <2>4
  <1>3. ASSUME NEW s \in Sessions, NEW a \in BOOLEAN, SetSessionActive(s, a) PROVE LogAppended(t)
    <2>1. Signal(IF a THEN "Activated" ELSE "Deactivated") \in News(t)
      BY NeutralNews
    <2> QED
      BY <1>0, <1>3, <2>1, AppendsOne, AppendsNothing DEF SetSessionActive
  <1>4. ASSUME NEW s \in Pausable, SetUnitActive(s) PROVE LogAppended(t)
    BY <1>4, AppendsNothing DEF SetUnitActive
  <1> QED
    BY <1>1, <1>2, <1>3, <1>4 DEF UserStep

(* Agents write messages bound to their run. *)
LEMMA AgentAppends ==
  ASSUME Typed, NEW i \in DOMAIN runs, AgentStep(i), NEW t \in Sessions PROVE LogAppended(t)
  <1>1. ASSUME NEW kind \in MessageKinds, NEW tag \in {"none", "event"}, AgentMessage(i, kind, tag)
        PROVE  LogAppended(t)
    <2>1. [Record(kind, i) EXCEPT !.tag = tag] \in News(t)
      BY RunTyped, DataAssumption, NeutralNews DEF AgentMessages
    <2>2. log' = [log EXCEPT ![runs[i].session] = Append(@, [Record(kind, i) EXCEPT !.tag = tag])]
      BY <1>1 DEF AgentMessage
    <2>3. log'[t] = log[t] \/ log'[t] = Append(log[t], [Record(kind, i) EXCEPT !.tag = tag])
      BY <2>2 DEF Typed
    <2> QED
      BY <2>1, <2>3, AppendsOne, AppendsNothing
  <1>2. CASE UNCHANGED log
    BY <1>2, AppendsNothing
  <1> QED
    BY <1>1, <1>2 DEF AgentStep, DeclareOutcome, DeclareWaiting

(* What a returning run writes into the log of its own Session. *)
LEMMA ExtendsOne ==
  ASSUME Typed, NEW s \in Sessions, NEW t \in Sessions, NEW m \in Seq(News(t)), LogExtended(s, m)
  PROVE  LogAppended(t)
  <1>1. log' = [log EXCEPT ![s] = @ \o m] /\ log \in [Sessions -> Seq(Entry)]
    BY DEF LogExtended, Typed
  <1>2. CASE t = s
    BY <1>1, <1>2 DEF LogAppended
  <1>3. CASE t # s
    BY <1>1, <1>3, AppendsNothing
  <1> QED
    BY <1>2, <1>3

(* A completion is declared in one log, and noted in those of the parents. *)
LEMMA CompletionAppends ==
  ASSUME Typed, NEW i \in DOMAIN runs, CommitComplete(i), NEW t \in Sessions
  PROVE  LogAppended(t)
  <1> DEFINE s == runs[i].session
             n == [Record("ChildGoalCompleted", i) EXCEPT !.tag = s]
             A == IF t = s THEN <<Record("DeclaredComplete", i)>> ELSE <<>>
             B == IF t \in Notified(s) THEN <<n>> ELSE <<>>
  <1>0. /\ s \in Sessions /\ i \in Nat /\ i # NoRun
        /\ log[t] \in Seq(Entry) /\ goal \in [Sessions -> Goal]
    BY RunTyped, RunIds DEF Typed
  <1>1. A \in Seq(News(t))
    <2>1. Record("DeclaredComplete", i) \in News(t)
      BY <1>0, NeutralNews DEF StateChanges, Declared
    <2> QED
      BY <2>1
  <1>2. B \in Seq(News(t))
    <2>1. ASSUME t \in Notified(s) PROVE n \in News(t)
      <3>1. t # s
        BY <1>0, <2>1, SessionsAssumption DEF Notified
      <3>2. goal'[t] = IF t \in ReopenedParents(s) THEN [goal[t] EXCEPT !.state = "incomplete"]
                                                   ELSE goal[t]
        BY <3>1 DEF CommitComplete
      <3>3. goal'[t].state # "complete"
        BY <1>0, <2>1, <3>2 DEF ReopenedParents, Goal
      <3>4. n \in Entry /\ n.kind = "ChildGoalCompleted" /\ n.run = i
        BY <1>0, Kinds DEF EntryKinds, Record
      <3> QED
        BY <3>3, <3>4 DEF News, NewEntry
    <2> HIDE DEF n
    <2> QED
      BY <2>1
  <1>3. Reopening(s, t) \in Seq(News(t))
    BY NeutralNews DEF Reopening, StateChanges
  <1>4. log'[t] = ((log[t] \o A) \o B) \o Reopening(s, t)
    BY DEF CommitComplete
  <1> HIDE DEF A, B, s
  <1> QED
    BY <1>1, <1>2, <1>3, <1>4, AppendsParts

LEMMA ReturnAppends ==
  ASSUME Typed, NEW i \in DOMAIN runs, ReturnStep(i), NEW t \in Sessions PROVE LogAppended(t)
  <1>0. runs[i].session \in Sessions /\ i \in Nat
    BY RunTyped
  <1>1. /\ \A k \in Signals : Signal(k) \in News(t)
        /\ \A k \in StateChanges \cup AgentMessages : Record(k, i) \in News(t)
    BY <1>0, NeutralNews
  <1>2. \A k \in Signals : <<Signal(k)>> \in Seq(News(t))
    BY <1>1
  <1>3. \A k \in StateChanges \cup AgentMessages : <<Record(k, i)>> \in Seq(News(t))
    BY <1>1
  <1>4. CASE Discard(i)
    BY <1>0, <1>2, <1>4, ExtendsOne DEF Discard, StaleSignal, Signals
  <1>5. CASE CommitUndecided(i)
    BY <1>0, <1>2, <1>5, ExtendsOne DEF CommitUndecided, Signals
  <1>6. CASE CommitWaiting(i)
    BY <1>0, <1>3, <1>6, ExtendsOne DEF CommitWaiting, StateChanges, Declared
  <1>7. CASE CommitIncomplete(i)
    <2>1. \E m \in {<<>>, <<Record("WorkerRequest", i)>>} :
            LogExtended(runs[i].session, <<Record("DeclaredIncomplete", i)>> \o m)
      BY <1>7 DEF CommitIncomplete
    <2>2. \A m \in {<<>>, <<Record("WorkerRequest", i)>>} :
            <<Record("DeclaredIncomplete", i)>> \o m \in Seq(News(t))
      BY <1>1, <1>3, Tuples DEF StateChanges, Declared, AgentMessages
    <2> QED
      BY <1>0, <2>1, <2>2, ExtendsOne
  <1>8. CASE CommitWorker(i)
    BY <1>0, <1>2, <1>8, ExtendsOne, AppendsNothing DEF CommitWorker, Signals
  <1>9. CASE CommitError(i)
    BY <1>0, <1>3, <1>9, ExtendsOne DEF CommitError, StateChanges
  <1> QED
    BY <1>4, <1>5, <1>6, <1>7, <1>8, <1>9, CompletionAppends DEF ReturnStep

(* Reconciliation writes signals. *)
LEMMA ReconciliationAppends ==
  ASSUME Typed, NEW t \in Sessions
  PROVE  \E m \in Seq(News(t)) : LogR(t) = log[t] \o m
  <1> DEFINE e == Signal("SignalGM")
  <1>0. log[t] \in Seq(Entry) /\ e \in News(t) /\ News(t) \in SUBSET Entry
    BY NeutralNews DEF Typed, Signals, News
  <1>1. \A l \in Seq(Entry) : \A k \in Seq(News(t)) :
          l = log[t] \o k => Append(l, e) = log[t] \o (k \o <<e>>) /\ k \o <<e>> \in Seq(News(t))
    <2> SUFFICES ASSUME NEW k \in Seq(News(t))
                 PROVE  /\ Append(log[t] \o k, e) = log[t] \o (k \o <<e>>)
                        /\ k \o <<e>> \in Seq(News(t))
      OBVIOUS
    <2>1. k \in Seq(Entry) /\ e \in Entry
      BY <1>0 DEF News
    <2> HIDE DEF e
    <2> QED
      BY <1>0, <2>1, AppendBehind, Tuples
  <1> HIDE DEF e
  <1>2. PICK k1 \in Seq(News(t)) : RepairedLog(t) = log[t] \o k1
    <2>1. log[t] \o <<>> = log[t] /\ <<>> \in Seq(News(t)) /\ <<e>> \in Seq(News(t))
      BY <1>0, ConcatEmptySeq
    <2>2. log[t] \o <<e>> = Append(log[t], e) /\ e = Signal("SignalGM")
      BY <1>0, Joined DEF News, e
    <2> QED
      BY <2>1, <2>2 DEF RepairedLog
  <1>3. PICK k2 \in Seq(News(t)) : RefreshedLog(t) = log[t] \o k2
    <2>1. RepairedLog(t) \in Seq(Entry)
      BY <1>0, <1>2, Positions
    <2> QED
      BY <1>1, <1>2, <2>1 DEF RefreshedLog, WokenLog, e
  <1>4. RefreshedLog(t) \in Seq(Entry)
    BY <1>0, <1>3, Positions
  <1> QED
    BY <1>1, <1>3, <1>4 DEF LogR, e

(* Every step only appends to the SessionLogs, and a requirement it        *)
(* appends leaves the goal of that Session open.                           *)
LEMMA LogStep ==
  ASSUME Typed, LogAuthoritative, [Next]_vars, NEW t \in Sessions PROVE LogAppended(t)
  <1>1. CASE UNCHANGED log
    BY <1>1, AppendsNothing
  <1>2. CASE log' = [s \in Sessions |-> LogR(s)]
    BY <1>2, ReconciliationAppends DEF LogAppended
  <1>3. CASE StoreInit
    <2>1. PICK g : log'[t] = WokenLog(t, g, log[t])
      BY <1>3 DEF StoreInit
    <2>2. Signal("SignalGM") \in News(t)
      BY NeutralNews DEF Signals
    <2> QED
      BY <2>1, <2>2, AppendsOne, AppendsNothing DEF WokenLog
  <1>4. CASE RecoverRuns
    <2>1. \A k \in Signals : Signal(k) \in News(t)
      BY NeutralNews
    <2>2. log'[t] = log[t] \/ \E k \in Signals : log'[t] = Append(log[t], Signal(k))
      BY <1>4 DEF RecoverRuns, Signals
    <2> QED
      BY <2>1, <2>2, AppendsOne, AppendsNothing
  <1>5. CASE UserStep \/ \E i \in DOMAIN runs : AgentStep(i) \/ ReturnStep(i)
    BY <1>5, UserAppends, AgentAppends, ReturnAppends
  <1> QED
    BY <1>1, <1>2, <1>3, <1>4, <1>5
    DEF Next, vars, DispatchStep, Acquire, ChoosePaused, NothingToDispatch, ClockStep, LeaseAges,
        DeadlinePasses, RestartStep, Crash

(* A step leaves the entries of a log where they are, and puts news behind *)
(* them.                                                                   *)
LEMMA LogGrowth ==
  ASSUME Typed, LogAuthoritative, [Next]_vars, NEW s \in Sessions
  PROVE  /\ Len(log[s]) \in Nat /\ Len(log'[s]) \in Nat /\ Len(log[s]) <= Len(log'[s])
         /\ DOMAIN log[s] = 1..Len(log[s]) /\ DOMAIN log'[s] = 1..Len(log'[s])
         /\ \A n \in 1..Len(log[s]) : n \in 1..Len(log'[s]) /\ log'[s][n] = log[s][n]
         /\ \A n \in (Len(log[s]) + 1)..Len(log'[s]) : log'[s][n] \in News(s)
         /\ \A n \in 1..Len(log'[s]) :
              n \in 1..Len(log[s]) \/ n \in (Len(log[s]) + 1)..Len(log'[s])
  <1>1. PICK m \in Seq(News(s)) : log'[s] = log[s] \o m
    BY LogStep DEF LogAppended
  <1>2. log[s] \in Seq(Entry) /\ News(s) \in SUBSET Entry
    BY DEF Typed, News
  <1>3. /\ log'[s] \in Seq(Entry)
        /\ Len(log[s]) \in Nat /\ Len(log'[s]) \in Nat /\ Len(log[s]) <= Len(log'[s])
        /\ \A n \in 1..Len(log[s]) : n \in 1..Len(log'[s]) /\ log'[s][n] = log[s][n]
        /\ \A n \in (Len(log[s]) + 1)..Len(log'[s]) : log'[s][n] \in News(s)
    BY <1>1, <1>2, Positions
  <1>4. DOMAIN log[s] = 1..Len(log[s]) /\ DOMAIN log'[s] = 1..Len(log'[s])
    BY <1>2, <1>3
  <1>5. \A n \in 1..Len(log'[s]) :
          n \in 1..Len(log[s]) \/ n \in (Len(log[s]) + 1)..Len(log'[s])
    BY <1>3
  <1> QED
    BY <1>3, <1>4, <1>5

(* Cursors only move forward, and never into what a step writes. *)
LEMMA CursorGrowth ==
  ASSUME TypeOK, [Next]_vars, NEW s \in Sessions, NEW r \in Roles
  PROVE  /\ cursor[s][r] \in Nat /\ cursor'[s][r] \in Nat
         /\ cursor[s][r] <= cursor'[s][r] /\ cursor'[s][r] <= Len(log[s])
  <1>1. Typed /\ cursor[s][r] \in Nat /\ cursor[s][r] <= Len(log[s])
    BY DEF TypeOK, Typed, WindowsInLog
  <1>2. CASE UNCHANGED cursor
    BY <1>1, <1>2
  <1>3. ASSUME NEW i \in DOMAIN runs, WindowRead(i) PROVE
           /\ cursor'[s][r] \in Nat /\ cursor[s][r] <= cursor'[s][r] /\ cursor'[s][r] <= Len(log[s])
    <2>1. /\ runs[i].to \in Nat /\ runs[i].session \in Sessions
          /\ runs[i].to <= Len(log[runs[i].session])
      BY <1>1, RunTyped DEF TypeOK, WindowsInLog, Run
    <2>2. CASE s = runs[i].session /\ r = runs[i].role
      <3>1. cursor'[s][r] = Larger(cursor[s][r], runs[i].to)
        BY <1>1, <1>3, <2>2, CursorAfter
      <3> QED
        BY <1>1, <2>1, <2>2, <3>1 DEF Larger
    <2>3. CASE ~(s = runs[i].session /\ r = runs[i].role)
      BY <1>1, <1>3, <2>3, CursorAfter
    <2> QED
      BY <2>2, <2>3
  <1> QED
    BY <1>1, <1>2, <1>3, CursorStep

-----------------------------------------------------------------------------
(***************************************************************************)
(* What a goal that becomes complete had read.                             *)
(***************************************************************************)
(* User input is bound to no run, so it always meets the fence of a run    *)
(* that has not read it.                                                   *)
InputsUnbound ==
  \A s \in Sessions : \A n \in DOMAIN log[s] :
    log[s][n].kind \in {"UserInput", "DeferredInput"} => log[s][n].run = NoRun

LEMMA InputsUnboundStep ==
  ASSUME Typed, LogAuthoritative, InputsUnbound, [Next]_vars PROVE InputsUnbound'
  <1> SUFFICES ASSUME NEW s \in Sessions, NEW n \in DOMAIN log'[s],
                      log'[s][n].kind \in {"UserInput", "DeferredInput"}
               PROVE  log'[s][n].run = NoRun
    BY DEF InputsUnbound
  <1>1. CASE n \in 1..Len(log[s])
    BY <1>1, LogGrowth DEF InputsUnbound
  <1>2. CASE n \in (Len(log[s]) + 1)..Len(log'[s])
    BY <1>2, LogGrowth DEF News, NewEntry
  <1> QED
    BY <1>1, <1>2, LogGrowth

(* The fence of a run has nothing behind its window that the run could     *)
(* have missed.                                                            *)
LEMMA FencedRequirements ==
  ASSUME Typed, InputsUnbound, NEW i \in DOMAIN runs, ~Fenced(i),
         NEW n \in DOMAIN log[runs[i].session], log[runs[i].session][n].kind \in Requirements
  PROVE  n <= runs[i].to
  <1> DEFINE l == log[runs[i].session]
  <1>1. runs[i].session \in Sessions /\ runs[i].to \in Nat /\ i # NoRun
    BY RunTyped, RunIds DEF Run
  <1>2. l \in Seq(Entry) /\ DOMAIN l = 1..Len(l) /\ Len(l) \in Nat /\ n \in Nat
    BY <1>1 DEF Typed
  <1>3. ~Conflict(i)
    BY DEF Fenced
  <1>4. ASSUME ~(n <= runs[i].to) PROVE FALSE
    <2>1. n \in (runs[i].to + 1)..Len(l)
      BY <1>1, <1>2, <1>4
    <2>2. CASE l[n].kind \in {"BodyUpdated", "ChildGoalCompleted"}
      BY <1>3, <2>1, <2>2 DEF Conflict
    <2>3. CASE l[n].kind \in {"UserInput", "DeferredInput"}
      <3>1. l[n].run # i /\ l[n].kind \in Messages
        BY <1>1, <2>3 DEF InputsUnbound, Messages
      <3> QED
        BY <1>3, <2>1, <3>1 DEF Conflict
    <2> QED
      BY <2>2, <2>3 DEF Requirements
  <1> QED
    BY <1>4

(* A complete goal stays reviewed, because a requirement reopens it; a     *)
(* goal is completed by a run that had read every requirement.             *)
LEMMA ReviewedStep ==
  ASSUME TypeOK, LogAuthoritative, InputsUnbound, CompleteMeansReviewed, [Next]_vars
  PROVE  CompleteMeansReviewed'
  <1>0. Typed
    BY DEF TypeOK
  <1> SUFFICES ASSUME NEW s \in Sessions, goal'[s].state = "complete",
                      NEW n \in DOMAIN log'[s], log'[s][n].kind \in Requirements
               PROVE  n <= cursor'[s][GM]
    BY DEF CompleteMeansReviewed
  <1>1. n \in 1..Len(log[s]) /\ log'[s][n] = log[s][n] /\ DOMAIN log[s] = 1..Len(log[s])
    <2>1. n \notin (Len(log[s]) + 1)..Len(log'[s])
      BY <1>0, LogGrowth DEF News, NewEntry
    <2> QED
      BY <1>0, <2>1, LogGrowth
  <1>2. /\ cursor[s][GM] \in Nat /\ cursor'[s][GM] \in Nat /\ cursor[s][GM] <= cursor'[s][GM]
    BY CursorGrowth
  <1>3. CASE goal[s].state = "complete"
    <2>1. n <= cursor[s][GM]
      BY <1>1, <1>3 DEF CompleteMeansReviewed
    <2> QED
      BY <1>1, <1>2, <2>1
  <1>4. CASE goal[s].state # "complete"
    <2>1. PICK i \in DOMAIN runs : CommitComplete(i) /\ runs[i].session = s
      BY <1>0, <1>4, OnlyCommitsComplete
    <2>2. runs[i].role = GM /\ ~Fenced(i) /\ WindowRead(i) /\ runs[i].to \in Nat
      BY <1>0, <2>1, RunTyped DEF CommitComplete, Commit, Run
    <2>3. n <= runs[i].to
      BY <1>0, <1>1, <2>1, <2>2, FencedRequirements
    <2>4. cursor'[s][GM] = Larger(cursor[s][GM], runs[i].to)
      BY <1>0, <2>1, <2>2, CursorAfter
    <2> QED
      BY <1>1, <1>2, <2>2, <2>3, <2>4 DEF Larger
  <1> QED
    BY <1>3, <1>4

(* Whatever arrives while GoalManager works, a goal is complete only if    *)
(* the review that completed it, or an earlier one, had read every user    *)
(* input, every body revision and every completion of a child goal         *)
(* (_stale_dispatch_fence_locked, session_has_newer_goal_requirement).     *)
THEOREM CompletionIsReviewed == Spec => []CompleteMeansReviewed
  <1>1. Init => InputsUnbound /\ CompleteMeansReviewed
    <2> SUFFICES ASSUME Init, NEW s \in Sessions
                 PROVE  /\ \A n \in DOMAIN log[s] :
                             log[s][n].kind \in {"UserInput", "DeferredInput"} => log[s][n].run = NoRun
                        /\ goal[s].state # "complete"
      BY DEF InputsUnbound, CompleteMeansReviewed
    <2>1. goal[s].state # "complete"
      BY DEF Init
    <2>2. log[s] = <<>> \/ log[s] = <<Signal("BecameIncomplete")>>
      BY DEF Init
    <2> QED
      BY <2>1, <2>2 DEF Signal, Record
  <1>2. /\ TypeOK /\ LogAuthoritative /\ [Next]_vars
        /\ InputsUnbound /\ CompleteMeansReviewed
        => (InputsUnbound /\ CompleteMeansReviewed)'
    BY InputsUnboundStep, ReviewedStep DEF TypeOK
  <1> QED
    BY <1>1, <1>2, TypeCorrect, ReplayReproducesState, PTL DEF Spec

-----------------------------------------------------------------------------
(***************************************************************************)
(* A waiting goal and its reviewers.                                       *)
(***************************************************************************)
(* A goal is never unset, and only GoalManager's commit declares a wait.   *)
LEMMA GoalStep ==
  ASSUME Typed, LogAuthoritative, [Next]_vars, NEW s \in Sessions
  PROVE  /\ goal'[s].state \in {goal[s].state, "incomplete", "complete"}
         /\ \/ goal'[s].wait \in {goal[s].wait, NoWait}
            \/ DeadlinePasses(s)
            \/ \E i \in DOMAIN runs : CommitWaiting(i) /\ runs[i].session = s
  <1> DEFINE Good == /\ goal'[s].state \in {goal[s].state, "incomplete", "complete"}
                     /\ \/ goal'[s].wait \in {goal[s].wait, NoWait}
                        \/ DeadlinePasses(s)
                        \/ \E i \in DOMAIN runs : CommitWaiting(i) /\ runs[i].session = s
  <1> SUFFICES Good
    OBVIOUS
  <1>0. goal \in [Sessions -> Goal] /\ \A t \in Sessions : goal[t] \in Goal
    BY DEF Typed
  <1>1. CASE UNCHANGED goal
    BY <1>1
  <1>2. ASSUME NEW t \in Sessions, UserInput(t) PROVE Good
    <2>1. \E b : goal' = [goal EXCEPT ![t] = [state |-> "incomplete", wait |-> NoWait, body |-> b]]
      BY <1>2 DEF UserInput
    <2> QED
      BY <1>0, <2>1
  <1>3. ASSUME NEW t \in Sessions, NEW b \in Bodies, UpdateGoal(t, b) PROVE Good
    <2>1. goal' = [goal EXCEPT ![t].body = b, ![t].state = "incomplete"]
      BY <1>3 DEF UpdateGoal
    <2> QED
      BY <1>0, <2>1 DEF Goal
  <1>4. ASSUME NEW i \in DOMAIN runs, CommitWaiting(i) PROVE Good
    <2>1. goal' = [goal EXCEPT ![runs[i].session].wait = runs[i].wait]
      BY <1>4 DEF CommitWaiting
    <2>2. CASE s = runs[i].session
      <3>1. goal'[s].state = goal[s].state
        BY <1>0, <2>1 DEF Goal
      <3> QED
        BY <1>4, <2>2, <3>1
    <2>3. CASE s # runs[i].session
      BY <1>0, <2>1, <2>3
    <2> QED
      BY <2>2, <2>3
  <1>5. ASSUME NEW i \in DOMAIN runs,
               goal' = [goal EXCEPT ![runs[i].session].state = "incomplete"]
        PROVE  Good
    BY <1>0, <1>5 DEF Goal
  <1>6. ASSUME NEW i \in DOMAIN runs, CommitComplete(i) PROVE Good
    <2>1. \/ goal'[s] = goal[s]
          \/ goal'[s] = [goal[s] EXCEPT !.state = "complete"]
          \/ goal'[s] = [goal[s] EXCEPT !.state = "incomplete"]
      BY <1>6 DEF CommitComplete
    <2> QED
      BY <1>0, <2>1 DEF Goal
  <1>7. CASE goal' = [t \in Sessions |-> GoalR(t)]
    <2>1. goal'[s].state = goal[s].state
      BY <1>7, ReconciledSession
    <2>2. GoalR(s) = goal[s] \/ GoalR(s) = [goal[s] EXCEPT !.wait = NoWait]
      BY DEF GoalR, WokenGoal
    <2>3. GoalR(s).wait \in {goal[s].wait, NoWait}
      BY <1>0, <2>2 DEF Goal
    <2> QED
      BY <1>7, <2>1, <2>3
  <1>8. ASSUME NEW t \in Sessions, DeadlinePasses(t) PROVE Good
    <2>1. goal' = [goal EXCEPT ![t].wait.passed = TRUE]
      BY <1>8 DEF DeadlinePasses
    <2>2. goal'[s].state = goal[s].state
      BY <1>0, <2>1 DEF Goal
    <2>3. s = t \/ goal'[s] = goal[s]
      BY <1>0, <2>1
    <2> QED
      BY <1>8, <2>2, <2>3
  <1>9. CASE StoreInit
    <2> DEFINE g == [goal[s] EXCEPT !.state = ReplayedState(s)]
    <2>1. goal'[s] = WokenGoal(s, g, log[s])
      BY <1>9 DEF StoreInit
    <2>2. g \in Goal /\ g.state = goal[s].state /\ g.wait = goal[s].wait
      BY <1>0 DEF LogAuthoritative, Goal
    <2> HIDE DEF g
    <2>3. goal'[s] = g \/ goal'[s] = [g EXCEPT !.wait = NoWait]
      BY <2>1 DEF WokenGoal
    <2>4. goal'[s].state = goal[s].state /\ goal'[s].wait \in {goal[s].wait, NoWait}
      BY <2>2, <2>3 DEF Goal
    <2> QED
      BY <2>4
  <1>10. CASE UserStep \/ \E i \in DOMAIN runs : AgentStep(i)
    BY <1>1, <1>2, <1>3, <1>10
    DEF UserStep, SetSessionActive, SetUnitActive, AgentStep, AgentMessage, DeclareOutcome,
        DeclareWaiting
  <1>11. ASSUME NEW i \in DOMAIN runs, ReturnStep(i) PROVE Good
    <2>1. CASE UNCHANGED goal
      BY <1>1, <2>1
    <2>2. CASE CommitIncomplete(i) \/ CommitError(i)
      BY <1>5, <2>2 DEF CommitIncomplete, CommitError
    <2> QED
      BY <1>4, <1>6, <1>11, <2>1, <2>2 DEF ReturnStep, Discard, CommitUndecided, CommitWorker
  <1>12. CASE DispatchStep \/ ClockStep
    BY <1>1, <1>7, <1>8, <1>12
    DEF DispatchStep, Acquire, ChoosePaused, NothingToDispatch, ClockStep, LeaseAges, vars
  <1>13. CASE RestartStep
    BY <1>1, <1>9, <1>13 DEF RestartStep, Crash, RecoverRuns
  <1> QED
    BY <1>1, <1>10, <1>11, <1>12, <1>13 DEF Next, vars

(* A run that commits is the only one of its Session and role that holds   *)
(* a lease, and holds none afterwards.                                     *)
LEMMA CommitVacates ==
  ASSUME Typed, OneRunPerRole, NEW i \in DOMAIN runs, NEW r, Commit(i, r)
  PROVE  /\ runs[i].lease = "acquired" /\ runs[i].role = r /\ r \in Roles
         /\ HasAcquiredRun(runs, runs[i].session, r)
         /\ ~HasAcquiredRun(runs', runs[i].session, r)
  <1>1. /\ Released(i) /\ runs[i].role = r /\ runs[i].lease = "acquired" /\ r \in Roles
    BY RunTyped DEF Commit, Fenced
  <1>2. /\ DOMAIN runs' = DOMAIN runs /\ runs'[i].lease = "released"
        /\ \A j \in DOMAIN runs \ {i} : runs'[j] = runs[j]
    BY <1>1, RunReturns
  <1> QED
    BY <1>1, <1>2 DEF HasAcquiredRun, OneRunPerRole

(* A goal under review is open. *)
ReviewsOpenGoal ==
  \A s \in Sessions : HasAcquiredRun(runs, s, GM) => goal[s].state = "incomplete"

(* Only the commit of GoalManager's run closes an open goal.               *)
LEMMA StaysOpen ==
  ASSUME Typed, LogAuthoritative, [Next]_vars, NEW s \in Sessions, goal[s].state = "incomplete",
         ~\E i \in DOMAIN runs : CommitComplete(i) /\ runs[i].session = s
  PROVE  goal'[s].state = "incomplete"
  BY GoalStep, OnlyCommitsComplete

LEMMA ReviewsOpenGoalStep ==
  ASSUME Typed, LogAuthoritative, OneRunPerRole, ReviewsOpenGoal, [Next]_vars
  PROVE  ReviewsOpenGoal'
  <1> SUFFICES ASSUME NEW s \in Sessions, HasAcquiredRun(runs', s, GM)
               PROVE  goal'[s].state = "incomplete"
    BY DEF ReviewsOpenGoal
  <1>1. CASE HasAcquiredRun(runs, s, GM)
    <2>1. ASSUME NEW i \in DOMAIN runs, CommitComplete(i), runs[i].session = s PROVE FALSE
      BY <2>1, CommitVacates DEF CommitComplete
    <2> QED
      BY <1>1, <2>1, StaysOpen DEF ReviewsOpenGoal
  <1>2. CASE ~HasAcquiredRun(runs, s, GM)
    <2>1. ~NoNewRun
      BY <1>2 DEF NoNewRun, Kept, HasAcquiredRun
    <2>2. PICK t \in Sessions, r \in Roles : Acquire(t, r)
      BY <2>1, RunsKept DEF AcquireStep
    <2>3. PICK e \in Candidates(t) :
            /\ DOMAIN runs' = DOMAIN runs \cup {Len(runs) + 1}
            /\ runs'[Len(runs) + 1] = NewRun(t, e)
            /\ \A i \in DOMAIN runs : Kept(i)
      BY <2>2, LeaseAdded
    <2>4. t = s
      BY <1>2, <2>3 DEF HasAcquiredRun, Kept, NewRun
    <2>5. GoalR(s).state = "incomplete" /\ goal' = [q \in Sessions |-> GoalR(q)]
      BY <2>2, <2>3, <2>4 DEF Candidates, Dispatchable, Acquire
    <2> QED
      BY <2>5
  <1> QED
    BY <1>1, <1>2

(* While a wait lasts, no step offers its Session a role it had not.       *)
LEMMA NothingOffered ==
  ASSUME Typed, LogAuthoritative, [Next]_vars, NEW s \in Sessions,
         goal[s].wait # NoWait, goal'[s].wait # NoWait
  PROVE  \A e \in ready'[s] : \E f \in ready[s] : f.role = e.role
  <1> DEFINE Same == \A e \in ready'[s] : \E f \in ready[s] : f.role = e.role
  <1>0. ready \in [Sessions -> SUBSET Readiness] /\ goal[s] \in Goal
    BY DEF Typed
  <1>1. CASE ready'[s] \subseteq ready[s]
    BY <1>1
  <1>2. ASSUME GoalR(s).wait # NoWait PROVE ReadyR(s) \subseteq ready[s]
    BY <1>2 DEF ReadyR, RefreshedReady, RefreshedEntries
  <1>3. ASSUME NEW t \in Sessions, NEW r \in Roles, Acquire(t, r) PROVE Same
    <2>1. PICK e \in Candidates(t) :
            ready' = [q \in Sessions |->
                 IF q = t THEN (ReadyR(t) \ {e}) \cup {[e EXCEPT !.holder = Len(runs) + 1]}
                          ELSE ReadyR(q)]
      BY <1>3 DEF Acquire
    <2>2. ReadyR(s) \subseteq ready[s]
      BY <1>2, <1>3 DEF Acquire
    <2>3. e \in ReadyR(t) /\ e \in Readiness
      BY <2>1, ReconciledSession DEF Candidates
    <2>4. [e EXCEPT !.holder = Len(runs) + 1].role = e.role
      BY <2>3 DEF Readiness
    <2> QED
      BY <2>1, <2>2, <2>3, <2>4
  <1>4. CASE NothingToDispatch
    BY <1>1, <1>2, <1>4 DEF NothingToDispatch
  <1>5. CASE StoreInit
    <2> DEFINE g == WokenGoal(s, [goal[s] EXCEPT !.state = ReplayedState(s)], log[s])
    <2>1. /\ goal'[s] = g
          /\ \E l : ready'[s] = RefreshedEntries(s, runs, g, l, ready[s])
      BY <1>5 DEF StoreInit
    <2> HIDE DEF g
    <2>2. ready'[s] = ready[s]
      BY <2>1 DEF RefreshedEntries
    <2> QED
      BY <1>1, <2>2
  <1>6. CASE RecoverRuns
    <2>1. ready'[s] = RecoveredEntries(s)
      BY <1>6 DEF RecoverRuns
    <2>2. \A e \in ready[s] : [e EXCEPT !.holder = NoRun].role = e.role
      BY <1>0 DEF Readiness
    <2> QED
      BY <2>1, <2>2 DEF RecoveredEntries
  <1>7. ASSUME NEW i \in DOMAIN runs, ReturnStep(i) PROVE Same
    <2>1. CASE CommitComplete(i)
      BY <1>0, <2>1 DEF CommitComplete
    <2>2. CASE \E es : EntriesResolved(runs[i].session, es)
      BY <1>1, <2>2, ReadinessShrinks, RunTyped
    <2> QED
      BY <1>7, <2>1, <2>2 DEF ReturnStep, Discard, CommitUndecided, CommitWaiting, CommitIncomplete,
                              CommitWorker, CommitError
  <1>8. CASE UNCHANGED ready
    BY <1>1, <1>8
  <1> QED
    BY <1>3, <1>4, <1>5, <1>6, <1>7, <1>8
    DEF Next, vars, UserStep, UserInput, UpdateGoal, SetSessionActive, SetUnitActive, AgentStep,
        AgentMessage, DeclareOutcome, DeclareWaiting, DispatchStep, ChoosePaused, ClockStep,
        LeaseAges, DeadlinePasses, RestartStep, Crash

LEMMA WaitingStep ==
  ASSUME Typed, LogAuthoritative, OneRunPerRole, ReviewsOpenGoal, WaitingSuppressesReview,
         [Next]_vars
  PROVE  WaitingSuppressesReview'
  <1> SUFFICES ASSUME NEW s \in Sessions, goal'[s].wait # NoWait
               PROVE  /\ goal'[s].state = "incomplete"
                      /\ \A e \in ready'[s] : e.role # GM
                      /\ ~HasAcquiredRun(runs', s, GM)
    BY DEF WaitingSuppressesReview
  <1>1. CASE goal[s].wait # NoWait
    <2>1. /\ goal[s].state = "incomplete" /\ ~HasAcquiredRun(runs, s, GM)
          /\ \A e \in ready[s] : e.role # GM
      BY <1>1 DEF WaitingSuppressesReview
    <2>2. ASSUME NEW i \in DOMAIN runs, CommitComplete(i), runs[i].session = s PROVE FALSE
      BY <2>1, <2>2, CommitVacates DEF CommitComplete
    <2>3. goal'[s].state = "incomplete"
      BY <2>1, <2>2, StaysOpen
    <2>4. \A e \in ready'[s] : e.role # GM
      BY <1>1, <2>1, NothingOffered
    <2>5. ~HasAcquiredRun(runs', s, GM)
      <3>1. CASE NoNewRun
        BY <2>1, <3>1 DEF NoNewRun, Kept, HasAcquiredRun
      <3>2. ASSUME NEW t \in Sessions, NEW r \in Roles, Acquire(t, r)
            PROVE  ~HasAcquiredRun(runs', s, GM)
        <4>1. PICK e \in Candidates(t) :
                /\ DOMAIN runs' = DOMAIN runs \cup {Len(runs) + 1}
                /\ runs'[Len(runs) + 1] = NewRun(t, e)
                /\ \A i \in DOMAIN runs : Kept(i)
                /\ ready' = [q \in Sessions |->
                     IF q = t THEN (ReadyR(t) \ {e}) \cup {[e EXCEPT !.holder = Len(runs) + 1]}
                              ELSE ReadyR(q)]
          BY <3>2, LeaseAdded
        <4>2. e \in Readiness
          BY <4>1, ReconciledSession DEF Candidates
        <4>3. [e EXCEPT !.holder = Len(runs) + 1].role = e.role
          BY <4>2 DEF Readiness
        <4>4. t # s \/ e.role # GM
          BY <2>4, <4>1, <4>3
        <4> QED
          BY <2>1, <4>1, <4>4 DEF HasAcquiredRun, Kept, NewRun
      <3> QED
        BY <3>1, <3>2, RunsKept DEF AcquireStep
    <2> QED
      BY <2>3, <2>4, <2>5
  <1>2. CASE goal[s].wait = NoWait
    <2>1. ~DeadlinePasses(s)
      BY <1>2 DEF DeadlinePasses, NoWait
    <2>2. PICK i \in DOMAIN runs : CommitWaiting(i) /\ runs[i].session = s
      BY <1>2, <2>1, GoalStep
    <2>3. Commit(i, GM) /\ ready' = [ready EXCEPT ![s] = @ \ ReviewEntries(s)]
      BY <2>2 DEF CommitWaiting, EntriesResolved
    <2>4. HasAcquiredRun(runs, s, GM) /\ ~HasAcquiredRun(runs', s, GM)
      BY <2>2, <2>3, CommitVacates
    <2>5. goal'[s] = [goal[s] EXCEPT !.wait = runs[i].wait] /\ goal[s] \in Goal
      BY <2>2 DEF CommitWaiting, Typed
    <2>6. goal'[s].state = "incomplete"
      BY <2>4, <2>5 DEF ReviewsOpenGoal, Goal
    <2>7. \A e \in ready'[s] : e.role # GM
      BY <2>3 DEF ReviewEntries, Typed
    <2> QED
      BY <2>4, <2>6, <2>7
  <1> QED
    BY <1>1, <1>2

(* No step offers or leases GoalManager to a Session whose goal waits, and *)
(* declaring the wait ends the review that declared it                     *)
(* (goal_is_waiting, _resolve_role_readiness).                             *)
THEOREM WaitsAreUndisturbed == Spec => []WaitingSuppressesReview
  <1>1. Init => ReviewsOpenGoal /\ WaitingSuppressesReview
    <2> SUFFICES ASSUME Init, NEW s \in Sessions
                 PROVE  ~HasAcquiredRun(runs, s, GM) /\ goal[s].wait = NoWait
      BY DEF ReviewsOpenGoal, WaitingSuppressesReview
    <2>1. runs = <<>>
      BY DEF Init
    <2>2. ~HasAcquiredRun(runs, s, GM)
      BY <2>1 DEF HasAcquiredRun
    <2> QED
      BY <2>2 DEF Init
  <1>2. /\ TypeOK /\ LogAuthoritative /\ OneRunPerRole /\ [Next]_vars
        /\ ReviewsOpenGoal /\ WaitingSuppressesReview
        => (ReviewsOpenGoal /\ WaitingSuppressesReview)'
    BY ReviewsOpenGoalStep, WaitingStep DEF TypeOK
  <1> QED
    BY <1>1, <1>2, TypeCorrect, ReplayReproducesState, LeasesExclusive, PTL DEF Spec

-----------------------------------------------------------------------------
(***************************************************************************)
(* What ends a lease, opens a goal or moves a cursor either wakes          *)
(* GoalManager or is the commit of a run.                                  *)
(***************************************************************************)
(* An entry of l beyond k wakes GoalManager, or a Worker. *)
Wakes(l, k) == \E n \in (k + 1)..Len(l) : WakesGoalManager(l[n], FALSE)
Asks(l, k) == \E n \in (k + 1)..Len(l) : WakesWorker(l[n])
(* A step wakes the GoalManager of s. *)
Signalled(s) == Wakes(log'[s], Len(log[s]))

(* Which entries wake GoalManager. *)
LEMMA WakeKinds ==
  /\ \A k \in Signals \cup {"UserInput", "Activated", "BecameIncomplete"} :
       WakesGoalManager(Signal(k), FALSE)
  /\ \A i : WakesGoalManager(Record("BecameIncomplete", i), FALSE)
  /\ \A i, tag : WakesGoalManager([Record("ChildGoalCompleted", i) EXCEPT !.tag = tag], FALSE)
  BY DEF WakesGoalManager, Signals, Signal, Record

(* Entry n of what is appended to a log. *)
LEMMA AppendedAt ==
  ASSUME NEW l \in Seq(Entry), NEW m \in Seq(Entry), NEW n \in 1..Len(m)
  PROVE  /\ Len(l) + n \in (Len(l) + 1)..Len(l \o m)
         /\ (l \o m)[Len(l) + n] = m[n]
  OBVIOUS

LEMMA SignalledByOne ==
  ASSUME Typed, NEW s \in Sessions, NEW e \in Entry, WakesGoalManager(e, FALSE),
         log'[s] = Append(log[s], e)
  PROVE  Signalled(s)
  <1>1. log[s] \in Seq(Entry) /\ Len(log[s]) \in Nat
    BY DEF Typed
  <1>2. Len(log'[s]) = Len(log[s]) + 1 /\ log'[s][Len(log[s]) + 1] = e
    BY <1>1, OneMore
  <1>3. Len(log[s]) + 1 \in (Len(log[s]) + 1)..Len(log'[s])
    BY <1>1, <1>2
  <1> QED
    BY <1>2, <1>3 DEF Signalled, Wakes

LEMMA SignalledByMany ==
  ASSUME Typed, NEW s \in Sessions, NEW m \in Seq(Entry), NEW n \in 1..Len(m),
         WakesGoalManager(m[n], FALSE), log'[s] = log[s] \o m
  PROVE  Signalled(s)
  <1>1. log[s] \in Seq(Entry)
    BY DEF Typed
  <1>2. /\ Len(log[s]) + n \in (Len(log[s]) + 1)..Len(log'[s])
        /\ log'[s][Len(log[s]) + n] = m[n]
    BY <1>1, AppendedAt
  <1> QED
    BY <1>2 DEF Signalled, Wakes

LEMMA ExtendedByOne ==
  ASSUME Typed, NEW s \in Sessions, NEW e \in Entry, WakesGoalManager(e, FALSE),
         LogExtended(s, <<e>>)
  PROVE  Signalled(s)
  <1>1. log[s] \in Seq(Entry) /\ log'[s] = log[s] \o <<e>>
    BY DEF Typed, LogExtended
  <1>2. log'[s] = Append(log[s], e)
    BY <1>1, Joined
  <1> QED
    BY <1>2, SignalledByOne

(* Reconciliation writes nothing but wake-ups. *)
Signalling(l, k) ==
  /\ k \in Seq(Entry) /\ Len(l) \in Nat /\ Len(k) \in Nat /\ Len(l) <= Len(k)
  /\ \A n \in (Len(l) + 1)..Len(k) : k[n] = Signal("SignalGM")

LEMMA SignallingOn ==
  ASSUME NEW l \in Seq(Entry), NEW k, Signalling(l, k)
  PROVE  Signalling(l, Append(k, Signal("SignalGM")))
  <1>1. Signal("SignalGM") \in Entry
    BY Records DEF EntryKinds, Signals
  <1>2. k \in Seq(Entry)
    BY DEF Signalling
  <1>3. /\ Append(k, Signal("SignalGM")) \in Seq(Entry)
        /\ Len(Append(k, Signal("SignalGM"))) = Len(k) + 1
        /\ Append(k, Signal("SignalGM"))[Len(k) + 1] = Signal("SignalGM")
        /\ \A n \in 1..Len(k) : Append(k, Signal("SignalGM"))[n] = k[n]
    BY <1>1, <1>2, OneMore
  <1> QED
    BY <1>3 DEF Signalling

LEMMA ReconciliationSignals ==
  ASSUME Typed, NEW s \in Sessions
  PROVE  /\ Signalling(log[s], LogR(s))
         /\ Repaired(s) \/ GoalR(s) # goal[s] => Len(LogR(s)) > Len(log[s])
  <1> DEFINE e == Signal("SignalGM")
  <1>0. log[s] \in Seq(Entry) /\ Len(log[s]) \in Nat /\ Signalling(log[s], log[s])
    BY DEF Typed, Signalling
  <1>1. e \in Entry
    BY Records DEF EntryKinds, Signals
  <1>2. \A k \in Seq(Entry) : Len(k) \in Nat /\ Len(Append(k, e)) = Len(k) + 1
    BY <1>1, OneMore
  <1>3. \A k : Signalling(log[s], k) => Signalling(log[s], Append(k, e))
    BY <1>0, SignallingOn
  <1> HIDE DEF e
  <1>4. /\ Signalling(log[s], RepairedLog(s)) /\ Len(log[s]) <= Len(RepairedLog(s))
        /\ Repaired(s) => Len(RepairedLog(s)) > Len(log[s])
    BY <1>0, <1>2, <1>3 DEF RepairedLog, e
  <1>5. /\ Signalling(log[s], RefreshedLog(s)) /\ Len(RepairedLog(s)) <= Len(RefreshedLog(s))
        /\ GoalR(s) # goal[s] => Len(RefreshedLog(s)) > Len(RepairedLog(s))
    <2>1. RepairedLog(s) \in Seq(Entry)
      BY <1>4 DEF Signalling
    <2>2. Len(RepairedLog(s)) \in Nat /\ Len(Append(RepairedLog(s), e)) = Len(RepairedLog(s)) + 1
      BY <1>2, <2>1
    <2> QED
      BY <1>3, <1>4, <2>2 DEF RefreshedLog, WokenLog, GoalR, WokenGoal, e
  <1>6. Signalling(log[s], LogR(s)) /\ Len(RefreshedLog(s)) <= Len(LogR(s))
    <2>1. RefreshedLog(s) \in Seq(Entry)
      BY <1>5 DEF Signalling
    <2>2. Len(RefreshedLog(s)) \in Nat /\ Len(Append(RefreshedLog(s), e)) = Len(RefreshedLog(s)) + 1
      BY <1>2, <2>1
    <2> QED
      BY <1>3, <1>5, <2>2 DEF LogR, e
  <1>7. Len(RepairedLog(s)) \in Nat /\ Len(RefreshedLog(s)) \in Nat /\ Len(LogR(s)) \in Nat
    BY <1>4, <1>5, <1>6 DEF Signalling
  <1> QED
    BY <1>0, <1>4, <1>5, <1>6, <1>7

(* An expired lease, a dropped entry and a wait that ended are signalled.  *)
LEMMA SignalledByReconciliation ==
  ASSUME Typed, NEW s \in Sessions, log'[s] = LogR(s), Repaired(s) \/ GoalR(s) # goal[s]
  PROVE  Signalled(s)
  <1>1. Signalling(log[s], log'[s]) /\ Len(log'[s]) > Len(log[s])
    BY ReconciliationSignals
  <1>2. Len(log[s]) + 1 \in (Len(log[s]) + 1)..Len(log'[s])
    BY <1>1 DEF Signalling
  <1>3. log'[s][Len(log[s]) + 1] = Signal("SignalGM")
    BY <1>1, <1>2 DEF Signalling
  <1> QED
    BY <1>2, <1>3, WakeKinds DEF Signalled, Wakes, Signals

(* A lease that ends outside the commit of a decision or of a reported     *)
(* turn is signalled, unless a restart finds nothing to be done there.     *)
LEMMA LeaseEnds ==
  ASSUME Typed, [Next]_vars, NEW i \in DOMAIN runs,
         runs[i].lease = "acquired", runs'[i].lease # "acquired"
  PROVE  \/ Signalled(runs[i].session)
         \/ CommitWaiting(i) \/ CommitIncomplete(i) \/ CommitComplete(i)
         \/ CommitWorker(i) /\ Reported(i)
         \/ RecoverRuns /\ ~Dispatchable(runs[i].session, goal[runs[i].session])
  <1> DEFINE s == runs[i].session
  <1>0. s \in Sessions /\ i \in Nat /\ log[s] \in Seq(Entry)
    BY RunTyped DEF Typed
  <1>1. ~LeasesKept
    BY DEF LeasesKept
  <1>2. /\ \A k \in Signals : Signal(k) \in Entry /\ WakesGoalManager(Signal(k), FALSE)
        /\ Record("BecameIncomplete", i) \in Entry
        /\ WakesGoalManager(Record("BecameIncomplete", i), FALSE)
    BY <1>0, Records, WakeKinds DEF EntryKinds, StateChanges
  <1> HIDE DEF s
  <1>3. ASSUME NEW j \in DOMAIN runs, ReturnStep(j)
        PROVE  \/ Signalled(s)
               \/ CommitWaiting(i) \/ CommitIncomplete(i) \/ CommitComplete(i)
               \/ CommitWorker(i) /\ Reported(i)
    <2>1. Released(j) \/ runs' = [runs EXCEPT ![j] = Ended(@)]
      BY <1>3 DEF ReturnStep, Discard, Commit, CommitUndecided, CommitWaiting, CommitIncomplete,
                  CommitComplete, CommitWorker, CommitError
    <2>2. j = i
      BY <2>1, RunReturns
    <2>3. CASE Discard(i)
      BY <1>0, <1>2, <2>3, ExtendedByOne DEF Discard, StaleSignal, Signals, s
    <2>4. CASE CommitUndecided(i)
      BY <1>0, <1>2, <2>4, ExtendedByOne DEF CommitUndecided, Signals, s
    <2>5. CASE CommitWorker(i) /\ ~Reported(i)
      BY <1>0, <1>2, <2>5, ExtendedByOne DEF CommitWorker, Signals, s
    <2>6. CASE CommitError(i)
      BY <1>0, <1>2, <2>6, ExtendedByOne DEF CommitError, s
    <2> QED
      BY <1>3, <2>2, <2>3, <2>4, <2>5, <2>6 DEF ReturnStep
  <1>4. CASE DispatchStep
    <2>1. UNCHANGED runs \/ (runs'[i] = RunsR[i] /\ log'[s] = LogR(s))
      BY <1>0, <1>4, LeaseAdded DEF DispatchStep, ChoosePaused, vars, NothingToDispatch, Acquire
    <2>2. runs'[i] = RunsR[i] /\ log'[s] = LogR(s)
      BY <2>1
    <2>3. LeaseExpired(i)
      BY <2>2 DEF RunsR
    <2> QED
      BY <1>0, <2>2, <2>3, SignalledByReconciliation DEF Repaired, s
  <1>5. CASE RecoverRuns
    <2>1. Dispatchable(s, goal[s]) => \E k \in Signals : log'[s] = Append(log[s], Signal(k))
      BY <1>0, <1>5 DEF RecoverRuns, Signals
    <2> QED
      BY <1>0, <1>2, <1>5, <2>1, SignalledByOne DEF s
  <1>6. ~UNCHANGED runs
    OBVIOUS
  <1>7. CASE UserStep \/ (\E j \in DOMAIN runs : AgentStep(j)) \/ ClockStep
             \/ \E D \in SUBSET DOMAIN runs : Crash(D)
    BY <1>1, <1>7, LeasesKeptStep
  <1>8. CASE StoreInit
    BY <1>6, <1>8 DEF StoreInit
  <1> QED
    BY <1>3, <1>4, <1>5, <1>6, <1>7, <1>8 DEF Next, RestartStep, vars, s

(* User input wakes GoalManager, or is forwarded to a run that keeps its   *)
(* lease.                                                                  *)
LEMMA InputWakes ==
  ASSUME Typed, NEW s \in Sessions, UserInput(s)
  PROVE  Signalled(s) \/ (WorkerRuns(s) # {} /\ UNCHANGED runs)
  <1>1. CASE WorkerRuns(s) = {}
    <2> DEFINE c == IF goal[s].wait = NoWait THEN <<>> ELSE <<Signal("SignalGM")>>
               u == Signal("UserInput")
               b == Signal("BecameIncomplete")
    <2>1. log'[s] = log[s] \o (<<u>> \o c \o <<b>>)
      BY <1>1 DEF UserInput, InputEntries, Typed
    <2>2. u \in Entry /\ b \in Entry /\ Signal("SignalGM") \in Entry /\ WakesGoalManager(u, FALSE)
      BY Records, WakeKinds DEF EntryKinds, Messages, StateChanges, Signals
    <2>3. c \in Seq(Entry)
      BY <2>2
    <2> HIDE DEF c, u, b
    <2>4. /\ <<u>> \o c \o <<b>> \in Seq(Entry) /\ 1 \in 1..Len(<<u>> \o c \o <<b>>)
          /\ (<<u>> \o c \o <<b>>)[1] = u
      BY <2>2, <2>3
    <2> QED
      BY <2>1, <2>2, <2>4, SignalledByMany
  <1>2. CASE WorkerRuns(s) # {}
    BY <1>2 DEF UserInput
  <1> QED
    BY <1>1, <1>2

(* Whatever creates a goal or revises its body wakes GoalManager. *)
LEMMA RevisionWakes ==
  ASSUME Typed, NEW s \in Sessions, NEW b, UpdateGoal(s, b) PROVE Signalled(s)
  <1> DEFINE c == IF goal[s].state = "none" THEN <<>> ELSE <<Signal("BodyUpdated")>>
             e == Signal("BecameIncomplete")
  <1>1. log'[s] = log[s] \o (c \o <<e>>)
    BY DEF UpdateGoal, RevisionEntries, Typed
  <1>2. e \in Entry /\ Signal("BodyUpdated") \in Entry /\ WakesGoalManager(e, FALSE)
    BY Records, WakeKinds DEF EntryKinds, StateChanges
  <1>3. c \in Seq(Entry)
    BY <1>2
  <1> HIDE DEF c, e
  <1>4. /\ c \o <<e>> \in Seq(Entry) /\ Len(c) + 1 \in 1..Len(c \o <<e>>)
        /\ (c \o <<e>>)[Len(c) + 1] = e
    BY <1>2, <1>3
  <1> QED
    BY <1>1, <1>2, <1>4, SignalledByMany

(* The completion of a child goal wakes the parents' GoalManagers. *)
LEMMA CompletionWakes ==
  ASSUME Typed, NEW i \in DOMAIN runs, CommitComplete(i), NEW s \in Notified(runs[i].session)
  PROVE  s \in Sessions => Signalled(s)
  <1> SUFFICES ASSUME s \in Sessions PROVE Signalled(s)
    OBVIOUS
  <1> DEFINE c == [Record("ChildGoalCompleted", i) EXCEPT !.tag = runs[i].session]
             m == Reopening(runs[i].session, s)
  <1>1. /\ s # runs[i].session /\ runs[i].session \in Sessions /\ i \in Nat
        /\ log[s] \in Seq(Entry)
    BY RunTyped, SessionsAssumption DEF Notified, Typed
  <1>2. log'[s] = ((log[s] \o <<>>) \o <<c>>) \o m
    BY <1>1 DEF CommitComplete
  <1>3. c \in Entry /\ Signal("BecameIncomplete") \in Entry /\ WakesGoalManager(c, FALSE)
    BY <1>1, Records, WakeKinds DEF EntryKinds, StateChanges
  <1>4. m \in Seq(Entry)
    BY <1>3 DEF Reopening
  <1> HIDE DEF c, m
  <1>5. log[s] \o <<>> = log[s] /\ <<c>> \in Seq(Entry)
    BY <1>1, <1>3, Joined
  <1>6. log'[s] = log[s] \o (<<c>> \o m)
    <2>1. log'[s] = (log[s] \o <<c>>) \o m
      BY <1>2, <1>5
    <2>2. (log[s] \o <<c>>) \o m = log[s] \o (<<c>> \o m)
      BY <1>1, <1>4, <1>5, Regroup
    <2> QED
      BY <2>1, <2>2
  <1>7. /\ <<c>> \o m \in Seq(Entry) /\ 1 \in 1..Len(<<c>> \o m)
        /\ (<<c>> \o m)[1] = c
    BY <1>3, <1>4
  <1> QED
    BY <1>3, <1>6, <1>7, SignalledByMany

(* A Session that becomes active is signalled. *)
LEMMA FlagRaised ==
  ASSUME Typed, LogAuthoritative, [Next]_vars, NEW s \in Sessions, active'[s], ~active[s]
  PROVE  Signalled(s)
  <1>1. CASE UNCHANGED active
    BY <1>1
  <1>2. ASSUME NEW t \in Sessions, NEW a \in BOOLEAN, SetSessionActive(t, a) PROVE Signalled(s)
    <2>1. t = s /\ a = TRUE
      BY <1>2 DEF SetSessionActive, Typed
    <2>2. log'[s] = Append(log[s], Signal("Activated"))
      BY <1>2, <2>1 DEF SetSessionActive, Typed
    <2>3. Signal("Activated") \in Entry /\ WakesGoalManager(Signal("Activated"), FALSE)
      BY Records, WakeKinds DEF EntryKinds
    <2> QED
      BY <2>2, <2>3, SignalledByOne
  <1>3. CASE StoreInit
    BY <1>3 DEF StoreInit, LogAuthoritative
  <1> QED
    BY <1>1, <1>2, <1>3
    DEF Next, vars, UserStep, UserInput, UpdateGoal, SetUnitActive, AgentStep, AgentMessage,
        DeclareOutcome, DeclareWaiting, ReturnStep, Discard, CommitUndecided, CommitWaiting,
        CommitIncomplete, CommitComplete, CommitWorker, CommitError, DispatchStep, Acquire,
        ChoosePaused, NothingToDispatch, ClockStep, LeaseAges, DeadlinePasses, RestartStep,
        Crash, RecoverRuns

-----------------------------------------------------------------------------
(***************************************************************************)
(* Input deferred to a running Worker.                                     *)
(***************************************************************************)
(* Whoever still has to read deferred input is there, also while the goal  *)
(* is not to be worked on.                                                 *)
DeferredInputCovered ==
  \A s \in Sessions : active[s] =>
    \A n \in (cursor[s][GM] + 1)..Len(log[s]) : log[s][n].kind = "DeferredInput" =>
      (\E i \in WorkerRuns(s) : runs[i].to < n) \/ Wakes(log[s], n)

(* A Session without a goal has no deferred input. *)
NoInputWithoutGoal ==
  \A s \in Sessions : goal[s].state = "none" =>
    \A n \in DOMAIN log[s] : log[s][n].kind # "DeferredInput"

LEMMA NoInputWithoutGoalStep ==
  ASSUME Typed, LogAuthoritative, NoInputWithoutGoal, [Next]_vars PROVE NoInputWithoutGoal'
  <1> SUFFICES ASSUME NEW s \in Sessions, goal'[s].state = "none", NEW n \in DOMAIN log'[s]
               PROVE  log'[s][n].kind # "DeferredInput"
    BY DEF NoInputWithoutGoal
  <1>1. goal[s].state = "none"
    BY GoalStep
  <1>2. CASE n \in 1..Len(log[s])
    BY <1>1, <1>2, LogGrowth DEF NoInputWithoutGoal
  <1>3. CASE n \in (Len(log[s]) + 1)..Len(log'[s])
    BY <1>3, LogGrowth DEF News, NewEntry
  <1> QED
    BY <1>2, <1>3, LogGrowth

(* A wake-up stays in the log, and one that a step writes is behind        *)
(* everything a role had read.                                             *)
LEMMA WakesStay ==
  ASSUME Typed, LogAuthoritative, [Next]_vars, NEW s \in Sessions, NEW k \in Nat
  PROVE  /\ Wakes(log[s], k) => Wakes(log'[s], k)
         /\ Asks(log[s], k) => Asks(log'[s], k)
         /\ Signalled(s) /\ k <= Len(log[s]) => Wakes(log'[s], k)
  <1>1. /\ Len(log[s]) \in Nat /\ Len(log'[s]) \in Nat /\ Len(log[s]) <= Len(log'[s])
        /\ \A n \in 1..Len(log[s]) : log'[s][n] = log[s][n]
    BY LogGrowth
  <1>2. \A n \in (k + 1)..Len(log[s]) :
          n \in (k + 1)..Len(log'[s]) /\ log'[s][n] = log[s][n]
    BY <1>1
  <1>3. k <= Len(log[s]) => \A n \in (Len(log[s]) + 1)..Len(log'[s]) : n \in (k + 1)..Len(log'[s])
    BY <1>1
  <1> QED
    BY <1>2, <1>3 DEF Wakes, Asks, Signalled

LEMMA DeferredInputCoveredStep ==
  ASSUME TypeOK, LogAuthoritative, InputsUnbound, CompleteMeansReviewed, NoInputWithoutGoal,
         DeferredInputCovered, [Next]_vars
  PROVE  DeferredInputCovered'
  <1>0. Typed /\ WindowsInLog
    BY DEF TypeOK
  <1> SUFFICES ASSUME NEW s \in Sessions, active'[s],
                      NEW n \in (cursor'[s][GM] + 1)..Len(log'[s]),
                      log'[s][n].kind = "DeferredInput"
               PROVE  (\E i \in WorkerRuns(s)' : runs'[i].to < n) \/ Wakes(log'[s], n)
    BY DEF DeferredInputCovered
  <1>1. /\ Len(log[s]) \in Nat /\ Len(log'[s]) \in Nat /\ Len(log[s]) <= Len(log'[s])
        /\ cursor[s][GM] \in Nat /\ cursor'[s][GM] \in Nat /\ cursor[s][GM] <= cursor'[s][GM]
        /\ goal[s] \in Goal
    BY <1>0, LogGrowth, CursorGrowth DEF Typed
  <1>2. n \in Nat /\ n > cursor[s][GM] /\ n \in 1..Len(log'[s])
    BY <1>1
  <1>3. CASE n \in 1..Len(log[s])
    <2>1. log[s][n].kind = "DeferredInput" /\ n \in (cursor[s][GM] + 1)..Len(log[s])
          /\ n <= Len(log[s]) /\ n \in DOMAIN log[s]
      BY <1>0, <1>1, <1>2, <1>3, LogGrowth
    <2>2. CASE Signalled(s)
      BY <1>0, <1>2, <2>1, <2>2, WakesStay
    <2>3. CASE ~Signalled(s)
      <3>1. active[s]
        BY <1>0, <2>3, FlagRaised
      <3>2. CASE Wakes(log[s], n)
        BY <1>0, <1>2, <3>2, WakesStay
      <3>3. ASSUME NEW i \in WorkerRuns(s), runs[i].to < n
            PROVE  \E j \in WorkerRuns(s)' : runs'[j].to < n
        <4>1. /\ i \in DOMAIN runs /\ runs[i].session = s /\ runs[i].role = Worker
              /\ runs[i].lease = "acquired" /\ runs[i].to \in Nat
          BY <1>0, RunTyped DEF WorkerRuns, Run
        <4>2. ~CommitWorker(i)
          <5>1. SUFFICES ASSUME ~Fenced(i) PROVE FALSE
            BY DEF CommitWorker, Commit
          <5>2. n <= runs[i].to
            BY <1>0, <2>1, <4>1, <5>1, FencedRequirements DEF Requirements
          <5> QED
            BY <1>2, <3>3, <4>1, <5>2
        <4>3. ~CommitWaiting(i) /\ ~CommitIncomplete(i) /\ ~CommitComplete(i)
          BY <4>1 DEF CommitWaiting, CommitIncomplete, CommitComplete, Commit
        <4>4. Dispatchable(s, goal[s])
          <5>1. goal[s].state # "none"
            BY <2>1 DEF NoInputWithoutGoal
          <5>2. goal[s].state # "complete"
            BY <1>1, <1>2, <2>1 DEF CompleteMeansReviewed, Requirements
          <5> QED
            BY <1>1, <3>1, <5>1, <5>2 DEF Dispatchable, Goal
        <4>5. runs'[i].lease = "acquired"
          BY <1>0, <2>3, <4>1, <4>2, <4>3, <4>4, LeaseEnds
        <4>6. Kept(i) /\ i \in DOMAIN runs'
          BY <1>0, <4>1, RunsKept, LeaseAdded DEF AcquireStep, NoNewRun
        <4>7. i \in WorkerRuns(s)' /\ runs'[i].to < n
          BY <3>3, <4>1, <4>5, <4>6 DEF Kept, WorkerRuns
        <4> QED
          BY <4>7
      <3> QED
        BY <2>1, <3>1, <3>2, <3>3 DEF DeferredInputCovered
    <2> QED
      BY <2>2, <2>3
  <1>4. CASE n \in (Len(log[s]) + 1)..Len(log'[s])
    <2>1. WorkerRuns(s) # {} /\ UNCHANGED runs
      BY <1>0, <1>4, LogGrowth DEF News, NewEntry
    <2>2. PICK i \in WorkerRuns(s) : TRUE
      BY <2>1
    <2>3. i \in DOMAIN runs /\ runs[i].session = s /\ runs[i].to \in Nat
      BY <1>0, RunTyped DEF WorkerRuns, Run
    <2>4. runs[i].to <= Len(log[s])
      BY <1>0, <2>3 DEF WindowsInLog
    <2>5. i \in WorkerRuns(s)' /\ runs'[i].to < n
      BY <1>1, <1>4, <2>1, <2>2, <2>3, <2>4 DEF WorkerRuns
    <2> QED
      BY <2>5
  <1> QED
    BY <1>0, <1>2, <1>3, <1>4, LogGrowth

(* Input that met a running Worker is never lost on GoalManager: however   *)
(* that run ends (reported, fenced, expired, interrupted by a restart), a  *)
(* wake-up follows the input, or GoalManager has read it                   *)
(* (append_user_input, _session_has_newer_goal_requirement).               *)
THEOREM DeferredInputIsReviewed == Spec => []DeferredInputReachesGoalManager
  <1> DEFINE IInv == InputsUnbound /\ CompleteMeansReviewed /\ NoInputWithoutGoal
                       /\ DeferredInputCovered
  <1>1. Init => IInv
    <2> SUFFICES ASSUME Init, NEW s \in Sessions
                 PROVE  /\ \A n \in DOMAIN log[s] :
                             log[s][n].kind \notin {"UserInput", "DeferredInput"}
                        /\ \A n \in (cursor[s][GM] + 1)..Len(log[s]) : n \in DOMAIN log[s]
                        /\ goal[s].state # "complete"
      BY DEF InputsUnbound, CompleteMeansReviewed, NoInputWithoutGoal, DeferredInputCovered
    <2>1. goal[s].state # "complete" /\ cursor[s][GM] = 0
      BY DEF Init
    <2>2. log[s] = <<>> \/ log[s] = <<Signal("BecameIncomplete")>>
      BY DEF Init
    <2> QED
      BY <2>1, <2>2 DEF Signal, Record
  <1>2. TypeOK /\ LogAuthoritative /\ [Next]_vars /\ IInv => IInv'
    BY InputsUnboundStep, ReviewedStep, NoInputWithoutGoalStep, DeferredInputCoveredStep DEF TypeOK
  <1>3. IInv => DeferredInputReachesGoalManager
    BY DEF DeferredInputCovered, DeferredInputReachesGoalManager, Dispatchable, Wakes
  <1> QED
    BY <1>1, <1>2, <1>3, TypeCorrect, ReplayReproducesState, PTL DEF Spec

-----------------------------------------------------------------------------
(***************************************************************************)
(* What the readiness entries of a Session promise: one entry per role, an *)
(* offer only to an idle role, work for a Worker only when an unread entry *)
(* asks for it, and never a window the role has read past.                 *)
(***************************************************************************)
EntriesSound(s, es, rs, l) ==
  /\ \A e, f \in es : e.role = f.role => e = f
  /\ \A e \in es : e.holder = NoRun => ~HasAcquiredRun(rs, s, e.role)
  /\ \A e \in es : e.role = Worker => Asks(l, cursor[s][Worker])
  /\ \A e \in es : cursor[s][e.role] <= e.to

ReadinessSound == \A s \in Sessions : EntriesSound(s, ready[s], runs, log[s])

(* Fewer entries, fewer leases and a longer log promise no more. *)
LEMMA SoundWithLess ==
  ASSUME NEW s, NEW es, NEW rs, NEW l, EntriesSound(s, es, rs, l),
         NEW fs \in SUBSET es, NEW qs, NEW k,
         \A r \in Roles : HasAcquiredRun(qs, s, r) => HasAcquiredRun(rs, s, r),
         \A e \in es : e.role \in Roles,
         Asks(l, cursor[s][Worker]) => Asks(k, cursor[s][Worker])
  PROVE  EntriesSound(s, fs, qs, k)
  BY DEF EntriesSound

LEMMA AsksOn ==
  ASSUME NEW l \in Seq(Entry), NEW k \in Nat, Asks(l, k)
  PROVE  Asks(Append(l, Signal("SignalGM")), k)
  <1> DEFINE e == Signal("SignalGM")
  <1>1. e \in Entry
    BY Records DEF EntryKinds, Signals
  <1> HIDE DEF e
  <1>2. /\ Len(l) \in Nat /\ Len(Append(l, e)) = Len(l) + 1
        /\ \A n \in 1..Len(l) : Append(l, e)[n] = l[n]
    BY <1>1, OneMore
  <1>3. PICK n \in (k + 1)..Len(l) : WakesWorker(l[n])
    BY DEF Asks
  <1>4. n \in (k + 1)..Len(Append(l, e)) /\ Append(l, e)[n] = l[n]
    BY <1>2, <1>3
  <1>5. Asks(Append(l, e), k)
    BY <1>3, <1>4 DEF Asks
  <1> QED
    BY <1>5 DEF e

(* A refresh keeps the promises: an idle role loses its old entry and is   *)
(* offered what is unread, and only if something there wakes it.           *)
LEMMA RefreshSound ==
  ASSUME NEW s \in Sessions, cursor[s] \in [Roles -> Nat], NEW rs, NEW g, NEW l \in Seq(Entry),
         \A r \in Roles : cursor[s][r] <= Len(l),
         NEW es \in SUBSET Readiness, EntriesSound(s, es, rs, l)
  PROVE  EntriesSound(s, RefreshedEntries(s, rs, g, l, es), rs, l)
  <1> DEFINE fs == {e \in es : RoleBusy(s, e.role, rs, es)}
             I == {q \in Roles : ~RoleBusy(s, q, rs, es) /\ WakeReasons(s, q, rs, l) # {}}
             os == {Offer(s, r, rs, l) : r \in I}
  <1> SUFFICES EntriesSound(s, fs \cup os, rs, l)
    BY DEF RefreshedEntries, DerivedEntries
  <1>1. \A r \in Roles : /\ Offer(s, r, rs, l).role = r /\ Offer(s, r, rs, l).holder = NoRun
                         /\ Offer(s, r, rs, l).to = Len(l)
    BY DEF Offer
  <1>2. /\ \A e, f \in es : e.role = f.role => e = f
        /\ \A e \in es : e.holder = NoRun => ~HasAcquiredRun(rs, s, e.role)
        /\ \A e \in es : e.role = Worker => Asks(l, cursor[s][Worker])
        /\ \A e \in es : cursor[s][e.role] <= e.to
    BY DEF EntriesSound
  <1>3. \A e \in os : \E r \in I : e = Offer(s, r, rs, l)
    OBVIOUS
  <1>4. \A e \in os : e.role \in I /\ e = Offer(s, e.role, rs, l)
    BY <1>1, <1>3
  <1>5. \A e \in fs : e \in es /\ RoleBusy(s, e.role, rs, es)
    OBVIOUS
  <1>6. Worker \in I => Asks(l, cursor[s][Worker])
    <2>1. Worker # GM
      OBVIOUS
    <2> QED
      BY <2>1 DEF WakeReasons, Asks
  <1>7. \A r \in I : r \in Roles /\ ~RoleBusy(s, r, rs, es) /\ ~HasAcquiredRun(rs, s, r)
    BY DEF RoleBusy
  <1> HIDE DEF fs, os, I
  <1>8. ASSUME NEW e \in fs \cup os, NEW f \in fs \cup os, e.role = f.role PROVE e = f
    BY <1>2, <1>4, <1>5, <1>7, <1>8
  <1>9. ASSUME NEW e \in fs \cup os
        PROVE  /\ e.holder = NoRun => ~HasAcquiredRun(rs, s, e.role)
               /\ e.role = Worker => Asks(l, cursor[s][Worker])
               /\ cursor[s][e.role] <= e.to
    <2>1. CASE e \in fs
      BY <1>2, <1>5, <2>1
    <2>2. CASE e \in os
      <3>1. e.role \in I /\ e.role \in Roles /\ e.to = Len(l)
        BY <1>1, <1>4, <1>7, <2>2
      <3> QED
        BY <1>6, <1>7, <3>1
    <2> QED
      BY <2>1, <2>2
  <1> QED
    BY <1>8, <1>9 DEF EntriesSound

(* So does the whole reconciliation. *)
LEMMA ReconciliationSound ==
  ASSUME TypeOK, NEW s \in Sessions, EntriesSound(s, ready[s], runs, log[s])
  PROVE  EntriesSound(s, ReadyR(s), RunsR, LogR(s))
  <1> DEFINE c == cursor[s][Worker]
             es == ready[s] \ Orphans(s)
  <1>0. /\ Typed /\ ready[s] \in SUBSET Readiness /\ log[s] \in Seq(Entry)
        /\ cursor[s] \in [Roles -> Nat] /\ c \in Nat
        /\ \A r \in Roles : cursor[s][r] <= Len(log[s])
    BY DEF TypeOK, Typed, WindowsInLog
  <1>1. \A r : HasAcquiredRun(RunsR, s, r) => HasAcquiredRun(runs, s, r)
    BY <1>0, ReconciledRuns DEF HasAcquiredRun
  <1>2. /\ Signal("SignalGM") \in Entry
        /\ \A e \in Readiness : e.role \in Roles
    BY Records DEF EntryKinds, Signals, Readiness
  <1>3. \A k \in Seq(Entry) : /\ Append(k, Signal("SignalGM")) \in Seq(Entry)
                              /\ Len(k) \in Nat
                              /\ Len(Append(k, Signal("SignalGM"))) = Len(k) + 1
                              /\ Asks(k, c) => Asks(Append(k, Signal("SignalGM")), c)
    BY <1>0, <1>2, OneMore, AsksOn
  <1> HIDE DEF c
  <1>4. /\ RepairedLog(s) \in Seq(Entry) /\ Len(log[s]) <= Len(RepairedLog(s))
        /\ Asks(log[s], c) => Asks(RepairedLog(s), c)
    BY <1>0, <1>3 DEF RepairedLog
  <1>5. /\ RefreshedLog(s) \in Seq(Entry) /\ Len(RepairedLog(s)) <= Len(RefreshedLog(s))
        /\ Asks(RepairedLog(s), c) => Asks(RefreshedLog(s), c)
    BY <1>3, <1>4 DEF RefreshedLog, WokenLog
  <1>6. /\ LogR(s) \in Seq(Entry) /\ Len(RefreshedLog(s)) <= Len(LogR(s))
        /\ Asks(RefreshedLog(s), c) => Asks(LogR(s), c)
    BY <1>3, <1>5 DEF LogR
  <1>7. /\ \A r \in Roles : cursor[s][r] <= Len(RefreshedLog(s))
        /\ \A r \in Roles : cursor[s][r] <= Len(LogR(s))
    <2>1. /\ Len(log[s]) \in Nat /\ Len(RepairedLog(s)) \in Nat
          /\ Len(RefreshedLog(s)) \in Nat /\ Len(LogR(s)) \in Nat
      BY <1>0, <1>3, <1>4, <1>5, <1>6
    <2> QED
      BY <1>0, <1>4, <1>5, <1>6, <2>1
  <1>8. es \in SUBSET ready[s] /\ es \in SUBSET Readiness
    BY <1>0
  <1> HIDE DEF es
  <1>9. EntriesSound(s, es, RunsR, RefreshedLog(s))
    BY <1>0, <1>1, <1>2, <1>4, <1>5, <1>8, SoundWithLess DEF c
  <1>10. EntriesSound(s, RefreshedReady(s), RunsR, RefreshedLog(s))
    BY <1>0, <1>5, <1>7, <1>8, <1>9, RefreshSound DEF RefreshedReady, es
  <1>11. RefreshedReady(s) \in SUBSET Readiness
    BY <1>5, <1>8, RefreshedTypes DEF RefreshedReady, es
  <1>12. EntriesSound(s, RefreshedReady(s), RunsR, LogR(s))
    BY <1>2, <1>6, <1>10, <1>11, SoundWithLess DEF c
  <1> DEFINE ds == RefreshedEntries(s, RunsR, GoalR(s), LogR(s), RefreshedReady(s))
  <1>13. EntriesSound(s, ds, RunsR, LogR(s))
    BY <1>0, <1>6, <1>7, <1>11, <1>12, RefreshSound
  <1>14. ds \in SUBSET Readiness /\ ReadyR(s) \in SUBSET ds
    BY <1>6, <1>11, RefreshedTypes DEF ReadyR
  <1> HIDE DEF ds
  <1> QED
    BY <1>2, <1>13, <1>14, SoundWithLess

(* A cursor moves when a run that held the lease returns, and then no run  *)
(* of that role has one.                                                   *)
LEMMA CursorLease ==
  ASSUME Typed, OneRunPerRole, [Next]_vars, NEW s \in Sessions, NEW r \in Roles,
         cursor'[s][r] # cursor[s][r]
  PROVE  \E i \in DOMAIN runs :
           /\ ReturnStep(i) /\ runs[i].session = s /\ runs[i].role = r
           /\ runs[i].lease = "acquired" /\ runs'[i].lease # "acquired"
           /\ ~HasAcquiredRun(runs', s, r)
           /\ cursor'[s][r] = Larger(cursor[s][r], runs[i].to)
  <1>1. ~UNCHANGED cursor
    OBVIOUS
  <1>2. PICK i \in DOMAIN runs : ReturnStep(i)
    BY <1>1 DEF Next, vars, UserStep, UserInput, UpdateGoal, SetSessionActive, SetUnitActive,
                AgentStep, AgentMessage, DeclareOutcome, DeclareWaiting, DispatchStep, Acquire,
                ChoosePaused, NothingToDispatch, ClockStep, LeaseAges, DeadlinePasses,
                RestartStep, Crash, StoreInit, RecoverRuns
  <1>3. WindowRead(i) /\ Released(i) /\ runs[i].lease = "acquired"
    BY <1>1, <1>2 DEF ReturnStep, Discard, CursorIfHeld, CommitUndecided, CommitWaiting,
                      CommitIncomplete, CommitComplete, CommitWorker, CommitError, Commit, Fenced
  <1>4. runs[i].session = s /\ runs[i].role = r
    BY <1>3, CursorAfter
  <1>5. cursor'[s][r] = Larger(cursor[s][r], runs[i].to)
    BY <1>3, <1>4, CursorAfter
  <1>6. /\ DOMAIN runs' = DOMAIN runs /\ runs'[i].lease = "released"
        /\ \A j \in DOMAIN runs \ {i} : runs'[j] = runs[j]
    BY <1>3, RunReturns
  <1>7. ~HasAcquiredRun(runs', s, r)
    BY <1>3, <1>4, <1>6 DEF HasAcquiredRun, OneRunPerRole
  <1> QED
    BY <1>2, <1>3, <1>4, <1>5, <1>6, <1>7

(* A run that returns with its lease leaves no readiness of its role.      *)
LEMMA NoEntryLeft ==
  ASSUME Typed, OneRunPerRole, ReadinessOwned, ReadinessSound,
         NEW i \in DOMAIN runs, ReturnStep(i), runs[i].lease = "acquired"
  PROVE  /\ \A e \in ready'[runs[i].session] : e.role # runs[i].role
         /\ \A s \in Sessions : ready'[s] \subseteq ready[s]
  <1> DEFINE s == runs[i].session
  <1>0. /\ s \in Sessions /\ ready \in [Sessions -> SUBSET Readiness]
        /\ HasAcquiredRun(runs, s, runs[i].role) /\ i # NoRun
    BY RunTyped, RunIds DEF Typed, HasAcquiredRun
  <1>1. \A e \in ready[s] : e.role = runs[i].role => e.holder = i
    <2> SUFFICES ASSUME NEW e \in ready[s], e.role = runs[i].role PROVE e.holder = i
      OBVIOUS
    <2>1. e.holder # NoRun
      BY <1>0 DEF ReadinessSound, EntriesSound
    <2>2. /\ e.holder \in DOMAIN runs /\ runs[e.holder].lease = "acquired"
          /\ runs[e.holder].session = s /\ runs[e.holder].role = e.role
      BY <1>0, <2>1 DEF ReadinessOwned
    <2> QED
      BY <2>2 DEF OneRunPerRole
  <1>2. CASE CommitComplete(i)
    BY <1>0, <1>2 DEF CommitComplete
  <1>3. CASE EntriesResolved(s, EntriesOf(i))
    BY <1>0, <1>1, <1>3 DEF EntriesResolved, EntriesOf
  <1>4. CASE EntriesResolved(s, ReviewEntries(s)) /\ runs[i].role = GM
    BY <1>0, <1>4 DEF EntriesResolved, ReviewEntries
  <1> QED
    BY <1>2, <1>3, <1>4 DEF ReturnStep, Discard, CommitUndecided, CommitWaiting, CommitIncomplete,
                            CommitWorker, CommitError, Commit

LEMMA NextCases ==
  ASSUME Typed, [Next]_vars
  PROVE  \/ LeasesKept /\ UNCHANGED <<ready, cursor>>
         \/ \E i \in DOMAIN runs : ReturnStep(i)
         \/ \E s \in Sessions, r \in Roles : Acquire(s, r)
         \/ NothingToDispatch \/ StoreInit \/ RecoverRuns
  <1>1. CASE UserStep \/ (\E j \in DOMAIN runs : AgentStep(j)) \/ ClockStep
             \/ \E D \in SUBSET DOMAIN runs : Crash(D)
    <2>1. UNCHANGED <<ready, cursor>>
      BY <1>1 DEF UserStep, UserInput, UpdateGoal, SetSessionActive, SetUnitActive,
                  AgentStep, AgentMessage, DeclareOutcome, DeclareWaiting, ClockStep, LeaseAges,
                  DeadlinePasses, Crash
    <2> QED
      BY <1>1, <2>1, LeasesKeptStep
  <1>2. CASE UNCHANGED vars
    BY <1>2, RunsUntouched DEF vars
  <1> QED
    BY <1>1, <1>2, RunsUntouched DEF Next, DispatchStep, ChoosePaused, RestartStep, vars

LEMMA ReadinessSoundStep ==
  ASSUME TypeOK, LogAuthoritative, OneRunPerRole, ReadinessOwned, ReadinessSound, [Next]_vars
  PROVE  ReadinessSound'
  <1>0. Typed
    BY DEF TypeOK
  <1> SUFFICES ASSUME NEW s \in Sessions
               PROVE  EntriesSound(s, ready[s], runs, log[s])'
    BY DEF ReadinessSound
  <1>1. /\ EntriesSound(s, ready[s], runs, log[s]) /\ cursor[s] \in [Roles -> Nat]
        /\ ready[s] \in SUBSET Readiness /\ log[s] \in Seq(Entry)
        /\ \A r \in Roles : cursor[s][r] <= Len(log[s])
        /\ \A e \in Readiness : e.role \in Roles
        /\ ready \in [Sessions -> SUBSET Readiness]
    BY <1>0 DEF ReadinessSound, TypeOK, Typed, WindowsInLog, Readiness
  <1>2. Asks(log[s], cursor[s][Worker]) => Asks(log'[s], cursor[s][Worker])
    BY <1>0, <1>1, WakesStay
  <1>3. ASSUME ready'[s] \subseteq ready[s], NoNewRun,
               \A e \in ready'[s] : cursor'[s][e.role] = cursor[s][e.role]
        PROVE  EntriesSound(s, ready[s], runs, log[s])'
    <2>1. \A r \in Roles : HasAcquiredRun(runs', s, r) => HasAcquiredRun(runs, s, r)
      BY <1>3 DEF NoNewRun, Kept, HasAcquiredRun
    <2>2. EntriesSound(s, ready'[s], runs', log'[s])
      BY <1>1, <1>2, <1>3, <2>1, SoundWithLess
    <2> QED
      BY <1>3, <2>2 DEF EntriesSound
  <1>4. ASSUME UNCHANGED cursor, EntriesSound(s, ready'[s], runs', log'[s])
        PROVE  EntriesSound(s, ready[s], runs, log[s])'
    BY <1>4 DEF EntriesSound
  <1>5. CASE LeasesKept /\ UNCHANGED <<ready, cursor>>
    BY <1>3, <1>5 DEF LeasesKept, NoNewRun
  <1>6. ASSUME NEW i \in DOMAIN runs, ReturnStep(i) PROVE EntriesSound(s, ready[s], runs, log[s])'
    <2>1. NoNewRun
      <3>1. Released(i) \/ runs' = [runs EXCEPT ![i] = Ended(@)]
        BY <1>6 DEF ReturnStep, Discard, Commit, CommitUndecided, CommitWaiting, CommitIncomplete,
                    CommitComplete, CommitWorker, CommitError
      <3> QED
        BY <1>0, <3>1, RunReturns DEF NoNewRun, Kept
    <2>2. CASE runs[i].lease = "acquired"
      <3>1. /\ \A e \in ready'[runs[i].session] : e.role # runs[i].role
            /\ ready'[s] \subseteq ready[s]
        BY <1>0, <1>6, <2>2, NoEntryLeft
      <3>2. UNCHANGED cursor \/ WindowRead(i)
        BY <1>6 DEF ReturnStep, Discard, CursorIfHeld, CommitUndecided, CommitWaiting,
                    CommitIncomplete, CommitComplete, CommitWorker, CommitError, Commit
      <3>3. \A r \in Roles : s # runs[i].session \/ r # runs[i].role => cursor'[s][r] = cursor[s][r]
        BY <1>0, <3>2, CursorAfter
      <3>4. \A e \in ready'[s] : cursor'[s][e.role] = cursor[s][e.role]
        BY <1>1, <3>1, <3>3
      <3> QED
        BY <1>3, <2>1, <3>1, <3>4
    <2>3. CASE runs[i].lease # "acquired"
      <3>1. Discard(i)
        BY <1>6, <2>3 DEF ReturnStep, CommitUndecided, CommitWaiting, CommitIncomplete,
                          CommitComplete, CommitWorker, CommitError, Commit, Fenced
      <3>2. UNCHANGED cursor /\ ready'[s] \subseteq ready[s]
        BY <1>1, <2>3, <3>1 DEF Discard, CursorIfHeld, EntriesResolved
      <3> QED
        BY <1>3, <2>1, <3>2
    <2> QED
      BY <2>2, <2>3
  <1>7. ASSUME NEW t \in Sessions, NEW r \in Roles, Acquire(t, r)
        PROVE  EntriesSound(s, ready[s], runs, log[s])'
    <2>1. PICK e \in Candidates(t) :
            /\ DOMAIN runs' = DOMAIN runs \cup {Len(runs) + 1} /\ Len(runs) + 1 \notin DOMAIN runs
            /\ runs'[Len(runs) + 1] = NewRun(t, e)
            /\ \A i \in DOMAIN runs : Kept(i) /\ runs'[i] = RunsR[i]
            /\ ready' = [q \in Sessions |->
                 IF q = t THEN (ReadyR(t) \ {e}) \cup {[e EXCEPT !.holder = Len(runs) + 1]}
                          ELSE ReadyR(q)]
      BY <1>0, <1>7, LeaseAdded
    <2>2. EntriesSound(s, ReadyR(s), RunsR, LogR(s)) /\ log'[s] = LogR(s) /\ UNCHANGED cursor
      BY <1>1, <1>7, ReconciliationSound DEF Acquire
    <2>3. DOMAIN RunsR = DOMAIN runs
      BY <1>0, ReconciledRuns
    <2>4. \A q \in Roles : HasAcquiredRun(runs', s, q) =>
            HasAcquiredRun(RunsR, s, q) \/ (s = t /\ q = e.role)
      BY <2>1, <2>3 DEF HasAcquiredRun, NewRun
    <2>5. ReadyR(s) \in SUBSET Readiness
      BY <1>0, ReconciledSession
    <2>6. CASE s # t
      <3>1. EntriesSound(s, ready'[s], runs', log'[s])
        BY <1>1, <2>1, <2>2, <2>4, <2>5, <2>6, SoundWithLess
      <3> QED
        BY <1>4, <2>2, <3>1
    <2>7. CASE s = t
      <3> DEFINE h == [e EXCEPT !.holder = Len(runs) + 1]
      <3>1. e \in ReadyR(s) /\ e \in Readiness
        BY <2>1, <2>5, <2>7 DEF Candidates
      <3>2. h.role = e.role /\ h.to = e.to /\ h.holder # NoRun
        <4>1. Len(runs) \in Nat
          BY <1>0, RunIds
        <4> QED
          BY <3>1, <4>1 DEF Readiness
      <3> HIDE DEF h
      <3>3. ready'[s] = (ReadyR(s) \ {e}) \cup {h}
        BY <2>1, <2>7 DEF h
      <3>4. \A f \in ReadyR(s) \ {e} : f.role # e.role /\ f.role \in Roles
        BY <1>1, <2>2, <2>5, <3>1 DEF EntriesSound
      <3>5. EntriesSound(s, ready'[s], runs', log'[s])
        BY <2>2, <2>4, <3>1, <3>2, <3>3, <3>4 DEF EntriesSound
      <3> QED
        BY <1>4, <2>2, <3>5
    <2> QED
      BY <2>6, <2>7
  <1>8. CASE NothingToDispatch
    <2>1. EntriesSound(s, ready'[s], runs', log'[s]) /\ UNCHANGED cursor
      BY <1>1, <1>8, ReconciliationSound DEF NothingToDispatch
    <2> QED
      BY <1>4, <2>1
  <1>9. CASE StoreInit
    <2> DEFINE g == WokenGoal(s, [goal[s] EXCEPT !.state = ReplayedState(s)], log[s])
    <2>1. /\ ready'[s] = RefreshedEntries(s, runs, g, log'[s], ready[s])
          /\ UNCHANGED <<cursor, runs>>
      BY <1>9 DEF StoreInit
    <2> HIDE DEF g
    <2>2. log'[s] \in Seq(Entry) /\ \A r \in Roles : cursor[s][r] <= Len(log'[s])
      BY TypeOKInductive, <2>1 DEF TypeOK, Typed, WindowsInLog
    <2>3. EntriesSound(s, ready[s], runs, log'[s])
      BY <1>1, <1>2, SoundWithLess
    <2>4. EntriesSound(s, ready'[s], runs', log'[s])
      BY <1>1, <2>1, <2>2, <2>3, RefreshSound
    <2> QED
      BY <1>4, <2>1, <2>4
  <1>10. CASE RecoverRuns
    <2>1. ready'[s] = RecoveredEntries(s) /\ UNCHANGED cursor
      BY <1>10 DEF RecoverRuns
    <2>2. \A r : ~HasAcquiredRun(runs', s, r)
      <3>1. DOMAIN runs' = DOMAIN runs /\ \A i \in DOMAIN runs : runs'[i].lease # "acquired"
        BY <1>0, <1>10, RunTyped DEF RecoverRuns, Run
      <3> QED
        BY <3>1 DEF HasAcquiredRun
    <2>3. \A e \in ready'[s] : \E f \in ready[s] :
            /\ f.role = e.role /\ f.to = e.to
            /\ e = f \/ e = [f EXCEPT !.holder = NoRun]
      BY <1>1, <2>1 DEF RecoveredEntries, Readiness
    <2>4. \A e \in ready'[s] : e.holder = NoRun
      BY <1>1, <2>1 DEF RecoveredEntries, Readiness
    <2>5. \A e \in ready'[s] : \E f \in ready[s] :
            f.role = e.role /\ f.to = e.to /\ e = [f EXCEPT !.holder = NoRun]
      <3>1. \A f \in Readiness : f.holder = NoRun => f = [f EXCEPT !.holder = NoRun]
        BY DEF Readiness
      <3> QED
        BY <1>1, <2>3, <2>4, <3>1
    <2>6. EntriesSound(s, ready'[s], runs', log'[s])
      BY <1>1, <1>2, <2>2, <2>5 DEF EntriesSound
    <2> QED
      BY <1>4, <2>1, <2>6
  <1> QED
    BY <1>0, <1>5, <1>6, <1>7, <1>8, <1>9, <1>10, NextCases

-----------------------------------------------------------------------------
(***************************************************************************)
(* What runs have written, and who still has to read it.                   *)
(***************************************************************************)
(* A declared wait is one: it waits for something. *)
WaitsDeclared ==
  \A i \in DOMAIN runs : runs[i].declared = "waiting" => runs[i].wait # NoWait

LEMMA WaitsDeclaredStep ==
  ASSUME Typed, WaitsDeclared, [Next]_vars PROVE WaitsDeclared'
  <1>0. runs \in Seq(Run) /\ \A i \in DOMAIN runs : runs[i] \in Run
    BY RunTyped DEF Typed
  <1>1. \A run \in Run : /\ Ended(run).declared = "none" /\ Ended(run).wait = NoWait
                         /\ [Ended(run) EXCEPT !.lease = "released"].declared = "none"
    BY DEF Ended, Run
  <1>2. CASE UNCHANGED runs
    BY <1>2 DEF WaitsDeclared
  <1>3. ASSUME NEW i \in DOMAIN runs, AgentStep(i) PROVE WaitsDeclared'
    <2>1. ASSUME NEW state \in {"complete", "incomplete"}, DeclareOutcome(i, state)
          PROVE  WaitsDeclared'
      <3>1. runs' = [runs EXCEPT ![i].declared = state]
        BY <2>1 DEF DeclareOutcome
      <3>2. \A j \in DOMAIN runs : /\ j # i => runs'[j] = runs[j]
                                   /\ runs'[i].declared = state
        BY <1>0, <3>1 DEF Run
      <3> QED
        BY <1>0, <3>1, <3>2 DEF WaitsDeclared
    <2>2. ASSUME NEW kind \in WaitKinds, NEW child \in {"none"} \cup Sessions,
                 DeclareWaiting(i, kind, child)
          PROVE  WaitsDeclared'
      <3>1. /\ DOMAIN runs' = DOMAIN runs
            /\ runs'[i].wait.kind = kind
            /\ \A j \in DOMAIN runs : j # i => runs'[j] = runs[j]
        BY <1>0, <2>2 DEF DeclareWaiting, Run
      <3>2. kind # "none" /\ NoWait.kind = "none"
        BY DataAssumption DEF NoWait
      <3> QED
        BY <3>1, <3>2 DEF WaitsDeclared
    <2> QED
      BY <1>2, <1>3, <2>1, <2>2 DEF AgentStep, AgentMessage
  <1>4. ASSUME NEW i \in DOMAIN runs, ReturnStep(i) PROVE WaitsDeclared'
    <2>1. Released(i) \/ runs' = [runs EXCEPT ![i] = Ended(@)]
      BY <1>4 DEF ReturnStep, Discard, Commit, CommitUndecided, CommitWaiting, CommitIncomplete,
                  CommitComplete, CommitWorker, CommitError
    <2>2. /\ DOMAIN runs' = DOMAIN runs /\ runs'[i].declared = "none"
          /\ \A j \in DOMAIN runs : j # i => runs'[j] = runs[j]
      BY <1>0, <1>1, <2>1 DEF Released
    <2> QED
      BY <2>2 DEF WaitsDeclared
  <1>5. /\ DOMAIN RunsR = DOMAIN runs
        /\ \A i \in DOMAIN runs : /\ RunsR[i].declared = runs[i].declared
                                  /\ RunsR[i].wait = runs[i].wait
    BY <1>0 DEF RunsR, Run
  <1>6. ASSUME NEW s \in Sessions, NEW r \in Roles, Acquire(s, r) PROVE WaitsDeclared'
    <2>1. PICK e : /\ DOMAIN runs' = DOMAIN runs \cup {Len(runs) + 1}
                   /\ runs'[Len(runs) + 1] = NewRun(s, e)
                   /\ \A i \in DOMAIN runs : runs'[i] = RunsR[i]
      BY <1>6, LeaseAdded
    <2> QED
      BY <1>5, <2>1 DEF WaitsDeclared, NewRun
  <1>7. CASE NothingToDispatch
    BY <1>5, <1>7 DEF NothingToDispatch, WaitsDeclared
  <1>8. ASSUME NEW i \in DOMAIN runs, LeaseAges(i) PROVE WaitsDeclared'
    BY <1>0, <1>8 DEF LeaseAges, WaitsDeclared, Run
  <1>9. ASSUME NEW D, Crash(D) PROVE WaitsDeclared'
    BY <1>0, <1>1, <1>9 DEF Crash, WaitsDeclared
  <1>10. CASE RecoverRuns
    BY <1>0, <1>10 DEF RecoverRuns, WaitsDeclared, Run
  <1> QED
    BY <1>2, <1>3, <1>4, <1>6, <1>7, <1>8, <1>9, <1>10
    DEF Next, vars, UserStep, UserInput, UpdateGoal, SetSessionActive, SetUnitActive, DispatchStep,
        ChoosePaused, ClockStep, DeadlinePasses, RestartStep, StoreInit

(* A live run has not been overtaken by the cursor it will move. *)
RunsAhead ==
  \A i \in DOMAIN runs :
    runs[i].lease = "acquired" => cursor[runs[i].session][runs[i].role] <= runs[i].to

(* A run of the next state was there before, or has just been leased. *)
LEMMA OldOrLeased ==
  ASSUME Typed, [Next]_vars, NEW i \in DOMAIN runs'
  PROVE  \/ i \in DOMAIN runs /\ Kept(i)
         \/ /\ i \notin DOMAIN runs /\ UNCHANGED cursor
            /\ \E s \in Sessions, r \in Roles : \E e \in Candidates(s) :
                 Acquire(s, r) /\ runs'[i] = NewRun(s, e)
  <1>1. CASE NoNewRun
    BY <1>1 DEF NoNewRun
  <1>2. ASSUME NEW s \in Sessions, NEW r \in Roles, Acquire(s, r)
        PROVE  \/ i \in DOMAIN runs /\ Kept(i)
               \/ i \notin DOMAIN runs /\ UNCHANGED cursor
                    /\ \E e \in Candidates(s) : runs'[i] = NewRun(s, e)
    <2>1. UNCHANGED cursor
      BY <1>2 DEF Acquire
    <2>2. PICK e \in Candidates(s) :
            /\ DOMAIN runs' = DOMAIN runs \cup {Len(runs) + 1} /\ Len(runs) + 1 \notin DOMAIN runs
            /\ runs'[Len(runs) + 1] = NewRun(s, e)
            /\ \A j \in DOMAIN runs : Kept(j)
      BY <1>2, LeaseAdded
    <2> QED
      BY <2>1, <2>2
  <1> QED
    BY <1>1, <1>2, RunsKept DEF AcquireStep

LEMMA RunsAheadStep ==
  ASSUME TypeOK, OneRunPerRole, ReadinessSound, RunsAhead, [Next]_vars PROVE RunsAhead'
  <1>0. Typed
    BY DEF TypeOK
  <1> SUFFICES ASSUME NEW i \in DOMAIN runs', runs'[i].lease = "acquired"
               PROVE  cursor'[runs'[i].session][runs'[i].role] <= runs'[i].to
    BY DEF RunsAhead
  <1>1. CASE i \in DOMAIN runs /\ Kept(i)
    <2>1. /\ runs[i].lease = "acquired" /\ runs[i].session \in Sessions /\ runs[i].role \in Roles
          /\ runs'[i].session = runs[i].session /\ runs'[i].role = runs[i].role
          /\ runs'[i].to = runs[i].to
      BY <1>0, <1>1, RunTyped DEF Kept
    <2>2. HasAcquiredRun(runs', runs[i].session, runs[i].role)
      BY <2>1 DEF HasAcquiredRun
    <2>3. cursor'[runs[i].session][runs[i].role] = cursor[runs[i].session][runs[i].role]
      BY <1>0, <2>1, <2>2, CursorLease
    <2> QED
      BY <1>1, <2>1, <2>3 DEF RunsAhead
  <1>2. ASSUME NEW s \in Sessions, NEW e \in Candidates(s), runs'[i] = NewRun(s, e), UNCHANGED cursor
        PROVE  cursor'[runs'[i].session][runs'[i].role] <= runs'[i].to
    <2>1. e \in ReadyR(s) /\ EntriesSound(s, ReadyR(s), RunsR, LogR(s))
      BY ReconciliationSound DEF Candidates, ReadinessSound
    <2> QED
      BY <1>2, <2>1 DEF EntriesSound, NewRun
  <1> QED
    BY <1>0, <1>1, <1>2, OldOrLeased

(* What a run wrote to the log of its Session is behind its window. *)
WrittenBehindWindow ==
  \A s \in Sessions : \A n \in DOMAIN log[s] : log[s][n].run # NoRun =>
    /\ log[s][n].run \in DOMAIN runs
    /\ runs[log[s][n].run].session = s => runs[log[s][n].run].to < n

LEMMA RunsStay ==
  ASSUME Typed, [Next]_vars, NEW i \in DOMAIN runs PROVE i \in DOMAIN runs' /\ Kept(i)
  BY RunsKept, LeaseAdded DEF AcquireStep, NoNewRun

LEMMA WrittenBehindWindowStep ==
  ASSUME TypeOK, LogAuthoritative, WrittenBehindWindow, [Next]_vars PROVE WrittenBehindWindow'
  <1>0. Typed /\ WindowsInLog
    BY DEF TypeOK
  <1> SUFFICES ASSUME NEW s \in Sessions, NEW n \in DOMAIN log'[s], NEW i, i = log'[s][n].run,
                      i # NoRun
               PROVE  i \in DOMAIN runs' /\ (runs'[i].session = s => runs'[i].to < n)
    BY DEF WrittenBehindWindow
  <1>1. i \in DOMAIN runs /\ (runs[i].session = s => runs[i].to < n)
    <2>1. CASE n \in 1..Len(log[s])
      BY <1>0, <2>1, LogGrowth DEF WrittenBehindWindow
    <2>2. CASE n \in (Len(log[s]) + 1)..Len(log'[s])
      <3>1. i \in DOMAIN runs
        BY <1>0, <2>2, LogGrowth DEF News, NewEntry
      <3>2. runs[i].to \in Nat /\ (runs[i].session = s => runs[i].to <= Len(log[s]))
        BY <1>0, <3>1, RunTyped DEF WindowsInLog, Run
      <3>3. Len(log[s]) \in Nat /\ Len(log'[s]) \in Nat
        BY <1>0, LogGrowth
      <3> QED
        BY <2>2, <3>1, <3>2, <3>3
    <2> QED
      BY <1>0, <2>1, <2>2, LogGrowth
  <1>2. i \in DOMAIN runs' /\ Kept(i)
    BY <1>0, <1>1, RunsStay
  <1> QED
    BY <1>1, <1>2 DEF Kept

(* A run that has just been leased has written nothing yet. *)
LEMMA NewRunSilent ==
  ASSUME Typed, LogAuthoritative, WrittenBehindWindow, [Next]_vars,
         NEW i, i \notin DOMAIN runs, i # NoRun, NEW s \in Sessions, NEW n \in DOMAIN log'[s]
  PROVE  log'[s][n].run # i
  <1>1. CASE n \in 1..Len(log[s])
    BY <1>1, LogGrowth DEF WrittenBehindWindow
  <1>2. CASE n \in (Len(log[s]) + 1)..Len(log'[s])
    BY <1>2, LogGrowth DEF News, NewEntry
  <1> QED
    BY <1>1, <1>2, LogGrowth

LEMMA LeasedTyped ==
  ASSUME Typed, [Next]_vars, NEW i \in DOMAIN runs'
  PROVE  runs'[i].session \in Sessions /\ i # NoRun
  <1>1. Typed'
    BY TypedStep
  <1>2. runs' \in Seq(Run)
    BY <1>1 DEF Typed
  <1>3. DOMAIN runs' = 1..Len(runs') /\ runs'[i] \in Run
    BY <1>2
  <1> QED
    BY <1>3 DEF Run

(* A request for work that a live GoalManager wrote is still unread by the *)
(* Worker, or GoalManager will be woken again.                             *)
RequestsCovered ==
  \A i \in DOMAIN runs : runs[i].lease = "acquired" /\ runs[i].role = GM =>
    \A n \in DOMAIN log[runs[i].session] :
      /\ log[runs[i].session][n].run = i
      /\ log[runs[i].session][n].kind \in {"WorkerRequest", "Followup"}
      => n > cursor[runs[i].session][Worker] \/ Wakes(log[runs[i].session], runs[i].to)

LEMMA RequestsCoveredStep ==
  ASSUME TypeOK, LogAuthoritative, OneRunPerRole, WrittenBehindWindow, RequestsCovered,
         [Next]_vars
  PROVE  RequestsCovered'
  <1>0. Typed
    BY DEF TypeOK
  <1> SUFFICES ASSUME NEW i \in DOMAIN runs', runs'[i].lease = "acquired", runs'[i].role = GM,
                      NEW s, s = runs'[i].session,
                      NEW n \in DOMAIN log'[s], log'[s][n].run = i,
                      log'[s][n].kind \in {"WorkerRequest", "Followup"}
               PROVE  n > cursor'[s][Worker] \/ Wakes(log'[s], runs'[i].to)
    BY DEF RequestsCovered
  <1>1. s \in Sessions /\ i # NoRun
    BY <1>0, LeasedTyped
  <1>2. /\ i \in DOMAIN runs /\ runs[i].session = s /\ runs[i].role = GM /\ runs'[i].to = runs[i].to
        /\ runs[i].lease = "acquired" /\ runs[i].to \in Nat /\ runs[i].to <= Len(log[s])
    <2>1. i \in DOMAIN runs
      BY <1>0, <1>1, NewRunSilent
    <2>2. Kept(i)
      BY <1>0, <2>1, RunsStay
    <2> QED
      BY <1>0, <2>1, <2>2, RunTyped DEF Kept, TypeOK, WindowsInLog, Run
  <1>3. /\ cursor[s][Worker] \in Nat /\ cursor'[s][Worker] \in Nat
        /\ cursor'[s][Worker] <= Len(log[s]) /\ Len(log[s]) \in Nat /\ Len(log'[s]) \in Nat
    BY <1>0, <1>1, CursorGrowth, LogGrowth
  <1>4. CASE n \in 1..Len(log[s])
    <2>1. n \in DOMAIN log[s] /\ log'[s][n] = log[s][n]
      BY <1>0, <1>1, <1>4, LogGrowth
    <2>2. CASE Wakes(log[s], runs[i].to)
      BY <1>0, <1>1, <1>2, <2>2, WakesStay
    <2>3. CASE n > cursor[s][Worker] /\ cursor'[s][Worker] # cursor[s][Worker]
      <3>1. PICK j \in DOMAIN runs :
              /\ ReturnStep(j) /\ runs[j].session = s /\ runs[j].role = Worker
              /\ runs[j].lease = "acquired" /\ runs'[j].lease # "acquired"
              /\ cursor'[s][Worker] = Larger(cursor[s][Worker], runs[j].to)
        BY <1>0, <1>1, <2>3, CursorLease
      <3>2. CASE Signalled(s)
        BY <1>0, <1>1, <1>2, <3>2, WakesStay
      <3>3. CASE Reported(j)
        <4>1. PICK m \in DOMAIN log[s] :
                log[s][m].run = j /\ log[s][m].kind = "WorkerReport"
          BY <3>1, <3>3 DEF Reported, Record
        <4>2. runs[j].to < m /\ runs[i].to < n /\ runs[j].to \in Nat /\ m \in 1..Len(log[s])
          <5>1. j # NoRun /\ runs[j].to \in Nat
            BY <1>0, RunIds, RunTyped DEF Run
          <5>2. DOMAIN log[s] = 1..Len(log[s])
            BY <1>0, <1>1, LogGrowth
          <5> QED
            BY <1>1, <1>2, <2>1, <3>1, <4>1, <5>1, <5>2 DEF WrittenBehindWindow
        <4>3. CASE n <= runs[j].to
          <5>1. m \in (runs[i].to + 1)..Len(log[s])
            BY <1>2, <1>3, <1>4, <4>2, <4>3
          <5>2. WakesGoalManager(log[s][m], FALSE)
            BY <4>1 DEF WakesGoalManager
          <5>3. Wakes(log[s], runs[i].to)
            BY <5>1, <5>2 DEF Wakes
          <5> QED
            BY <2>2, <5>3
        <4>4. CASE ~(n <= runs[j].to)
          BY <1>3, <1>4, <2>3, <3>1, <4>2, <4>4 DEF Larger
        <4> QED
          BY <4>3, <4>4
      <3>4. ~CommitWaiting(j) /\ ~CommitIncomplete(j) /\ ~CommitComplete(j)
        BY <3>1 DEF CommitWaiting, CommitIncomplete, CommitComplete, Commit
      <3>5. ~RecoverRuns
        BY <2>3 DEF RecoverRuns
      <3> QED
        BY <1>0, <3>1, <3>2, <3>3, <3>4, <3>5, LeaseEnds
    <2> QED
      BY <1>2, <2>1, <2>2, <2>3 DEF RequestsCovered
  <1>5. CASE n \in (Len(log[s]) + 1)..Len(log'[s])
    BY <1>3, <1>5
  <1> QED
    BY <1>0, <1>1, <1>4, <1>5, LogGrowth

(* A newer requirement stays newer, and a decision of GoalManager is one   *)
(* for every other run of its Session.                                     *)
LEMMA ConflictStays ==
  ASSUME Typed, LogAuthoritative, [Next]_vars, NEW i \in DOMAIN runs, Conflict(i)
  PROVE  Conflict(i)'
  <1>1. Kept(i) /\ runs[i].session \in Sessions /\ runs[i].to \in Nat
    BY RunsStay, RunTyped DEF Run
  <1>2. \A n \in (runs[i].to + 1)..Len(log[runs[i].session]) :
          /\ n \in (runs[i].to + 1)..Len(log'[runs[i].session])
          /\ log'[runs[i].session][n] = log[runs[i].session][n]
    BY <1>1, LogGrowth
  <1> QED
    BY <1>1, <1>2 DEF Conflict, Kept

LEMMA DecisionConflicts ==
  ASSUME TypeOK, LogAuthoritative, [Next]_vars,
         NEW j \in DOMAIN runs, CommitWaiting(j) \/ CommitIncomplete(j) \/ CommitComplete(j),
         NEW i \in DOMAIN runs, i # j, runs[i].session = runs[j].session
  PROVE  Conflict(i)'
  <1> DEFINE s == runs[j].session
  <1>0. /\ Typed /\ s \in Sessions /\ j \in Nat /\ log \in [Sessions -> Seq(Entry)]
        /\ runs[i].to \in Nat /\ runs[i].to <= Len(log[s]) /\ Kept(i)
    BY RunTyped, RunsStay DEF TypeOK, Typed, WindowsInLog, Run
  <1>1. \A kind \in Declared : Record(kind, j) \in Entry /\ Record(kind, j).kind = kind
                                /\ Record(kind, j).run = j
    BY <1>0, Kinds DEF EntryKinds, StateChanges, Record
  <1>2. \E kind \in Declared : \E m \in Seq(Entry) :
          log'[s] = log[s] \o m /\ 1 \in 1..Len(m) /\ m[1] = Record(kind, j)
    <2>1. CASE CommitWaiting(j)
      <3> DEFINE e == Record("DeclaredWaiting", j)
      <3>1. log'[s] = log[s] \o <<e>> /\ e \in Entry
        BY <1>0, <1>1, <2>1 DEF CommitWaiting, LogExtended, Declared
      <3> HIDE DEF e
      <3>2. <<e>> \in Seq(Entry) /\ 1 \in 1..Len(<<e>>) /\ <<e>>[1] = e
        BY <3>1
      <3> QED
        BY <3>1, <3>2 DEF e, Declared
    <2>2. CASE CommitIncomplete(j)
      <3> DEFINE e == Record("DeclaredIncomplete", j)
                 c == IF WorkRequested(j) THEN <<>> ELSE <<Record("WorkerRequest", j)>>
      <3>1. log'[s] = log[s] \o (<<e>> \o c) /\ e \in Entry
        BY <1>0, <1>1, <2>2 DEF CommitIncomplete, LogExtended, Declared
      <3>2. c \in Seq(Entry)
        <4>1. Record("WorkerRequest", j) \in Entry
          BY <1>0, Records DEF EntryKinds, Messages, AgentMessages
        <4> QED
          BY <4>1
      <3> HIDE DEF e, c
      <3>3. <<e>> \o c \in Seq(Entry) /\ 1 \in 1..Len(<<e>> \o c) /\ (<<e>> \o c)[1] = e
        BY <3>1, <3>2
      <3> QED
        BY <3>1, <3>3 DEF e, Declared
    <2>3. CASE CommitComplete(j)
      <3> DEFINE e == Record("DeclaredComplete", j)
                 c == Reopening(s, s)
      <3>1. s \notin Notified(s)
        BY <1>0, SessionsAssumption DEF Notified
      <3>2. log'[s] = ((log[s] \o <<e>>) \o <<>>) \o c /\ e \in Entry
        BY <1>0, <1>1, <2>3, <3>1 DEF CommitComplete, Declared
      <3>3. c = <<>>
        BY <3>1 DEF Reopening, ReopenedParents
      <3> HIDE DEF e, c
      <3>4. log[s] \in Seq(Entry) /\ log[s] \o <<e>> = Append(log[s], e)
            /\ Append(log[s], e) \in Seq(Entry)
        BY <1>0, <3>2, Joined, OneMore
      <3>5. log'[s] = log[s] \o <<e>>
        BY <3>2, <3>3, <3>4, ConcatEmptySeq
      <3>6. <<e>> \in Seq(Entry) /\ 1 \in 1..Len(<<e>>) /\ <<e>>[1] = e
        BY <3>2
      <3> QED
        BY <3>5, <3>6 DEF e, Declared
    <2> QED
      BY <2>1, <2>2, <2>3
  <1>3. PICK kind \in Declared, m \in Seq(Entry) :
          log'[s] = log[s] \o m /\ 1 \in 1..Len(m) /\ m[1] = Record(kind, j)
    BY <1>2
  <1>4. log[s] \in Seq(Entry) /\ Len(log[s]) \in Nat
    BY <1>0
  <1>5. /\ Len(log[s]) + 1 \in (Len(log[s]) + 1)..Len(log'[s])
        /\ log'[s][Len(log[s]) + 1] = Record(kind, j)
    BY <1>3, <1>4, AppendedAt
  <1>6. Len(log[s]) + 1 \in (runs[i].to + 1)..Len(log'[s])
    BY <1>0, <1>4, <1>5
  <1>7. /\ log'[s][Len(log[s]) + 1].kind \in Messages \cup StateChanges
        /\ log'[s][Len(log[s]) + 1].run # i
    BY <1>1, <1>3, <1>5 DEF StateChanges
  <1> QED
    BY <1>0, <1>6, <1>7 DEF Conflict, Kept

(* The report of a live Worker is still unread by GoalManager, or that     *)
(* Worker will be fenced, or GoalManager will be woken again.              *)
ReportsCovered ==
  \A i \in DOMAIN runs : runs[i].lease = "acquired" /\ runs[i].role = Worker =>
    \A n \in DOMAIN log[runs[i].session] :
      log[runs[i].session][n].run = i /\ log[runs[i].session][n].kind = "WorkerReport" =>
        \/ n > cursor[runs[i].session][GM]
        \/ Conflict(i)
        \/ Wakes(log[runs[i].session], cursor[runs[i].session][GM])

LEMMA ReportsCoveredStep ==
  ASSUME TypeOK, LogAuthoritative, OneRunPerRole, WrittenBehindWindow, ReportsCovered,
         [Next]_vars
  PROVE  ReportsCovered'
  <1>0. Typed
    BY DEF TypeOK
  <1> SUFFICES ASSUME NEW i \in DOMAIN runs', runs'[i].lease = "acquired", runs'[i].role = Worker,
                      NEW s, s = runs'[i].session,
                      NEW n \in DOMAIN log'[s], log'[s][n].run = i,
                      log'[s][n].kind = "WorkerReport"
               PROVE  n > cursor'[s][GM] \/ Conflict(i)' \/ Wakes(log'[s], cursor'[s][GM])
    BY DEF ReportsCovered
  <1>1. s \in Sessions /\ i # NoRun
    BY <1>0, LeasedTyped
  <1>2. /\ i \in DOMAIN runs /\ runs[i].session = s /\ runs[i].role = Worker
        /\ runs[i].lease = "acquired"
    <2>1. i \in DOMAIN runs
      BY <1>0, <1>1, NewRunSilent
    <2>2. Kept(i)
      BY <1>0, <2>1, RunsStay
    <2> QED
      BY <2>1, <2>2 DEF Kept
  <1>3. /\ cursor[s][GM] \in Nat /\ cursor'[s][GM] \in Nat
        /\ cursor'[s][GM] <= Len(log[s]) /\ Len(log[s]) \in Nat /\ Len(log'[s]) \in Nat
    BY <1>0, <1>1, CursorGrowth, LogGrowth
  <1>4. CASE n \in 1..Len(log[s])
    <2>1. n \in DOMAIN log[s] /\ log'[s][n] = log[s][n]
      BY <1>0, <1>1, <1>4, LogGrowth
    <2>2. CASE cursor'[s][GM] # cursor[s][GM]
      <3>1. PICK j \in DOMAIN runs :
              /\ ReturnStep(j) /\ runs[j].session = s /\ runs[j].role = GM
              /\ runs[j].lease = "acquired" /\ runs'[j].lease # "acquired"
        BY <1>0, <1>1, <2>2, CursorLease
      <3>2. CASE Signalled(s)
        BY <1>0, <1>1, <1>3, <3>2, WakesStay
      <3>3. i # j /\ ~CommitWorker(j) /\ ~RecoverRuns
        BY <1>2, <2>2, <3>1 DEF CommitWorker, Commit, RecoverRuns
      <3> QED
        BY <1>0, <1>2, <3>1, <3>2, <3>3, LeaseEnds, DecisionConflicts
    <2>3. CASE cursor'[s][GM] = cursor[s][GM]
      <3>1. n > cursor[s][GM] \/ Conflict(i) \/ Wakes(log[s], cursor[s][GM])
        BY <1>2, <2>1 DEF ReportsCovered
      <3> QED
        BY <1>0, <1>1, <1>2, <1>3, <2>3, <3>1, ConflictStays, WakesStay
    <2> QED
      BY <2>2, <2>3
  <1>5. CASE n \in (Len(log[s]) + 1)..Len(log'[s])
    BY <1>3, <1>5
  <1> QED
    BY <1>0, <1>1, <1>4, <1>5, LogGrowth

-----------------------------------------------------------------------------
(***************************************************************************)
(* No Session is left to nobody.                                           *)
(***************************************************************************)
(* A goal that becomes incomplete wakes somebody. *)
LEMMA GoalReopens ==
  ASSUME Typed, LogAuthoritative, [Next]_vars, NEW s \in Sessions,
         goal[s].state # "incomplete", goal'[s].state = "incomplete"
  PROVE  \/ Signalled(s) \/ UserInput(s)
         \/ \E i \in DOMAIN runs : CommitIncomplete(i) /\ runs[i].session = s
  <1>0. goal \in [Sessions -> Goal] /\ \A t \in Sessions : goal[t] \in Goal
    BY DEF Typed
  <1>1. CASE goal'[s] = goal[s]
    BY <1>1
  <1>2. ASSUME NEW t \in Sessions, UserInput(t) PROVE UserInput(s)
    <2>1. t = s
      BY <1>0, <1>2 DEF UserInput
    <2> QED
      BY <1>2, <2>1
  <1>3. ASSUME NEW t \in Sessions, NEW b \in Bodies, UpdateGoal(t, b) PROVE Signalled(s)
    <2>1. t = s
      BY <1>0, <1>3 DEF UpdateGoal
    <2> QED
      BY <1>3, <2>1, RevisionWakes
  <1>4. ASSUME NEW i \in DOMAIN runs, CommitWaiting(i) PROVE FALSE
    <2>1. goal' = [goal EXCEPT ![runs[i].session].wait = runs[i].wait]
      BY <1>4 DEF CommitWaiting
    <2> QED
      BY <1>0, <2>1 DEF Goal
  <1>5. ASSUME NEW i \in DOMAIN runs,
               goal' = [goal EXCEPT ![runs[i].session].state = "incomplete"]
        PROVE  runs[i].session = s
    BY <1>0, <1>5
  <1>6. ASSUME NEW i \in DOMAIN runs, CommitError(i) PROVE Signalled(s)
    <2>1. runs[i].session = s /\ i \in Nat
      BY <1>5, <1>6, RunTyped DEF CommitError
    <2>2. /\ Record("BecameIncomplete", i) \in Entry
          /\ WakesGoalManager(Record("BecameIncomplete", i), FALSE)
      BY <2>1, Records, WakeKinds DEF EntryKinds, StateChanges
    <2> QED
      BY <1>6, <2>1, <2>2, ExtendedByOne DEF CommitError
  <1>7. ASSUME NEW i \in DOMAIN runs, CommitComplete(i) PROVE Signalled(s)
    <2>1. s \in ReopenedParents(runs[i].session)
      <3>1. s = runs[i].session => goal'[s] = [goal[s] EXCEPT !.state = "complete"]
        BY <1>7 DEF CommitComplete
      <3>2. s # runs[i].session /\ s \notin ReopenedParents(runs[i].session) => goal'[s] = goal[s]
        BY <1>7 DEF CommitComplete
      <3> QED
        BY <1>0, <3>1, <3>2 DEF Goal
    <2> QED
      BY <1>7, <2>1, CompletionWakes DEF ReopenedParents
  <1>8. CASE goal' = [t \in Sessions |-> GoalR(t)]
    BY <1>8, ReconciledSession
  <1>9. ASSUME NEW t \in Sessions, DeadlinePasses(t) PROVE FALSE
    <2>1. goal' = [goal EXCEPT ![t].wait.passed = TRUE]
      BY <1>9 DEF DeadlinePasses
    <2> QED
      BY <1>0, <2>1 DEF Goal
  <1>10. CASE StoreInit
    <2> DEFINE g == [goal[s] EXCEPT !.state = ReplayedState(s)]
    <2>1. goal'[s] = WokenGoal(s, g, log[s])
      BY <1>10 DEF StoreInit
    <2>2. g \in Goal /\ g.state = goal[s].state
      BY <1>0 DEF LogAuthoritative, Goal
    <2> HIDE DEF g
    <2> QED
      BY <2>1, <2>2, WokenTypes DEF Typed
  <1>11. CASE UserStep \/ \E i \in DOMAIN runs : AgentStep(i)
    BY <1>1, <1>2, <1>3, <1>11
    DEF UserStep, SetSessionActive, SetUnitActive, AgentStep, AgentMessage, DeclareOutcome,
        DeclareWaiting
  <1>12. ASSUME NEW i \in DOMAIN runs, ReturnStep(i)
         PROVE  Signalled(s) \/ (CommitIncomplete(i) /\ runs[i].session = s)
    <2>1. CASE UNCHANGED goal
      BY <1>1, <2>1
    <2>2. CASE CommitIncomplete(i)
      BY <1>5, <2>2 DEF CommitIncomplete
    <2> QED
      BY <1>4, <1>6, <1>7, <1>12, <2>1, <2>2 DEF ReturnStep, Discard, CommitUndecided, CommitWorker
  <1>13. CASE DispatchStep \/ ClockStep
    BY <1>1, <1>8, <1>9, <1>13
    DEF DispatchStep, Acquire, ChoosePaused, NothingToDispatch, ClockStep, LeaseAges, vars
  <1>14. CASE RestartStep
    BY <1>1, <1>10, <1>14 DEF RestartStep, Crash, RecoverRuns
  <1> QED
    BY <1>1, <1>11, <1>12, <1>13, <1>14 DEF Next, vars

(* So does a wait that ends. *)
LEMMA WaitEnds ==
  ASSUME Typed, LogAuthoritative, WaitsDeclared, [Next]_vars, NEW s \in Sessions,
         goal[s].wait # NoWait, goal'[s].wait = NoWait
  PROVE  Signalled(s) \/ UserInput(s)
  <1>0. goal \in [Sessions -> Goal] /\ \A t \in Sessions : goal[t] \in Goal
    BY DEF Typed
  <1>1. CASE goal'[s].wait = goal[s].wait
    BY <1>1
  <1>2. ASSUME NEW t \in Sessions, UserInput(t) PROVE UserInput(s)
    <2>1. t = s
      BY <1>0, <1>2 DEF UserInput
    <2> QED
      BY <1>2, <2>1
  <1>3. ASSUME NEW t \in Sessions, NEW b \in Bodies, UpdateGoal(t, b) PROVE FALSE
    <2>1. goal' = [goal EXCEPT ![t].body = b, ![t].state = "incomplete"]
      BY <1>3 DEF UpdateGoal
    <2> QED
      BY <1>0, <2>1 DEF Goal
  <1>4. ASSUME NEW i \in DOMAIN runs, CommitWaiting(i) PROVE FALSE
    <2>1. goal' = [goal EXCEPT ![runs[i].session].wait = runs[i].wait]
      BY <1>4 DEF CommitWaiting
    <2>2. runs[i].wait # NoWait
      BY <1>4 DEF CommitWaiting, WaitsDeclared
    <2> QED
      BY <1>0, <2>1, <2>2 DEF Goal
  <1>5. ASSUME NEW i \in DOMAIN runs,
               goal' = [goal EXCEPT ![runs[i].session].state = "incomplete"]
        PROVE  FALSE
    BY <1>0, <1>5 DEF Goal
  <1>6. ASSUME NEW i \in DOMAIN runs, CommitComplete(i) PROVE FALSE
    <2>1. \/ goal'[s] = goal[s]
          \/ goal'[s] = [goal[s] EXCEPT !.state = "complete"]
          \/ goal'[s] = [goal[s] EXCEPT !.state = "incomplete"]
      BY <1>6 DEF CommitComplete
    <2> QED
      BY <1>0, <2>1 DEF Goal
  <1>7. ASSUME goal' = [t \in Sessions |-> GoalR(t)], log' = [t \in Sessions |-> LogR(t)]
        PROVE  Signalled(s)
    BY <1>7, SignalledByReconciliation
  <1>8. ASSUME NEW t \in Sessions, DeadlinePasses(t) PROVE FALSE
    <2>1. goal' = [goal EXCEPT ![t].wait.passed = TRUE]
      BY <1>8 DEF DeadlinePasses
    <2>2. goal[s].wait \in Wait
      BY <1>0 DEF Goal
    <2>3. CASE t = s
      <3>1. goal'[s].wait = [goal[s].wait EXCEPT !.passed = TRUE]
        BY <1>0, <2>1, <2>3 DEF Goal
      <3>2. goal'[s].wait.passed = TRUE
        BY <2>2, <3>1 DEF Wait
      <3> QED
        BY <3>2 DEF NoWait
    <2>4. CASE t # s
      BY <1>0, <2>1, <2>4
    <2> QED
      BY <2>3, <2>4
  <1>9. CASE StoreInit
    <2> DEFINE g == [goal[s] EXCEPT !.state = ReplayedState(s)]
    <2>1. goal'[s] = WokenGoal(s, g, log[s]) /\ log'[s] = WokenLog(s, g, log[s])
      BY <1>9 DEF StoreInit
    <2>2. g.wait = goal[s].wait
      BY <1>0 DEF Goal
    <2> HIDE DEF g
    <2>3. log'[s] = Append(log[s], Signal("SignalGM"))
      BY <2>1, <2>2 DEF WokenGoal, WokenLog
    <2> QED
      BY <2>3, Records, WakeKinds, SignalledByOne DEF EntryKinds, Signals
  <1>10. CASE UserStep \/ \E i \in DOMAIN runs : AgentStep(i)
    BY <1>1, <1>2, <1>3, <1>10
    DEF UserStep, SetSessionActive, SetUnitActive, AgentStep, AgentMessage, DeclareOutcome,
        DeclareWaiting
  <1>11. ASSUME NEW i \in DOMAIN runs, ReturnStep(i) PROVE FALSE
    BY <1>1, <1>4, <1>5, <1>6, <1>11
    DEF ReturnStep, Discard, CommitUndecided, CommitIncomplete, CommitWorker, CommitError
  <1>12. CASE DispatchStep \/ ClockStep
    BY <1>1, <1>7, <1>8, <1>12
    DEF DispatchStep, Acquire, ChoosePaused, NothingToDispatch, ClockStep, LeaseAges, vars
  <1>13. CASE RestartStep
    BY <1>1, <1>9, <1>13 DEF RestartStep, Crash, RecoverRuns
  <1> QED
    BY <1>1, <1>10, <1>11, <1>12, <1>13 DEF Next, vars

(* Somebody holds a lease in s, or an unread entry wakes a role. *)
Attended(s) ==
  \/ \E r \in Roles : HasAcquiredRun(runs, s, r)
  \/ Wakes(log[s], cursor[s][GM]) \/ Asks(log[s], cursor[s][Worker])
Open(s) == Dispatchable(s, goal[s]) /\ goal[s].wait = NoWait
OpenSessionsAttended == \A s \in Sessions : Open(s) => Attended(s)

(* What all the steps of the proof need of the runs and their readiness.   *)
RunsSound ==
  /\ OneRunPerRole /\ ReadinessOwned /\ ReadinessSound
  /\ WaitsDeclared /\ RunsAhead
  /\ WrittenBehindWindow /\ RequestsCovered /\ ReportsCovered

LEMMA RunsSoundStep ==
  ASSUME TypeOK, LogAuthoritative, RunsSound, [Next]_vars PROVE RunsSound'
  BY OneRunPerRoleStep, ReadinessOwnedStep, ReadinessSoundStep, WaitsDeclaredStep, RunsAheadStep,
     WrittenBehindWindowStep, RequestsCoveredStep, ReportsCoveredStep
  DEF RunsSound, TypeOK

LEMMA StillLeased ==
  ASSUME Typed, [Next]_vars, NEW s \in Sessions,
         NEW i \in DOMAIN runs, runs[i].session = s, runs'[i].lease = "acquired"
  PROVE  Attended(s)'
  <1>1. i \in DOMAIN runs' /\ Kept(i) /\ runs[i].role \in Roles
    BY RunsStay, RunTyped
  <1> QED
    BY <1>1 DEF Attended, HasAcquiredRun, Kept

(* A signalled Session has a wake-up nobody has read. *)
LEMMA SignalAttends ==
  ASSUME TypeOK, LogAuthoritative, [Next]_vars, NEW s \in Sessions, Signalled(s)
  PROVE  Attended(s)'
  <1>1. Typed /\ cursor'[s][GM] \in Nat /\ cursor'[s][GM] <= Len(log[s])
    BY CursorGrowth DEF TypeOK
  <1>2. Wakes(log'[s], cursor'[s][GM])
    BY <1>1, WakesStay
  <1> QED
    BY <1>2 DEF Attended

(* GoalManager's decision that a goal is incomplete leaves work to do: the *)
(* Worker it counted on is running or about to, a request it or the user   *)
(* wrote is unread, or the request written with the decision is.           *)
LEMMA DecisionLeavesWork ==
  ASSUME TypeOK, LogAuthoritative, RunsSound, [Next]_vars,
         NEW s \in Sessions, NEW i \in DOMAIN runs, runs[i].session = s, CommitIncomplete(i)
  PROVE  Attended(s)'
  <1>0. /\ Typed /\ s \in Sessions /\ i \in Nat /\ runs[i].to \in Nat /\ log[s] \in Seq(Entry)
        /\ cursor[s][Worker] \in Nat /\ cursor[s][GM] \in Nat /\ cursor[s][Worker] <= Len(log[s])
    <2>1. Typed /\ WindowsInLog
      BY DEF TypeOK
    <2>2. i \in Nat /\ runs[i].to \in Nat
      BY <2>1, RunTyped DEF Run
    <2> QED
      BY <2>1, <2>2 DEF Typed, WindowsInLog
  <1>1. /\ runs[i].role = GM /\ runs[i].lease = "acquired" /\ WindowRead(i) /\ Released(i)
        /\ GM # Worker
    BY DEF CommitIncomplete, Commit, Fenced
  <1>2. /\ cursor'[s][Worker] = cursor[s][Worker]
        /\ cursor'[s][GM] = runs[i].to
    <2>1. cursor[s][GM] <= runs[i].to
      BY <1>1 DEF RunsSound, RunsAhead
    <2> QED
      BY <1>0, <1>1, <2>1, CursorAfter DEF Larger
  <1>3. ASSUME Asks(log[s], cursor[s][Worker]) PROVE Attended(s)'
    <2>1. Asks(log'[s], cursor'[s][Worker])
      BY <1>0, <1>2, <1>3, WakesStay
    <2> QED
      BY <2>1 DEF Attended
  <1>4. ASSUME HasAcquiredRun(runs, s, Worker) PROVE Attended(s)'
    <2>1. PICK j \in DOMAIN runs :
            runs[j].session = s /\ runs[j].role = Worker /\ runs[j].lease = "acquired"
      BY <1>4 DEF HasAcquiredRun
    <2>2. runs'[j] = runs[j]
      BY <1>0, <1>1, <2>1, RunReturns
    <2> QED
      BY <1>0, <2>1, <2>2, StillLeased
  <1>5. CASE \E e \in ready[s] : e.role = Worker
    <2>1. Asks(log[s], cursor[s][Worker])
      BY <1>0, <1>5 DEF RunsSound, ReadinessSound, EntriesSound
    <2> QED
      BY <1>3, <2>1
  <1>6. ASSUME NEW n \in DOMAIN log[s], log[s][n].run = i,
               log[s][n].kind \in {"WorkerRequest", "Followup"}
        PROVE  Attended(s)'
    <2>1. CASE n > cursor[s][Worker]
      <3>1. n \in (cursor[s][Worker] + 1)..Len(log[s])
        BY <1>0, <2>1
      <3>2. Asks(log[s], cursor[s][Worker])
        BY <1>6, <3>1 DEF Asks, WakesWorker
      <3> QED
        BY <1>3, <3>2
    <2>2. CASE Wakes(log[s], runs[i].to)
      <3>1. Wakes(log'[s], cursor'[s][GM])
        BY <1>0, <1>2, <2>2, WakesStay
      <3> QED
        BY <3>1 DEF Attended
    <2> QED
      BY <1>1, <1>6, <2>1, <2>2 DEF RunsSound, RequestsCovered
  <1>7. CASE ~WorkRequested(i)
    <2> DEFINE e == Record("DeclaredIncomplete", i)
               w == Record("WorkerRequest", i)
    <2>1. log'[s] = log[s] \o (<<e>> \o <<w>>)
      BY <1>0, <1>7 DEF CommitIncomplete, LogExtended, Typed
    <2>2. e \in Entry /\ w \in Entry /\ WakesWorker(w)
      BY <1>0, Kinds DEF EntryKinds, Messages, AgentMessages, StateChanges, Declared, WakesWorker
    <2> HIDE DEF e, w
    <2>3. /\ <<e>> \o <<w>> \in Seq(Entry) /\ 2 \in 1..Len(<<e>> \o <<w>>)
          /\ (<<e>> \o <<w>>)[2] = w
      BY <2>2
    <2>4. Len(log[s]) + 2 \in (Len(log[s]) + 1)..Len(log'[s]) /\ log'[s][Len(log[s]) + 2] = w
      BY <1>0, <2>1, <2>3, AppendedAt
    <2>5. Len(log[s]) + 2 \in (cursor'[s][Worker] + 1)..Len(log'[s])
      BY <1>0, <1>2, <2>4
    <2>6. Asks(log'[s], cursor'[s][Worker])
      BY <2>2, <2>4, <2>5 DEF Asks
    <2> QED
      BY <2>6 DEF Attended
  <1> QED
    BY <1>4, <1>5, <1>6, <1>7 DEF WorkRequested

(* The end of a lease in an open Session that stays open. *)
LEMMA EndedLeaseAttends ==
  ASSUME TypeOK, LogAuthoritative, RunsSound, [Next]_vars,
         NEW s \in Sessions, Open(s), Open(s)',
         NEW i \in DOMAIN runs, runs[i].session = s,
         runs[i].lease = "acquired", runs'[i].lease # "acquired"
  PROVE  Attended(s)'
  <1>0. /\ Typed /\ s \in Sessions /\ goal[s] \in Goal
        /\ cursor[s][GM] \in Nat /\ Len(log[s]) \in Nat
    BY RunTyped DEF TypeOK, Typed
  <1>1. CASE Signalled(s)
    BY <1>0, <1>1, SignalAttends
  <1>2. ASSUME CommitWaiting(i) PROVE FALSE
    <2>1. runs[i].wait # NoWait
      BY <1>2 DEF CommitWaiting, RunsSound, WaitsDeclared
    <2>2. goal' = [goal EXCEPT ![s].wait = runs[i].wait] /\ goal \in [Sessions -> Goal]
      BY <1>0, <1>2 DEF CommitWaiting, Typed
    <2>3. goal'[s].wait = runs[i].wait
      BY <1>0, <2>2 DEF Goal
    <2>4. goal'[s].wait = NoWait
      BY DEF Open
    <2> QED
      BY <2>1, <2>3, <2>4
  <1>3. ASSUME CommitComplete(i) PROVE FALSE
    <2>1. goal'[s] = [goal[s] EXCEPT !.state = "complete"]
      BY <1>0, <1>3 DEF CommitComplete
    <2>2. goal'[s].state = "complete"
      BY <1>0, <2>1 DEF Goal
    <2>3. goal'[s].state = "incomplete"
      BY DEF Open, Dispatchable
    <2> QED
      BY <2>2, <2>3
  <1>4. CASE CommitIncomplete(i)
    BY <1>4, DecisionLeavesWork
  <1>5. CASE CommitWorker(i) /\ Reported(i)
    <2>1. runs[i].role = Worker /\ ~Conflict(i) /\ WindowRead(i) /\ GM # Worker
      BY <1>5 DEF CommitWorker, Commit, Fenced
    <2>2. cursor'[s][GM] = cursor[s][GM]
      BY <1>0, <2>1, CursorAfter
    <2>3. PICK n \in DOMAIN log[s] : log[s][n].run = i /\ log[s][n].kind = "WorkerReport"
      BY <1>5 DEF Reported, Record
    <2>4. Wakes(log[s], cursor[s][GM])
      <3>1. CASE n > cursor[s][GM]
        <4>1. DOMAIN log[s] = 1..Len(log[s])
          BY <1>0 DEF Typed
        <4>2. n \in (cursor[s][GM] + 1)..Len(log[s])
          BY <1>0, <2>3, <3>1, <4>1
        <4> QED
          BY <2>3, <4>2 DEF Wakes, WakesGoalManager
      <3> QED
        BY <2>1, <2>3, <3>1 DEF RunsSound, ReportsCovered
    <2>5. Wakes(log'[s], cursor'[s][GM])
      BY <1>0, <2>2, <2>4, WakesStay
    <2> QED
      BY <2>5 DEF Attended
  <1> QED
    BY <1>0, <1>1, <1>2, <1>3, <1>4, <1>5, LeaseEnds DEF Open

LEMMA OpenSessionsAttendedStep ==
  ASSUME TypeOK, LogAuthoritative, RunsSound, OpenSessionsAttended, [Next]_vars
  PROVE  OpenSessionsAttended'
  <1>0. Typed
    BY DEF TypeOK
  <1> SUFFICES ASSUME NEW s \in Sessions, Open(s)' PROVE Attended(s)'
    BY DEF OpenSessionsAttended
  <1>1. CASE Signalled(s)
    BY <1>1, SignalAttends
  <1>2. CASE ~Signalled(s) /\ ~Open(s)
    <2>1. ASSUME UserInput(s) PROVE Attended(s)'
      <3>1. WorkerRuns(s) # {} /\ UNCHANGED runs
        BY <1>0, <1>2, <2>1, InputWakes
      <3>2. PICK i \in DOMAIN runs : runs[i].session = s /\ runs[i].lease = "acquired"
        BY <3>1 DEF WorkerRuns
      <3> QED
        BY <1>0, <3>1, <3>2, StillLeased
    <2>2. CASE ~active[s]
      BY <1>0, <1>2, <2>2, FlagRaised DEF Open, Dispatchable
    <2>3. CASE goal[s].state # "incomplete"
      <3>1. ASSUME NEW i \in DOMAIN runs, CommitIncomplete(i), runs[i].session = s
            PROVE  Attended(s)'
        BY <3>1, DecisionLeavesWork
      <3> QED
        BY <1>0, <1>2, <2>1, <2>3, <3>1, GoalReopens DEF Open, Dispatchable
    <2>4. CASE goal[s].wait # NoWait
      BY <1>0, <1>2, <2>1, <2>4, WaitEnds DEF Open, RunsSound
    <2> QED
      BY <1>2, <2>2, <2>3, <2>4 DEF Open, Dispatchable
  <1>3. CASE Open(s)
    <2>1. ASSUME NEW i \in DOMAIN runs, runs[i].session = s, runs[i].lease = "acquired"
          PROVE  Attended(s)'
      BY <1>0, <1>3, <2>1, StillLeased, EndedLeaseAttends
    <2>2. ASSUME NEW r \in Roles, cursor'[s][r] # cursor[s][r] PROVE Attended(s)'
      BY <1>0, <2>1, <2>2, CursorLease DEF RunsSound
    <2>3. CASE \E r \in Roles : HasAcquiredRun(runs, s, r)
      BY <2>1, <2>3 DEF HasAcquiredRun
    <2>4. CASE \A r \in Roles : cursor'[s][r] = cursor[s][r]
      <3>1. cursor[s][GM] \in Nat /\ cursor[s][Worker] \in Nat
        BY <1>0 DEF Typed
      <3>2. \/ Wakes(log[s], cursor[s][GM]) /\ Wakes(log'[s], cursor'[s][GM])
            \/ Asks(log[s], cursor[s][Worker]) /\ Asks(log'[s], cursor'[s][Worker])
            \/ \E r \in Roles : HasAcquiredRun(runs, s, r)
        BY <1>0, <1>3, <2>4, <3>1, WakesStay DEF OpenSessionsAttended, Attended
      <3> QED
        BY <2>3, <3>2 DEF Attended
    <2> QED
      BY <2>2, <2>4
  <1> QED
    BY <1>1, <1>2, <1>3

(* Whatever returns late, expires, crashes, restarts or is discarded, an   *)
(* active incomplete goal that does not wait has a run, or an unread entry *)
(* that wakes a role: nothing is left for the recovery signal of           *)
(* _reconcile_dispatch_liveness to repair.                                 *)
THEOREM SessionsAreAttended == Spec => []NoSessionForgotten
  <1> DEFINE IInv == RunsSound /\ OpenSessionsAttended
  <1>1. Init => IInv
    <2> SUFFICES ASSUME Init PROVE IInv
      OBVIOUS
    <2>1. /\ runs = <<>> /\ DOMAIN runs = {}
          /\ \A s \in Sessions : /\ ready[s] = {} /\ cursor[s][GM] = 0 /\ cursor[s][Worker] = 0
                                 /\ goal[s].state \in {"none", "incomplete"}
                                 /\ log[s] = IF goal[s].state = "none" THEN <<>>
                                             ELSE <<Signal("BecameIncomplete")>>
      BY DEF Init
    <2>2. \A s \in Sessions : \A n \in DOMAIN log[s] : log[s][n].run = NoRun
      BY <2>1 DEF Signal, Record
    <2>3. RunsSound
      BY <2>1, <2>2 DEF RunsSound, OneRunPerRole, ReadinessOwned, ReadinessSound, EntriesSound,
                  WaitsDeclared, RunsAhead, WrittenBehindWindow, RequestsCovered, ReportsCovered
    <2>4. ASSUME NEW s \in Sessions, Open(s) PROVE Attended(s)
      <3>1. log[s] = <<Signal("BecameIncomplete")>> /\ cursor[s][GM] = 0
        BY <2>1, <2>4 DEF Open, Dispatchable
      <3>2. 1 \in (0 + 1)..Len(log[s]) /\ log[s][1] = Signal("BecameIncomplete")
        BY <3>1
      <3>3. Wakes(log[s], 0)
        BY <3>2, WakeKinds DEF Wakes
      <3> QED
        BY <3>1, <3>3 DEF Attended
    <2> QED
      BY <2>3, <2>4 DEF OpenSessionsAttended
  <1>2. TypeOK /\ LogAuthoritative /\ [Next]_vars /\ IInv => IInv'
    BY RunsSoundStep, OpenSessionsAttendedStep
  <1>3. IInv => NoSessionForgotten
    <2> SUFFICES ASSUME OpenSessionsAttended, NEW s \in Sessions, Open(s),
                        \A r \in Roles : ~HasAcquiredRun(runs, s, r)
                 PROVE  \E r \in Roles : WakeReasons(s, r, runs, log[s]) # {}
      BY DEF NoSessionForgotten, Open
    <2>1. Wakes(log[s], cursor[s][GM]) \/ Asks(log[s], cursor[s][Worker])
      BY DEF OpenSessionsAttended, Attended
    <2>2. ~HasAcquiredRun(runs, s, Worker) /\ Worker # GM
      OBVIOUS
    <2>3. CASE Wakes(log[s], cursor[s][GM])
      <3>1. PICK n \in (cursor[s][GM] + 1)..Len(log[s]) : WakesGoalManager(log[s][n], FALSE)
        BY <2>3 DEF Wakes
      <3>2. n \in WakeReasons(s, GM, runs, log[s])
        BY <2>2, <3>1 DEF WakeReasons, WakesGoalManager
      <3> QED
        BY <3>2
    <2>4. CASE Asks(log[s], cursor[s][Worker])
      <3>1. PICK n \in (cursor[s][Worker] + 1)..Len(log[s]) : WakesWorker(log[s][n])
        BY <2>4 DEF Asks
      <3>2. n \in WakeReasons(s, Worker, runs, log[s])
        BY <2>2, <3>1 DEF WakeReasons
      <3> QED
        BY <3>2
    <2> QED
      BY <2>1, <2>3, <2>4
  <1> QED
    BY <1>1, <1>2, <1>3, TypeCorrect, ReplayReproducesState, PTL DEF Spec
=============================================================================
