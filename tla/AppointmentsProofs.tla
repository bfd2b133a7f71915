------------------------- MODULE AppointmentsProofs -------------------------
(***************************************************************************)
(* Theorems about Appointments, for all service users, account lists and   *)
(* bounds: conversations are not shared, turns are recorded in the         *)
(* conversation their run resumed, and roles act as who may fill them.     *)
(***************************************************************************)
EXTENDS Appointments, FiniteSetTheorems, WellFoundedInduction, TLAPS

(* The resume tokens in use were all made up before, so the next is new. *)
TokensKnown ==
  /\ tokens \in Nat
  /\ \A k \in DOMAIN threads : threads[k] \in 1..tokens

(* A run that is acquired keeps the thread it was leased with: the thread  *)
(* is still there, under the run's own account, with the same token.       *)
RunsKeepThreads ==
  /\ run = [r \in Roles |-> run[r]]
  /\ \A r \in Roles : run[r] # Free =>
       /\ <<r, run[r].account>> \in DOMAIN threads
       /\ threads[<<r, run[r].account>>] = run[r].token

(* The inductive invariant. *)
ThreadsInv == TokensKnown /\ RunsKeepThreads /\ ThreadsNotShared /\ TurnsInTheirThread

(* What _ensure_agent_thread returns for an identity that has its thread:  *)
(* nothing changes, and no token is made up.                               *)
LEMMA ThreadKept ==
  ASSUME NEW r, NEW a, <<r, a>> \in DOMAIN threads
  PROVE  Threads(r, a) = threads /\ ~Made(r, a)
  BY DEF Threads, Made

(* An identity without a thread adopts that of its role.                   *)
LEMMA ThreadAdopted ==
  ASSUME NEW r, NEW a, <<r, a>> \notin DOMAIN threads, <<r, NoAccount>> \in DOMAIN threads
  PROVE  /\ DOMAIN Threads(r, a) = (DOMAIN threads \ {<<r, NoAccount>>}) \cup {<<r, a>>}
         /\ Threads(r, a)[<<r, a>>] = threads[<<r, NoAccount>>]
         /\ \A k \in DOMAIN threads \ {<<r, NoAccount>>} : Threads(r, a)[k] = threads[k]
         /\ ~Made(r, a)
  BY DEF Threads, Made

(* If the role has none either, the thread is a new one. *)
LEMMA ThreadMade ==
  ASSUME NEW r, NEW a, <<r, a>> \notin DOMAIN threads, <<r, NoAccount>> \notin DOMAIN threads
  PROVE  /\ DOMAIN Threads(r, a) = DOMAIN threads \cup {<<r, a>>}
         /\ Threads(r, a)[<<r, a>>] = tokens + 1
         /\ \A k \in DOMAIN threads : Threads(r, a)[k] = threads[k]
         /\ Made(r, a)
  BY DEF Threads, Made

(* In each case the identity has a thread, tokens stay known and unshared, *)
(* and the threads of the other role are left alone.                       *)
LEMMA ThreadEnsured ==
  ASSUME NEW r \in Roles, NEW a, TokensKnown, ThreadsNotShared,
         threads' = Threads(r, a),
         tokens' = IF Made(r, a) THEN tokens + 1 ELSE tokens
  PROVE  /\ TokensKnown' /\ ThreadsNotShared'
         /\ <<r, a>> \in DOMAIN threads'
         /\ \A k \in DOMAIN threads : k[1] # r => k \in DOMAIN threads' /\ threads'[k] = threads[k]
  <1>1. CASE <<r, a>> \in DOMAIN threads
    <2>1. threads' = threads /\ tokens' = tokens
      BY <1>1, ThreadKept
    <2> QED
      BY <1>1, <2>1 DEF TokensKnown, ThreadsNotShared, IsInjective
  <1>2. CASE <<r, a>> \notin DOMAIN threads /\ <<r, NoAccount>> \in DOMAIN threads
    <2>1. /\ DOMAIN threads' = (DOMAIN threads \ {<<r, NoAccount>>}) \cup {<<r, a>>}
          /\ threads'[<<r, a>>] = threads[<<r, NoAccount>>]
          /\ \A k \in DOMAIN threads \ {<<r, NoAccount>>} : threads'[k] = threads[k]
          /\ tokens' = tokens
      BY <1>2, ThreadAdopted
    <2>2. TokensKnown'
      BY <1>2, <2>1 DEF TokensKnown
    <2>3. ThreadsNotShared'
      BY <1>2, <2>1 DEF ThreadsNotShared, IsInjective
    <2> QED
      BY <2>1, <2>2, <2>3
  <1>3. CASE <<r, a>> \notin DOMAIN threads /\ <<r, NoAccount>> \notin DOMAIN threads
    <2>1. /\ DOMAIN threads' = DOMAIN threads \cup {<<r, a>>}
          /\ threads'[<<r, a>>] = tokens + 1
          /\ \A k \in DOMAIN threads : threads'[k] = threads[k]
          /\ tokens' = tokens + 1
      BY <1>3, ThreadMade
    <2>2. TokensKnown'
      BY <2>1 DEF TokensKnown
    <2>3. ThreadsNotShared'
      BY <1>3, <2>1 DEF ThreadsNotShared, IsInjective, TokensKnown
    <2> QED
      BY <2>1, <2>2, <2>3
  <1> QED
    BY <1>1, <1>2, <1>3

(* Everything begins without threads. *)
LEMMA ThreadsInit == Init => ThreadsInv
  <1> SUFFICES ASSUME Init PROVE ThreadsInv
    OBVIOUS
  <1>1. DOMAIN threads = {} /\ tokens = 0 /\ turn = <<0, 0>> /\ run = [r \in Roles |-> Free]
    BY DEF Init
  <1> QED
    BY <1>1 DEF ThreadsInv, TokensKnown, RunsKeepThreads, ThreadsNotShared, IsInjective,
                TurnsInTheirThread

(* A lease fixes the thread of its run.  The thread that an account adopts *)
(* was its role's, and the role has no run at that time.                   *)
LEMMA LeaseKeepsThreads ==
  ASSUME ThreadsInv, NEW r \in Roles, NEW up, Lease(r, up)
  PROVE  ThreadsInv'
  <1> DEFINE a == Appointed(r, up)
  <1>1. /\ threads' = Threads(r, a) /\ tokens' = (IF Made(r, a) THEN tokens + 1 ELSE tokens)
        /\ turn' = turn /\ run[r] = Free
        /\ run' = [run EXCEPT ![r] = [account |-> a, provider |-> ProviderFor(r, a),
                                      token |-> Threads(r, a)[<<r, a>>]]]
    BY DEF Lease
  <1> HIDE DEF a
  <1>2. /\ TokensKnown' /\ ThreadsNotShared' /\ <<r, a>> \in DOMAIN threads'
        /\ \A k \in DOMAIN threads : k[1] # r => k \in DOMAIN threads' /\ threads'[k] = threads[k]
    BY <1>1, ThreadEnsured DEF ThreadsInv
  <1>3. RunsKeepThreads'
    <2>1. /\ run' = [q \in Roles |-> run'[q]]
          /\ \A q \in Roles : q # r => run'[q] = run[q]
          /\ run'[r].account = a /\ run'[r].token = threads'[<<r, a>>]
      BY <1>1 DEF ThreadsInv, RunsKeepThreads
    <2>2. ASSUME NEW q \in Roles, run'[q] # Free
          PROVE  /\ <<q, run'[q].account>> \in DOMAIN threads'
                 /\ threads'[<<q, run'[q].account>>] = run'[q].token
      <3>1. CASE q = r
        BY <1>2, <2>1, <3>1
      <3>2. CASE q # r
        <4>1. /\ <<q, run[q].account>> \in DOMAIN threads
              /\ threads[<<q, run[q].account>>] = run[q].token
          BY <2>1, <2>2, <3>2 DEF ThreadsInv, RunsKeepThreads
        <4>2. <<q, run[q].account>>[1] # r
          BY <3>2
        <4> QED
          BY <1>2, <2>1, <3>2, <4>1, <4>2
      <3> QED
        BY <3>1, <3>2
    <2> QED
      BY <2>1, <2>2 DEF RunsKeepThreads
  <1> QED
    BY <1>1, <1>2, <1>3 DEF ThreadsInv, TurnsInTheirThread

(* A commit finds the thread of its run where the lease left it. *)
LEMMA CommitKeepsThreads ==
  ASSUME ThreadsInv, NEW r \in Roles, Commit(r)
  PROVE  ThreadsInv'
  <1>1. <<r, run[r].account>> \in DOMAIN threads /\ threads[<<r, run[r].account>>] = run[r].token
    BY DEF Commit, ThreadsInv, RunsKeepThreads
  <1>2. Threads(r, run[r].account) = threads /\ ~Made(r, run[r].account)
    BY <1>1, ThreadKept
  <1>3. /\ threads' = threads /\ tokens' = tokens /\ turn' = <<run[r].token, run[r].token>>
        /\ run' = [run EXCEPT ![r] = Free]
    BY <1>1, <1>2 DEF Commit, RecordedFor
  <1> QED
    BY <1>3 DEF ThreadsInv, TokensKnown, RunsKeepThreads, ThreadsNotShared, IsInjective,
                TurnsInTheirThread

(* Every step keeps the invariant. *)
LEMMA ThreadsNext == ThreadsInv /\ [Next]_vars => ThreadsInv'
  <1> SUFFICES ASSUME ThreadsInv, [Next]_vars PROVE ThreadsInv'
    OBVIOUS
  <1> USE DEF ThreadsInv, TokensKnown, RunsKeepThreads, ThreadsNotShared, IsInjective,
              TurnsInTheirThread
  <1>1. ASSUME NEW x \in DOMAIN NewServices, CreateServiceUser(x) PROVE ThreadsInv'
    BY <1>1 DEF CreateServiceUser
  <1>2. ASSUME NEW r \in Roles, NEW p \in Providers, SetAgentProvider(r, p) PROVE ThreadsInv'
    BY <1>2 DEF SetAgentProvider
  <1>3. ASSUME NEW r \in Roles, NEW l \in Rosters, SetAgentAccounts(r, l) PROVE ThreadsInv'
    BY <1>3 DEF SetAgentAccounts
  <1>4. ASSUME NEW r \in Roles, NEW up, Lease(r, up) PROVE ThreadsInv'
    BY <1>4, LeaseKeepsThreads
  <1>5. ASSUME NEW r \in Roles, Commit(r) PROVE ThreadsInv'
    BY <1>5, CommitKeepsThreads
  <1>6. ASSUME NEW r \in Roles, Fail(r) PROVE ThreadsInv'
    BY <1>6 DEF Fail
  <1>7. CASE UNCHANGED vars
    BY <1>7 DEF vars
  <1> QED
    BY <1>1, <1>2, <1>3, <1>4, <1>5, <1>6, <1>7 DEF Next

(* No two identities, of one role or of two, resume the same conversation: *)
(* _ensure_agent_thread moves a thread and never copies it.                *)
THEOREM ConversationsNotShared == Spec => []ThreadsNotShared
  BY ThreadsInit, ThreadsNext, PTL DEF Spec, ThreadsInv

(* A turn is recorded in the thread its run resumed, however often         *)
(* accounts and profiles are changed while the provider is at work.        *)
THEOREM TurnsRecordedInTheirThread == Spec => []TurnsInTheirThread
  BY ThreadsInit, ThreadsNext, PTL DEF Spec, ThreadsInv

-----------------------------------------------------------------------------
(***************************************************************************)
(* Appointments.                                                           *)
(***************************************************************************)
(* Among finite subsets of a set there is one that has no other of them as *)
(* a strict subset.                                                        *)
LEMMA SmallestSubset ==
  ASSUME NEW C, NEW T, T # {}, \A x \in T : x \in SUBSET C /\ IsFiniteSet(x)
  PROVE  \E x \in T : \A y \in T : y \subseteq x => y = x
  <1>1. T \subseteq FiniteSubsetsOf(C)
    BY DEF FiniteSubsetsOf
  <1>2. IsWellFoundedOn(StrictSubsetOrdering(C), FiniteSubsetsOf(C))
    BY FS_StrictSubsetOrderingWellFounded
  <1>3. PICK x \in T : \A y \in T : ~(<<y, x>> \in StrictSubsetOrdering(C))
    BY <1>1, <1>2, WFMin
  <1> QED
    BY <1>3 DEF StrictSubsetOrdering

(* A set of numbers has a least one, and Min is a member of it. *)
LEMMA MinMember ==
  ASSUME NEW N \in SUBSET Nat, N # {}
  PROVE  Min(N) \in N /\ \A k \in N : Min(N) <= k
  <1> DEFINE upTo(n) == 0..(n - 1)
             T == {upTo(n) : n \in N}
  <1>1. \A n \in N : n \in Nat /\ upTo(n) \in SUBSET Nat /\ IsFiniteSet(upTo(n))
    BY FS_Interval
  <1>2. PICK x \in T : \A y \in T : y \subseteq x => y = x
    <2>1. T # {} /\ \A x \in T : x \in SUBSET Nat /\ IsFiniteSet(x)
      BY <1>1
    <2> HIDE DEF T
    <2> QED
      BY <2>1, SmallestSubset
  <1>3. PICK m \in N : x = upTo(m)
    BY <1>2
  <1>4. ASSUME NEW k \in N, k < m PROVE FALSE
    <2>1. k \in Nat /\ m \in Nat
      OBVIOUS
    <2>2. upTo(k) \subseteq upTo(m) /\ k \in upTo(m) /\ k \notin upTo(k)
      BY <1>4, <2>1
    <2> QED
      BY <1>2, <1>3, <2>2
  <1>5. \A k \in N : m <= k
    BY <1>4
  <1> QED
    BY <1>5 DEF Min

(* Whoever is listed in a profile can fill the slot: set_agent_accounts    *)
(* and set_agent_provider look, and a service user keeps its groups.       *)
ProfilesEligible ==
  \A r \in Roles : \A n \in DOMAIN Accounts(r) : Eligible(Accounts(r)[n], r)
(* The inductive invariant. *)
AppointmentsInv == TypeOK /\ ProfilesEligible /\ ThreadsInv

(* Who is appointed is one of those listed, if anybody is. *)
LEMMA AppointedIsListed ==
  ASSUME TypeOK, ProfilesEligible, NEW r \in Roles, NEW up
  PROVE  /\ DOMAIN Accounts(r) = {} => Appointed(r, up) = NoAccount
         /\ DOMAIN Accounts(r) # {} =>
              \E n \in DOMAIN Accounts(r) :
                /\ Appointed(r, up) = Accounts(r)[n]
                /\ Up(r, up) # {} => n \in Up(r, up)
  <1>1. DOMAIN Accounts(r) \in SUBSET Nat
    BY DEF TypeOK, Accounts
  <1>2. Capable(r) = DOMAIN Accounts(r) /\ Up(r, up) \subseteq Capable(r)
    BY DEF Capable, Up, ProfilesEligible
  <1>3. CASE Up(r, up) # {}
    <2>1. Min(Up(r, up)) \in Up(r, up) /\ Appointed(r, up) = Accounts(r)[Min(Up(r, up))]
      BY <1>1, <1>2, <1>3, MinMember DEF Appointed, First
    <2> QED
      BY <1>2, <2>1
  <1>4. CASE Up(r, up) = {} /\ Capable(r) # {}
    <2>1. Min(Capable(r)) \in Capable(r) /\ Appointed(r, up) = Accounts(r)[Min(Capable(r))]
      BY <1>1, <1>2, <1>4, MinMember DEF Appointed, First
    <2> QED
      BY <1>2, <1>4, <2>1
  <1>5. CASE Capable(r) = {}
    BY <1>2, <1>5 DEF Appointed, First
  <1> QED
    BY <1>3, <1>4, <1>5

(* Its name and its provider are known. *)
LEMMA AppointedIsKnown ==
  ASSUME TypeOK, ProfilesEligible, NEW r \in Roles, NEW up
  PROVE  /\ Appointed(r, up) \in Names \cup {NoAccount}
         /\ ProviderFor(r, Appointed(r, up)) \in Providers
  <1> DEFINE a == Appointed(r, up)
  <1>1. a = NoAccount \/ Eligible(a, r)
    BY AppointedIsListed DEF ProfilesEligible
  <1> HIDE DEF a
  <1>2. Eligible(a, r) => a \in Names /\ service[a] \in Service
    BY DEF Eligible, TypeOK
  <1>3. profile[r].provider \in Providers
    BY DEF TypeOK
  <1>4. Eligible(a, r) => ProviderOf(a, r) \in Providers
    BY <1>2, <1>3 DEF ProviderOf, Service
  <1> QED
    BY <1>1, <1>2, <1>3, <1>4 DEF ProviderFor, a

(* The invariant gives what the role acts as. *)
LEMMA ListedIsHonoured == TypeOK /\ ProfilesEligible => AppointmentsHonoured
  <1> SUFFICES ASSUME TypeOK, ProfilesEligible, NEW r \in Roles, NEW up \in SUBSET {"codex", "claude"}
               PROVE  LET a == Appointed(r, up)
                          listed == ToSet(profile[r].accounts)
                      IN IF listed = {} THEN a = NoAccount
                         ELSE /\ a \in listed /\ r \in service[a].groups
                              /\ (\E b \in listed : ProviderOf(b, r) \in up)
                                   => ProviderOf(a, r) \in up \cup {"local", "remote-aize"}
    BY DEF AppointmentsHonoured
  <1> DEFINE listed == ToSet(profile[r].accounts)
             a == Appointed(r, up)
  <1>1. listed = {Accounts(r)[n] : n \in DOMAIN Accounts(r)}
    BY DEF ToSet, Accounts
  <1>2. CASE DOMAIN Accounts(r) = {}
    BY <1>1, <1>2, AppointedIsListed
  <1>3. CASE DOMAIN Accounts(r) # {}
    <2>1. PICK n \in DOMAIN Accounts(r) : /\ a = Accounts(r)[n]
                                          /\ Up(r, up) # {} => n \in Up(r, up)
      BY <1>3, AppointedIsListed
    <2>2. a \in listed /\ r \in service[a].groups
      BY <1>1, <2>1 DEF ProfilesEligible, Eligible
    <2>3. ASSUME NEW b \in listed, ProviderOf(b, r) \in up
          PROVE  ProviderOf(a, r) \in up \cup {"local", "remote-aize"}
      <3>1. PICK k \in DOMAIN Accounts(r) : b = Accounts(r)[k]
        BY <1>1
      <3>2. k \in Up(r, up)
        BY <2>3, <3>1 DEF Up, Capable, ProfilesEligible
      <3>3. n \in Up(r, up)
        BY <2>1, <3>2
      <3> QED
        BY <2>1, <3>3 DEF Up
    <2> QED
      BY <1>1, <1>3, <2>2, <2>3
  <1> QED
    BY <1>2, <1>3

LEMMA AppointmentsInit == Init => AppointmentsInv
  <1> SUFFICES ASSUME Init PROVE AppointmentsInv
    OBVIOUS
  <1>1. /\ service = [p \in Registered |-> [provider |-> p, groups |-> GroupsOf(p)]]
        /\ profile = [r \in Roles |-> [provider |-> "codex", accounts |-> <<"codex">>]]
        /\ DOMAIN threads = {} /\ tokens = 0 /\ run = [r \in Roles |-> Free]
    BY DEF Init
  <1>2. /\ "codex" \in Registered /\ "codex" \in Names /\ "codex" \in Providers
        /\ Registered \subseteq Providers /\ GroupsOf("codex") = Roles
        /\ \A p \in Registered : GroupsOf(p) \in SUBSET Roles
    BY DEF Registered, Providers, Names, GroupsOf, Roles
  <1>3. DOMAIN service \subseteq Names /\ service \in [DOMAIN service -> Service]
    BY <1>1, <1>2 DEF Names, Service
  <1>4. profile \in [Roles -> [provider : Providers, accounts : Seq(Names)]]
    <2>1. <<"codex">> \in Seq(Names)
      BY <1>2
    <2> QED
      BY <1>1, <1>2, <2>1
  <1>5. TypeOK
    BY <1>1, <1>3, <1>4 DEF TypeOK
  <1>6. ProfilesEligible
    <2>1. \A r \in Roles : Accounts(r) = <<"codex">>
      BY <1>1 DEF Accounts
    <2>2. \A r \in Roles : Eligible("codex", r)
      BY <1>1, <1>2 DEF Eligible
    <2> QED
      BY <2>1, <2>2 DEF ProfilesEligible
  <1> QED
    BY <1>5, <1>6, ThreadsInit DEF AppointmentsInv

(* The threads and tokens of a step that ensures a thread have their type. *)
LEMMA ThreadTyped ==
  ASSUME AppointmentsInv, NEW r \in Roles, NEW a \in Names \cup {NoAccount},
         threads' = Threads(r, a), tokens' = IF Made(r, a) THEN tokens + 1 ELSE tokens
  PROVE  /\ DOMAIN threads' \subseteq Roles \X (Names \cup {NoAccount})
         /\ \A k \in DOMAIN threads' : threads'[k] \in 1..tokens'
         /\ <<r, a>> \in DOMAIN threads' /\ 1..tokens \subseteq 1..tokens'
  <1>1. TokensKnown' /\ <<r, a>> \in DOMAIN threads'
    BY ThreadEnsured DEF AppointmentsInv, ThreadsInv
  <1>2. tokens \in Nat
    BY DEF AppointmentsInv, ThreadsInv, TokensKnown
  <1>3. DOMAIN threads \subseteq Roles \X (Names \cup {NoAccount})
    BY DEF AppointmentsInv, TypeOK
  <1>4. <<r, a>> \in Roles \X (Names \cup {NoAccount})
    OBVIOUS
  <1>5. DOMAIN threads' \subseteq DOMAIN threads \cup {<<r, a>>}
    <2>1. CASE <<r, a>> \in DOMAIN threads
      BY <2>1, ThreadKept
    <2>2. CASE <<r, a>> \notin DOMAIN threads /\ <<r, NoAccount>> \in DOMAIN threads
      BY <2>2, ThreadAdopted
    <2>3. CASE <<r, a>> \notin DOMAIN threads /\ <<r, NoAccount>> \notin DOMAIN threads
      BY <2>3, ThreadMade
    <2> QED
      BY <2>1, <2>2, <2>3
  <1> QED
    BY <1>1, <1>2, <1>3, <1>4, <1>5 DEF TokensKnown

(* Every step keeps the types and the profiles. *)
LEMMA AppointmentsNext == AppointmentsInv /\ [Next]_vars => AppointmentsInv'
  <1> SUFFICES ASSUME AppointmentsInv, [Next]_vars PROVE TypeOK' /\ ProfilesEligible'
    BY ThreadsNext DEF AppointmentsInv
  <1>0. TypeOK /\ ProfilesEligible /\ ThreadsInv
    BY DEF AppointmentsInv
  <1>1. ASSUME NEW a \in DOMAIN NewServices, CreateServiceUser(a) PROVE TypeOK' /\ ProfilesEligible'
    <2>1. /\ DOMAIN service' = DOMAIN service \cup {a} /\ a \notin DOMAIN service
          /\ service'[a] = NewServices[a]
          /\ \A b \in DOMAIN service : service'[b] = service[b]
          /\ service' = [b \in DOMAIN service' |-> service'[b]]
          /\ UNCHANGED <<profile, threads, run, turn, tokens>>
      BY <1>1 DEF CreateServiceUser
    <2>2. NewServices[a] \in Service /\ a \in Names
      BY ServicesAssumption DEF Names
    <2>3. \A b \in DOMAIN service' : b \in Names /\ service'[b] \in Service
      BY <1>0, <2>1, <2>2 DEF TypeOK
    <2>4. TypeOK'
      BY <1>0, <2>1, <2>3 DEF TypeOK
    <2>5. ProfilesEligible'
      BY <1>0, <2>1 DEF ProfilesEligible, Eligible, Accounts
    <2> QED
      BY <2>4, <2>5
  <1>2. ASSUME NEW r \in Roles, NEW p \in Providers, SetAgentProvider(r, p)
        PROVE  TypeOK' /\ ProfilesEligible'
    <2> DEFINE accounts == IF p = "local" THEN <<>> ELSE <<p>>
    <2>1. /\ profile' = [profile EXCEPT ![r] = [provider |-> p, accounts |-> accounts]]
          /\ p # "local" => Eligible(p, r)
          /\ UNCHANGED <<service, threads, run, turn, tokens>>
      BY <1>2 DEF SetAgentProvider
    <2>2. accounts \in Seq(Names)
      <3>1. p # "local" => p \in Names
        BY DEF Names, Registered
      <3>2. CASE p = "local"
        BY <3>2
      <3>3. CASE p # "local"
        BY <3>1, <3>3
      <3> QED
        BY <3>2, <3>3
    <2>3. \A n \in DOMAIN accounts : Eligible(accounts[n], r)
      BY <2>1
    <2> HIDE DEF accounts
    <2>4. TypeOK'
      BY <1>0, <2>1, <2>2 DEF TypeOK
    <2>5. ProfilesEligible'
      BY <1>0, <2>1, <2>3 DEF ProfilesEligible, Accounts, Eligible, TypeOK
    <2> QED
      BY <2>4, <2>5
  <1>3. ASSUME NEW r \in Roles, NEW accounts \in Rosters, SetAgentAccounts(r, accounts)
        PROVE  TypeOK' /\ ProfilesEligible'
    <2>1. /\ profile' = [profile EXCEPT ![r] = [profile[r] EXCEPT !.accounts = accounts]]
          /\ \A n \in DOMAIN accounts : Eligible(accounts[n], r)
          /\ UNCHANGED <<service, threads, run, turn, tokens>>
      BY <1>3 DEF SetAgentAccounts
    <2>2. accounts \in Seq(Names)
      BY ServicesAssumption
    <2>3. TypeOK'
      BY <1>0, <2>1, <2>2 DEF TypeOK
    <2>4. ProfilesEligible'
      BY <1>0, <2>1 DEF ProfilesEligible, Accounts, Eligible, TypeOK
    <2> QED
      BY <2>3, <2>4
  <1>4. ASSUME NEW r \in Roles, NEW up, Lease(r, up) PROVE TypeOK' /\ ProfilesEligible'
    <2> DEFINE a == Appointed(r, up)
    <2>1. a \in Names \cup {NoAccount} /\ ProviderFor(r, a) \in Providers
      BY <1>0, AppointedIsKnown
    <2>2. /\ threads' = Threads(r, a) /\ tokens' = (IF Made(r, a) THEN tokens + 1 ELSE tokens)
          /\ run' = [run EXCEPT ![r] = [account |-> a, provider |-> ProviderFor(r, a),
                                        token |-> Threads(r, a)[<<r, a>>]]]
          /\ UNCHANGED <<service, profile>>
      BY <1>4 DEF Lease
    <2> HIDE DEF a
    <2>3. /\ DOMAIN threads' \subseteq Roles \X (Names \cup {NoAccount})
          /\ \A k \in DOMAIN threads' : threads'[k] \in 1..tokens'
          /\ <<r, a>> \in DOMAIN threads' /\ 1..tokens \subseteq 1..tokens'
      BY <2>1, <2>2, ThreadTyped
    <2>4. run = [q \in Roles |-> run[q]]
      BY <1>0 DEF ThreadsInv, RunsKeepThreads
    <2>5. /\ run'[r].provider \in Providers /\ run'[r].token \in 1..tokens'
          /\ \A q \in Roles : q # r => run'[q] = run[q]
      BY <2>1, <2>2, <2>3, <2>4
    <2>6. \A q \in Roles :
            run'[q] = Free \/ (run'[q].provider \in Providers /\ run'[q].token \in 1..tokens')
      BY <1>0, <2>3, <2>5 DEF TypeOK
    <2>7. TypeOK'
      BY <1>0, <2>2, <2>3, <2>6 DEF TypeOK
    <2>8. ProfilesEligible'
      BY <1>0, <2>2 DEF ProfilesEligible, Accounts, Eligible
    <2> QED
      BY <2>7, <2>8
  <1>5. ASSUME NEW r \in Roles, Commit(r) PROVE TypeOK' /\ ProfilesEligible'
    <2>1. <<r, run[r].account>> \in DOMAIN threads
      BY <1>0, <1>5 DEF Commit, ThreadsInv, RunsKeepThreads
    <2>2. /\ threads' = threads /\ tokens' = tokens
          /\ run' = [run EXCEPT ![r] = Free] /\ UNCHANGED <<service, profile>>
      BY <1>5, <2>1, ThreadKept DEF Commit, RecordedFor
    <2> QED
      BY <1>0, <2>2 DEF TypeOK, ProfilesEligible, Accounts, Eligible, ThreadsInv, RunsKeepThreads
  <1>6. ASSUME NEW r \in Roles, Fail(r) PROVE TypeOK' /\ ProfilesEligible'
    BY <1>0, <1>6 DEF Fail, TypeOK, ProfilesEligible, Accounts, Eligible, ThreadsInv, RunsKeepThreads
  <1>7. CASE UNCHANGED vars
    BY <1>0, <1>7 DEF vars, TypeOK, ProfilesEligible, Accounts, Eligible
  <1> QED
    BY <1>1, <1>2, <1>3, <1>4, <1>5, <1>6, <1>7 DEF Next

(* A run acts through a known provider and resumes a thread that was made, *)
(* whichever accounts are set while it is at work.                         *)
THEOREM RunsTyped == Spec => []TypeOK
  BY AppointmentsInit, AppointmentsNext, PTL DEF Spec, AppointmentsInv

(* However profiles and services come about, a role with accounts acts as  *)
(* one of them that may fill it, and as one whose provider is up as long   *)
(* as there is one (_select_dispatch_account).                             *)
THEOREM EligibleAreAppointed == Spec => []AppointmentsHonoured
  <1>1. AppointmentsInv => AppointmentsHonoured
    BY ListedIsHonoured DEF AppointmentsInv
  <1> QED
    BY <1>1, AppointmentsInit, AppointmentsNext, PTL DEF Spec
=============================================================================
