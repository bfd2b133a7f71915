---------------------------- MODULE Appointments ----------------------------
(***************************************************************************)
(* Which identity and provider act for a role, and whose conversation they *)
(* resume: service users, the profiles of the two roles, the appointment   *)
(* made at a lease, and the agent threads of one Session.                  *)
(***************************************************************************)
EXTENDS Naturals, Sequences, SequencesExt

CONSTANTS
  NewServices,  (* service users an administrator may create               *)
  Rosters,      (* account lists set_agent_accounts is called with         *)
  MaxTokens     (* bound on the agent threads created                      *)

ASSUME TokensAssumption == MaxTokens \in Nat

Roles == {"GoalManager", "WorkerAgent"}
Providers == {"local", "codex", "claude", "remote-aize"}
(* PROVIDER_SERVICE_ACCOUNTS, registered when the state is initialised;    *)
(* an account is named by its provider, and its groups by their roles.     *)
Registered == Providers \ {"local"}
GroupsOf(p) == IF p = "remote-aize" THEN {"WorkerAgent"} ELSE Roles
Service == [provider : Providers \cup {""}, groups : SUBSET Roles]
Names == Registered \cup DOMAIN NewServices
ASSUME ServicesAssumption ==
  /\ NewServices \in [DOMAIN NewServices -> Service]
  /\ Registered \cap DOMAIN NewServices = {}
  /\ Rosters \subseteq Seq(Names)

NoAccount == ""
Free == [account |-> NoAccount, provider |-> "none", token |-> 0]

VARIABLES
  service,  (* the service users there are                                 *)
  profile,  (* agent_profiles: provider and accounts of each role          *)
  threads,  (* agent_threads: (role, account) -> resume_token              *)
  run,      (* the acquired run of each role                               *)
  turn,     (* of the last recorded turn, the token its run resumed and    *)
            (* the token of the thread it was recorded in                  *)
  tokens    (* how many resume tokens were made up                         *)

vars == <<service, profile, threads, run, turn, tokens>>

-----------------------------------------------------------------------------
Eligible(a, r) == a \in DOMAIN service /\ r \in service[a].groups

CreateServiceUser(a) ==
  /\ a \notin DOMAIN service
  /\ service' = [b \in DOMAIN service \cup {a} |-> IF b = a THEN NewServices[a] ELSE service[b]]
  /\ UNCHANGED <<profile, threads, run, turn, tokens>>

(* set_agent_provider: the provider's own account, if it can fill the slot *)
SetAgentProvider(r, p) ==
  /\ p # "local" => Eligible(p, r)
  /\ profile' = [profile EXCEPT ![r] =
       [provider |-> p, accounts |-> IF p = "local" THEN <<>> ELSE <<p>>]]
  /\ UNCHANGED <<service, threads, run, turn, tokens>>

(* set_agent_accounts: the profile's provider stays *)
SetAgentAccounts(r, accounts) ==
  /\ \A n \in DOMAIN accounts : Eligible(accounts[n], r)
  /\ profile' = [profile EXCEPT ![r].accounts = accounts]
  /\ UNCHANGED <<service, threads, run, turn, tokens>>

-----------------------------------------------------------------------------
(***************************************************************************)
(* _select_dispatch_account.  `up' is the set of providers whose program   *)
(* is installed; local and remote-aize count as available.                 *)
(***************************************************************************)
ProviderOf(a, r) == IF service[a].provider = "" THEN profile[r].provider ELSE service[a].provider
Accounts(r) == profile[r].accounts
(* The places in the list of those that can fill the slot, *)
Capable(r) == {n \in DOMAIN Accounts(r) : Eligible(Accounts(r)[n], r)}
(* and of those among them whose provider is up. *)
Up(r, up) ==
  {n \in Capable(r) : ProviderOf(Accounts(r)[n], r) \in up \cup {"local", "remote-aize"}}
First(r, places) == IF places = {} THEN NoAccount ELSE Accounts(r)[Min(places)]
(* Mutant: the first eligible account, whether its provider is up or not. *)
FirstCapable(r, up) == First(r, Capable(r))
Appointed(r, up) == First(r, IF Up(r, up) # {} THEN Up(r, up) ELSE Capable(r))
ProviderFor(r, a) == IF a = NoAccount THEN profile[r].provider ELSE ProviderOf(a, r)

(***************************************************************************)
(* _ensure_agent_thread.  The thread of an account is its own; one that    *)
(* has none yet adopts the thread of the role, which is there from runs    *)
(* without an account.  (The exception made for provider_threads does not  *)
(* arise: no provider call returns a provider_thread_id.)                  *)
(***************************************************************************)
(* Mutant: the adopted thread stays with the role too. *)
ThreadsShared(r, a) ==
  IF <<r, a>> \in DOMAIN threads THEN threads
  ELSE [k \in DOMAIN threads \cup {<<r, a>>} |->
          IF k # <<r, a>> THEN threads[k]
          ELSE IF <<r, NoAccount>> \in DOMAIN threads THEN threads[<<r, NoAccount>>]
          ELSE tokens + 1]
Threads(r, a) ==
  LET own == <<r, a>>
      legacy == <<r, NoAccount>>
  IN IF own \in DOMAIN threads THEN threads
     ELSE IF legacy \in DOMAIN threads
       THEN [k \in (DOMAIN threads \ {legacy}) \cup {own} |->
               IF k = own THEN threads[legacy] ELSE threads[k]]
     ELSE [k \in DOMAIN threads \cup {own} |-> IF k = own THEN tokens + 1 ELSE threads[k]]
(* Mutant: a new thread takes a token that was given out already. *)
NeverMade(r, a) == FALSE
Made(r, a) == {<<r, a>>, <<r, NoAccount>>} \cap DOMAIN threads = {}

(* The lease of a run appoints its identity and fixes its thread. *)
Lease(r, up) ==
  LET a == Appointed(r, up) IN
  /\ run[r] = Free
  /\ Made(r, a) => tokens < MaxTokens
  /\ threads' = Threads(r, a)
  /\ tokens' = IF Made(r, a) THEN tokens + 1 ELSE tokens
  /\ run' = [run EXCEPT ![r] =
       [account |-> a, provider |-> ProviderFor(r, a), token |-> Threads(r, a)[<<r, a>>]]]
  /\ UNCHANGED <<service, profile, turn>>

(* Mutant: the turn is recorded for whoever would be appointed now. *)
RecordedForAppointed(r) == Appointed(r, Providers)
RecordedFor(r) == run[r].account
(* The commit looks the thread up again and records the turn in it. *)
Commit(r) ==
  LET a == RecordedFor(r) IN
  /\ run[r] # Free
  /\ threads' = Threads(r, a)
  /\ tokens' = IF Made(r, a) THEN tokens + 1 ELSE tokens
  /\ turn' = <<run[r].token, Threads(r, a)[<<r, a>>]>>
  /\ run' = [run EXCEPT ![r] = Free]
  /\ UNCHANGED <<service, profile>>
(* An AgentError or a lost lease records no turn. *)
Fail(r) ==
  /\ run[r] # Free
  /\ run' = [run EXCEPT ![r] = Free]
  /\ UNCHANGED <<service, profile, threads, turn, tokens>>

Init ==
  /\ service = [p \in Registered |-> [provider |-> p, groups |-> GroupsOf(p)]]
  /\ profile = [r \in Roles |-> [provider |-> "codex", accounts |-> <<"codex">>]]
  /\ threads = << >> /\ turn = <<0, 0>> /\ tokens = 0
  /\ run = [r \in Roles |-> Free]

Next ==
  \/ \E a \in DOMAIN NewServices : CreateServiceUser(a)
  \/ \E r \in Roles, p \in Providers : SetAgentProvider(r, p)
  \/ \E r \in Roles, accounts \in Rosters : SetAgentAccounts(r, accounts)
  \/ \E r \in Roles, up \in SUBSET {"codex", "claude"} : Lease(r, up)
  \/ \E r \in Roles : Commit(r)
  \/ \E r \in Roles : Fail(r)
Spec == Init /\ [][Next]_vars

-----------------------------------------------------------------------------
(* Every component of the state has its type. *)
TypeOK ==
  /\ DOMAIN service \subseteq Names /\ service \in [DOMAIN service -> Service]
  /\ profile \in [Roles -> [provider : Providers, accounts : Seq(Names)]]
  /\ DOMAIN threads \subseteq Roles \X (Names \cup {NoAccount})
  /\ \A k \in DOMAIN threads : threads[k] \in 1..tokens
  /\ \A r \in Roles : run[r] = Free \/ (run[r].provider \in Providers /\ run[r].token \in 1..tokens)

(* A role with accounts always acts as one of them that is in the slot's   *)
(* group, and as one whose provider is up as long as there is one, however *)
(* the profile was put together (_select_dispatch_account).                *)
AppointmentsHonoured ==
  \A r \in Roles, up \in SUBSET {"codex", "claude"} :
    LET a == Appointed(r, up)
        listed == ToSet(profile[r].accounts)
    IN IF listed = {} THEN a = NoAccount
       ELSE /\ a \in listed /\ r \in service[a].groups
            /\ (\E b \in listed : ProviderOf(b, r) \in up)
                 => ProviderOf(a, r) \in up \cup {"local", "remote-aize"}

(* No two identities ever resume the same conversation, also after the     *)
(* thread of a role passed to an account.                                  *)
ThreadsNotShared == IsInjective(threads)

(* A turn is recorded in the thread its run resumed, although accounts and *)
(* profiles were changed while the provider was at work.                   *)
TurnsInTheirThread == turn[1] = turn[2]
=============================================================================
