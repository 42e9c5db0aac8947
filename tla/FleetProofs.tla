---------------------------- MODULE FleetProofs ----------------------------
(***************************************************************************)
(* Proofs about Fleet, for every set of names, entries and reload slots.   *)
(* IInv is inductive as it stands: what a reload leaves behind depends     *)
(* only on the file, on what was owned and on what was skipped.            *)
(***************************************************************************)
EXTENDS Fleet, TLAPS

IInv == TypeOK /\ OwnedIsCurrent /\ OnlySkippedLinger

\* Only these variables appear in the two invariants about the registry.
registryVars == <<registry, owned, loaded, skipped>>

\* What holds of the registry depends on these variables alone.
LEMMA RegistryUntouched ==
    ASSUME OwnedIsCurrent, OnlySkippedLinger, UNCHANGED registryVars
    PROVE  OwnedIsCurrent' /\ OnlySkippedLinger'
BY DEF OwnedIsCurrent, OnlySkippedLinger, registryVars

-----------------------------------------------------------------------------
\* Before the first boot nothing is registered or owned.
LEMMA InitHolds == Init => IInv
<1> SUFFICES ASSUME Init PROVE IInv
  OBVIOUS
<1>1. TypeOK
  BY DEF Init, TypeOK, NoFile, Entries, Idle
<1>2. OwnedIsCurrent
  BY FleetAssumption DEF Init, OwnedIsCurrent, NoFile
<1>3. OnlySkippedLinger
  BY FleetAssumption DEF Init, OnlySkippedLinger, NoFile
<1> QED
  BY <1>1, <1>2, <1>3 DEF IInv

-----------------------------------------------------------------------------
(* The boot and the reload write the registry. *)

\* The boot registers the environment's providers, then the file's.
LEMMA StartKeepsIInv ==
    ASSUME IInv, StartGateway
    PROVE  IInv'
<1> USE DEF IInv
<1>1. PICK overridden \in SUBSET (EnvProviders \cap Good) :
          registry' = [n \in Names |->
              CASE n \in EnvProviders \ overridden -> Env
                [] n \in Good /\ n \notin EnvProviders \ overridden -> file[n]
                [] OTHER -> None]
  BY DEF StartGateway
<1>2. /\ owned' = Good
      /\ loaded' = file
      /\ skipped' = Present \ Good
      /\ file' = file
      /\ file \in [Names -> Entries]
  BY DEF StartGateway, TypeOK, fileVars
<1>3. ASSUME NEW n \in Names
      PROVE  /\ registry'[n] \in Configs \cup {Env, None}
             /\ registry'[n] \in Configs => n \in Good
             /\ n \in Good => \/ registry'[n] = file[n]
                              \/ n \in EnvProviders /\ registry'[n] = Env
  <2>1. CASE n \in EnvProviders \ overridden
    BY <1>1, <2>1, FleetAssumption
  <2>2. CASE n \notin EnvProviders \ overridden /\ n \in Good
    BY <1>1, <2>2 DEF Good
  <2>3. CASE n \notin EnvProviders \ overridden /\ n \notin Good
    BY <1>1, <2>3, FleetAssumption
  <2> QED
    BY <2>1, <2>2, <2>3
<1>4. TypeOK'
  <2>1. registry' \in [Names -> Configs \cup {Env, None}]
    BY <1>1, <1>3
  <2>2. owned' \subseteq Names /\ skipped' \subseteq Names
    BY <1>2 DEF Good, Present
  <2>3. probe' \in [Passes -> [Names -> {"idle", "asking", "sleeping", "again"}]]
    BY DEF StartGateway, Asking, Idle
  <2> QED
    BY <1>2, <2>1, <2>2, <2>3
    DEF TypeOK, StartGateway, Passes, fileVars
<1>5. OwnedIsCurrent'
  BY <1>2, <1>3 DEF OwnedIsCurrent, Good
<1>6. OnlySkippedLinger'
  BY <1>2, <1>3 DEF OnlySkippedLinger
<1> QED
  BY <1>4, <1>5, <1>6

\* A reload registers what is good, and takes out what it owned and lost.
LEMMA ReloadKeepsIInv ==
    ASSUME IInv, NEW q \in Reloads, Reload(q)
    PROVE  IInv'
<1> USE DEF IInv
<1>1. /\ owned' = Good
      /\ loaded' = file
      /\ skipped' = (skipped \ Good) \cup (Present \ Good)
      /\ file' = file
      /\ file \in [Names -> Entries]
      /\ registry \in [Names -> Configs \cup {Env, None}]
  BY DEF Reload, TypeOK, fileVars
<1>2. ASSUME NEW n \in Names
      PROVE  /\ n \in Good => registry'[n] = file[n]
             /\ n \in owned \ Present => registry'[n] = None
             /\ n \notin Good /\ n \notin owned \ Present =>
                   registry'[n] = registry[n]
  <2>1. CASE n \in Good
    BY <2>1, FleetAssumption DEF Reload, Reconciled, Good, Present
  <2>2. CASE n \notin Good /\ n \in owned \ Present
    BY <2>2 DEF Reload, Reconciled
  <2>3. CASE n \notin Good /\ n \notin owned \ Present
    BY <2>3 DEF Reload, Reconciled
  <2> QED
    BY <2>1, <2>2, <2>3
<1>3. TypeOK'
  <2>1. registry' \in [Names -> Configs \cup {Env, None}]
    <3>1. DOMAIN registry' = Names /\ registry' = [n \in Names |-> registry'[n]]
      BY DEF Reload
    <3>2. ASSUME NEW n \in Names PROVE registry'[n] \in Configs \cup {Env, None}
      BY <1>1, <1>2 DEF Good
    <3> QED
      BY <3>1, <3>2
  <2>2. owned' \subseteq Names /\ skipped' \subseteq Names
    BY <1>1 DEF Good, Present, TypeOK
  <2>3. probe' \in [Passes -> [Names -> {"idle", "asking", "sleeping", "again"}]]
    BY DEF Reload, Asking, TypeOK
  <2> QED
    BY <1>1, <2>1, <2>2, <2>3 DEF TypeOK, Reload, Passes, fileVars
<1>4. OwnedIsCurrent'
  BY <1>1, <1>2 DEF OwnedIsCurrent, Good
<1>5. OnlySkippedLinger'
  <2> SUFFICES ASSUME NEW n \in Names, registry'[n] \in Configs, n \notin Good
               PROVE  n \in skipped'
    BY <1>1 DEF OnlySkippedLinger
  <2>1. n \notin owned \ Present
    BY <1>2, FleetAssumption
  <2>2. registry[n] \in Configs
    BY <1>2, <2>1
  <2>3. n \in owned \cup skipped
    BY <2>2 DEF OnlySkippedLinger
  <2> QED
    BY <1>1, <2>1, <2>3
<1> QED
  BY <1>3, <1>4, <1>5

\* A stopped gateway owns nothing.
LEMMA StopKeepsIInv ==
    ASSUME IInv, StopGateway
    PROVE  IInv'
<1>1. TypeOK'
  BY DEF IInv, TypeOK, StopGateway, NoFile, Entries, Idle, fileVars
<1>2. OwnedIsCurrent'
  BY FleetAssumption DEF StopGateway, OwnedIsCurrent, NoFile
<1>3. OnlySkippedLinger'
  BY FleetAssumption DEF StopGateway, OnlySkippedLinger, NoFile
<1> QED
  BY <1>1, <1>2, <1>3 DEF IInv

-----------------------------------------------------------------------------
(* Every other step leaves the registry alone. *)

\* Writing the file, and the MCP tool that does, leave the registry alone.
LEMMA FileStepKeepsIInv ==
    ASSUME IInv,
           EditFile \/ BreakFile \/ DeregisterLoads \/ DeregisterWrites
               \/ DeregisterPosts
    PROVE  IInv'
<1>1. UNCHANGED gateway
  BY DEF EditFile, BreakFile, DeregisterLoads, DeregisterWrites, DeregisterPosts
<1>2. OwnedIsCurrent' /\ OnlySkippedLinger'
  BY <1>1, RegistryUntouched DEF IInv, gateway, registryVars
<1> USE DEF IInv, TypeOK, gateway, fileVars
<1>3. CASE EditFile
  BY <1>1, <1>2, <1>3 DEF EditFile
<1>4. CASE BreakFile
  BY <1>1, <1>2, <1>4 DEF BreakFile
<1>5. CASE DeregisterLoads
  <2>1. PICK n \in Present :
            mcp' = [step |-> "loaded", name |-> n,
                    remaining |-> [file EXCEPT ![n] = None]]
    BY <1>5 DEF DeregisterLoads
  <2>2. [file EXCEPT ![n] = None] \in [Names -> Entries]
    BY DEF Entries
  <2>3. mcp' \in [step : {"idle", "loaded", "written"},
                  name : Names, remaining : [Names -> Entries]]
    BY <2>1, <2>2 DEF Present
  <2> QED
    BY <1>1, <1>2, <1>5, <2>3 DEF DeregisterLoads
<1>6. CASE DeregisterWrites
  <2>1. NoFile \in [Names -> Entries]
    BY DEF NoFile, Entries
  <2> QED
    BY <1>1, <1>2, <1>6, <2>1 DEF DeregisterWrites
<1>7. CASE DeregisterPosts
  BY <1>1, <1>2, <1>7 DEF DeregisterPosts
<1> QED
  BY <1>3, <1>4, <1>5, <1>6, <1>7

\* Discovery asks upstreams and leaves the registry alone.
LEMMA DiscoveryKeepsIInv ==
    ASSUME IInv, NEW j \in Passes, Discovery(j)
    PROVE  IInv'
<1>1. UNCHANGED <<fileVars, registryVars, mcp>>
  BY DEF Discovery, Settled, EmptyAtBoot, AskAgain, PassEnds,
         registryVars
<1>2. OwnedIsCurrent' /\ OnlySkippedLinger'
  BY <1>1, RegistryUntouched DEF IInv
<1>3. mode' \in {"down", "booting", "up"} /\ running' \subseteq Passes
  BY DEF IInv, TypeOK, Discovery, Settled, EmptyAtBoot, AskAgain, PassEnds
<1>4. probe' \in [Passes -> [Names -> {"idle", "asking", "sleeping", "again"}]]
  <2>1. probe \in [Passes -> [Names -> {"idle", "asking", "sleeping", "again"}]]
    BY DEF IInv, TypeOK
  <2>2. \/ probe' = probe
        \/ \E i \in Passes, n \in Names, x \in {"idle", "sleeping", "again"} :
              probe' = [probe EXCEPT ![i][n] = x]
    BY DEF Discovery, Settled, EmptyAtBoot, AskAgain, PassEnds
  <2> QED
    BY <2>1, <2>2
<1> QED
  BY <1>1, <1>2, <1>3, <1>4 DEF IInv, TypeOK, fileVars, registryVars

-----------------------------------------------------------------------------
\* Every step keeps the invariant.
LEMMA NextKeepsIInv == IInv /\ [Next]_vars => IInv'
<1> SUFFICES ASSUME IInv, [Next]_vars PROVE IInv'
  OBVIOUS
<1>1. CASE EditFile \/ BreakFile \/ DeregisterLoads \/ DeregisterWrites
               \/ DeregisterPosts
  BY <1>1, FileStepKeepsIInv
<1>2. CASE StartGateway
  BY <1>2, StartKeepsIInv
<1>3. CASE StopGateway
  BY <1>3, StopKeepsIInv
<1>4. CASE \E q \in Reloads : Reload(q)
  BY <1>4, ReloadKeepsIInv
<1>5. CASE \E j \in Passes : Discovery(j)
  BY <1>5, DiscoveryKeepsIInv
<1>6. CASE UNCHANGED vars
  BY <1>6 DEF IInv, TypeOK, OwnedIsCurrent, OnlySkippedLinger, vars, gateway, fileVars
<1> QED
  BY <1>1, <1>2, <1>3, <1>4, <1>5, <1>6 DEF Next

\* The invariant holds in every state.
LEMMA SpecKeepsIInv == Spec => []IInv
BY InitHolds, NextKeepsIInv, PTL DEF Spec

-----------------------------------------------------------------------------
\* Every state variable keeps its type.
THEOREM TypeCorrect == Spec => []TypeOK
BY SpecKeepsIInv, PTL DEF IInv

\* The adapter registered under an owned name is the one of the entry last
\* read, and the names owned are those of the good entries last read.
THEOREM OwnedProvidersAreCurrent == Spec => []OwnedIsCurrent
BY SpecKeepsIInv, PTL DEF IInv

\* A provider that outlives its entry is one whose entry turned bad before.
THEOREM LingeringWasSkipped == Spec => []OnlySkippedLinger
BY SpecKeepsIInv, PTL DEF IInv

\* No reload takes an environment's provider away under a name that no good
\* entry bears or bore.
THEOREM EnvironmentUndisturbed == Spec => EnvProvidersStay
<1>1. [Next]_vars => DisturbsOwnedOnly
  <2> SUFFICES ASSUME [Next]_vars, NEW n \in EnvProviders,
                      registry[n] = Env, registry'[n] # Env, mode' # "down"
               PROVE  n \in owned \cup owned'
    BY DEF DisturbsOwnedOnly
  <2>1. n \in Names
    BY FleetAssumption
  <2>2. CASE EditFile \/ BreakFile \/ DeregisterLoads \/ DeregisterWrites
                 \/ DeregisterPosts
    BY <2>2 DEF EditFile, BreakFile, DeregisterLoads, DeregisterWrites,
                DeregisterPosts, gateway
  <2>3. CASE StartGateway
    <3>1. PICK overridden \in SUBSET (EnvProviders \cap Good) :
              registry' = [m \in Names |->
                  CASE m \in EnvProviders \ overridden -> Env
                    [] m \in Good /\ m \notin EnvProviders \ overridden -> file[m]
                    [] OTHER -> None]
      BY <2>3 DEF StartGateway
    <3>2. n \in overridden
      BY <2>1, <3>1
    <3> QED
      BY <2>3, <3>2 DEF StartGateway
  <2>4. CASE StopGateway
    BY <2>4 DEF StopGateway
  <2>5. CASE \E q \in Reloads : Reload(q)
    <3>1. PICK q \in Reloads : Reload(q)
      BY <2>5
    <3>2. n \in Good \/ n \in owned \ Present
      BY <2>1, <3>1 DEF Reload, Reconciled
    <3> QED
      BY <3>1, <3>2 DEF Reload
  <2>6. CASE \E j \in Passes : Discovery(j)
    BY <2>6 DEF Discovery, Settled, EmptyAtBoot, AskAgain, PassEnds
  <2>7. CASE UNCHANGED vars
    BY <2>7 DEF vars, gateway
  <2> QED
    BY <2>2, <2>3, <2>4, <2>5, <2>6, <2>7 DEF Next
<1> QED
  BY <1>1, PTL DEF Spec, EnvProvidersStay
=============================================================================
