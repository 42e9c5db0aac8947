------------------------------- MODULE Fleet -------------------------------
(***************************************************************************)
(* Which providers the gateway knows: the ProviderRegistry                 *)
(* (libs/sirius-core), the from-file providers and their reload            *)
(* (libs/provider-fromfile), the passes of model discovery                 *)
(* (libs/sirius-model-registry), and the tool of apps/sirius-mcp that      *)
(* takes a provider out of the file.                                       *)
(*                                                                         *)
(* Three processes share sirius-providers.yaml: llamactl, which edits it,  *)
(* the MCP server, which rewrites it, and the gateway, which reads it at   *)
(* boot and on POST /providers/reload.  Inside the gateway a reload        *)
(* reconciles the registry in one turn and then waits for one listModels() *)
(* per provider; any number of reloads may wait at the same time.          *)
(*                                                                         *)
(* An entry of the file is its content, a member of Configs, or Bad, one   *)
(* that novaProviderFor throws for; the file holds at most one entry for a *)
(* name.  The adapter built from an entry is represented by the entry.     *)
(*                                                                         *)
(* The models that a pass adds to the catalog, whatever has become of the  *)
(* provider since it was asked, are in Routing (Discover); here a pass has *)
(* only its progress, on which boots and reload requests wait.             *)
(*                                                                         *)
(* Definitions marked "Fault:" are as in Policy.                           *)
(***************************************************************************)
CONSTANTS
    Names,         \* provider names
    EnvProviders,  \* those the environment configures besides the file
    Configs,       \* contents of entries an adapter can be built from
    Bad,           \* an entry none can be built from
    Env,           \* the adapter of an EnvProvider
    None,          \* no entry, no adapter
    Reloads,       \* slots for concurrent reload requests
    Boot           \* the discovery pass of onApplicationBootstrap

ASSUME FleetAssumption ==
    /\ EnvProviders \subseteq Names
    /\ Bad # Env /\ Bad # None /\ Env # None
    /\ {Bad, Env, None} \cap Configs = {}
    /\ Boot \notin Reloads

VARIABLES
    file,       \* per name: the entry of sirius-providers.yaml
    wellFormed, \* the file parses as YAML
    mode,       \* of the gateway process: "down", "booting" or "up"
    registry,   \* ProviderRegistry.providers
    owned,      \* FromFileReloadService.owned
    running,    \* the discovery passes in progress
    probe,      \* per pass and name: where backfillProvider stands
    mcp,        \* sirius.providers.deregister: its step, name, and what to write
    loaded,     \* history: the entries the last boot or reload read
    skipped     \* history: names last read as Bad since this boot

fileVars == <<file, wellFormed>>
gateway == <<mode, registry, owned, running, probe, loaded, skipped>>
vars == <<fileVars, gateway, mcp>>

Entries == Configs \cup {Bad, None}
Passes == Reloads \cup {Boot}
Present == {n \in Names : file[n] # None}
Good == {n \in Names : file[n] \in Configs}

Idle == [n \in Names |-> "idle"]
\* A listModels() call for each of the names.
Asking(names) == [n \in Names |-> IF n \in names THEN "asking" ELSE "idle"]

TypeOK ==
    /\ file \in [Names -> Entries]
    /\ wellFormed \in BOOLEAN
    /\ mode \in {"down", "booting", "up"}
    /\ registry \in [Names -> Configs \cup {Env, None}]
    /\ owned \subseteq Names
    /\ running \subseteq Passes
    /\ probe \in [Passes -> [Names -> {"idle", "asking", "sleeping", "again"}]]
    /\ mcp \in [step : {"idle", "loaded", "written"},
                name : Names, remaining : [Names -> Entries]]
    /\ loaded \in [Names -> Entries]
    /\ skipped \subseteq Names

NoFile == [n \in Names |-> None]

Init ==
    /\ file \in [Names -> Entries]
    /\ wellFormed = TRUE
    /\ mode = "down"
    /\ registry = NoFile
    /\ owned = {}
    /\ running = {}
    /\ probe = [j \in Passes |-> Idle]
    /\ mcp \in [step : {"idle"}, name : Names, remaining : {NoFile}]
    /\ loaded = NoFile
    /\ skipped = {}

-----------------------------------------------------------------------------
(* llamactl and the operator's editor. *)

EditFile ==
    /\ \E n \in Names, e \in Entries : file' = [file EXCEPT ![n] = e]
    /\ wellFormed' = TRUE
    /\ UNCHANGED <<gateway, mcp>>

BreakFile ==
    /\ wellFormed' = FALSE
    /\ UNCHANGED <<file, gateway, mcp>>

-----------------------------------------------------------------------------
(* The gateway process. *)

\* The provider factories run.  Which of an environment's adapter and an entry
\* of the same name is registered last is up to the order of the factories.
\* A file that does not parse fails the boot.
StartGateway ==
    /\ mode = "down"
    /\ wellFormed
    /\ mode' = "booting"
    /\ \E overridden \in SUBSET (EnvProviders \cap Good) :
          registry' = [n \in Names |->
              CASE n \in EnvProviders \ overridden -> Env
                [] n \in Good /\ n \notin EnvProviders \ overridden -> file[n]
                [] OTHER -> None]
    /\ owned' = Good
    /\ running' = {Boot}
    /\ probe' = [j \in Passes |->
           IF j = Boot THEN Asking({n \in Names : registry'[n] # None}) ELSE Idle]
    /\ loaded' = file
    /\ skipped' = Present \ Good
    /\ UNCHANGED <<fileVars, mcp>>

\* The process stops or crashes: everything it knew was in memory.
StopGateway ==
    /\ mode # "down"
    /\ mode' = "down"
    /\ registry' = NoFile
    /\ owned' = {}
    /\ running' = {}
    /\ probe' = [j \in Passes |-> Idle]
    /\ loaded' = NoFile
    /\ skipped' = {}
    /\ UNCHANGED <<fileVars, mcp>>

\* Fault: an entry without a usable content is registered all the same.
ReconciledUnchecked(n) ==
    CASE n \in Present -> file[n]
      [] n \in owned \ Present -> None
      [] OTHER -> registry[n]

\* Fault: a provider that is still in the file is left as it is.
ReconciledKeepingOld(n) ==
    CASE n \in Good \ owned -> file[n]
      [] n \in owned \ Present -> None
      [] OTHER -> registry[n]

\* Fault: deleted entries are not unregistered.
ReconciledAddOnly(n) ==
    IF n \in Good THEN file[n] ELSE registry[n]

\* Fault: every provider that is not in the file is unregistered.
ReconciledFileOnly(n) ==
    IF n \in Good THEN file[n] ELSE None

\* What reconcileFromFileProviders leaves registered under a name.
Reconciled(n) ==
    CASE n \in Good -> file[n]
      [] n \in owned \ Present -> None
      [] OTHER -> registry[n]

\* POST /providers/reload with an API key, up to its Promise.all.  A file that
\* does not parse makes it fail before it changes anything.
Reload(q) ==
    /\ mode = "up"
    /\ q \notin running
    /\ wellFormed
    /\ registry' = [n \in Names |-> Reconciled(n)]
    /\ owned' = Good
    /\ running' = running \cup {q}
    /\ probe' = [probe EXCEPT ![q] = Asking(Good)]
    /\ loaded' = file
    /\ skipped' = (skipped \ Good) \cup (Present \ Good)
    /\ UNCHANGED <<fileVars, mode, mcp>>

\* listModels() rejects, or resolves and is done with.
Settled(j, n) ==
    /\ probe[j][n] \in {"asking", "again"}
    /\ probe' = [probe EXCEPT ![j][n] = "idle"]
    /\ UNCHANGED <<fileVars, mode, registry, owned, running, mcp, loaded, skipped>>

\* Fault: an empty answer is asked again for ever.
EmptyAtBootAgain(n) ==
    /\ probe[Boot][n] \in {"asking", "again"}
    /\ probe' = [probe EXCEPT ![Boot][n] = "sleeping"]
    /\ UNCHANGED <<fileVars, mode, registry, owned, running, mcp, loaded, skipped>>

\* An empty answer to the boot's first question is asked again after a pause.
EmptyAtBoot(n) ==
    /\ probe[Boot][n] = "asking"
    /\ probe' = [probe EXCEPT ![Boot][n] = "sleeping"]
    /\ UNCHANGED <<fileVars, mode, registry, owned, running, mcp, loaded, skipped>>

AskAgain(n) ==
    /\ probe[Boot][n] = "sleeping"
    /\ probe' = [probe EXCEPT ![Boot][n] = "again"]
    /\ UNCHANGED <<fileVars, mode, registry, owned, running, mcp, loaded, skipped>>

\* Every probe of the pass has settled: the reload is answered, or the
\* gateway, at the end of its boot, listens.
PassEnds(j) ==
    /\ j \in running
    /\ probe[j] = Idle
    /\ running' = running \ {j}
    /\ mode' = IF j = Boot THEN "up" ELSE mode
    /\ UNCHANGED <<fileVars, registry, owned, probe, mcp, loaded, skipped>>

-----------------------------------------------------------------------------
(* A wet run of sirius.providers.deregister, in the MCP server's process. *)

DeregisterLoads ==
    /\ mcp.step = "idle"
    /\ wellFormed
    /\ \E n \in Present :
          mcp' = [step |-> "loaded", name |-> n,
                  remaining |-> [file EXCEPT ![n] = None]]
    /\ UNCHANGED <<fileVars, gateway>>

\* atomicWriteYaml: the rename replaces whatever the file has become.
DeregisterWrites ==
    /\ mcp.step = "loaded"
    /\ file' = mcp.remaining
    /\ wellFormed' = TRUE
    /\ mcp' = [mcp EXCEPT !.step = "written", !.remaining = NoFile]
    /\ UNCHANGED gateway

\* postJson sends no Authorization header: BearerAuthGuard answers 401 before
\* the handler runs, and a gateway that is down answers nothing.
DeregisterPosts ==
    /\ mcp.step = "written"
    /\ mcp' = [mcp EXCEPT !.step = "idle"]
    /\ UNCHANGED <<fileVars, gateway>>

-----------------------------------------------------------------------------
Discovery(j) ==
    \/ \E n \in Names : Settled(j, n)
    \/ j = Boot /\ \E n \in Names : EmptyAtBoot(n) \/ AskAgain(n)
    \/ PassEnds(j)

Next ==
    \/ EditFile \/ BreakFile
    \/ StartGateway \/ StopGateway
    \/ \E q \in Reloads : Reload(q)
    \/ \E j \in Passes : Discovery(j)
    \/ DeregisterLoads \/ DeregisterWrites \/ DeregisterPosts

Spec == Init /\ [][Next]_vars

\* Every fetch of listModels() settles in the end (the runtime gives up on a
\* silent upstream), every sleep ends and a settled Promise.all is resumed.
FairSpec == Spec /\ \A j \in Passes : WF_vars(Discovery(j))

-----------------------------------------------------------------------------
(* Properties. *)

\* The provider registered under a name the file owns is the one built from
\* the entry last read, and every good entry is owned: no sequence of reloads,
\* edits, unreadable files and restarts leaves a stale adapter serving a name
\* (reconcileFromFileProviders, FromFileReloadService.owned).  Only the boot
\* may leave an environment's provider in its place.
OwnedIsCurrent ==
    /\ owned = {n \in Names : loaded[n] \in Configs}
    /\ \A n \in owned :
          \/ registry[n] = loaded[n]
          \/ n \in EnvProviders /\ registry[n] = Env

\* A provider that was built from an entry and is no longer owned is one whose
\* entry turned bad while it was registered; every other provider of a deleted
\* entry is gone.
OnlySkippedLinger ==
    \A n \in Names : registry[n] \in Configs => n \in owned \cup skipped

\* A reload takes a provider of the environment out of the registry only under
\* a name the file bears or bore: neither a failed reload nor a reload of a
\* file that never named it, bad entries included, disturbs it.  (Under a name
\* that a good entry has borne the code does unregister it.)
DisturbsOwnedOnly ==
    \A n \in EnvProviders :
        registry[n] = Env /\ registry'[n] # Env /\ mode' # "down" =>
            n \in owned \cup owned'
EnvProvidersStay == [][DisturbsOwnedOnly]_vars

\* Provided that every listModels() settles, which FairSpec assumes (nothing in
\* probeProvider bounds it), every reload request is answered and every boot
\* ends in a gateway that listens, unless the process stops: an empty answer is
\* asked again once only, and a failure not at all (backfillProvider).
PassesEnd ==
    \A j \in Passes : j \in running ~> j \notin running

-----------------------------------------------------------------------------
(* What comments of the repository say, and the code does not do.          *)

\* health.controller.ts:46-47: a reload will "add new entries, unregister
\* deleted ones".  As a property: no provider built from an entry outlives a
\* reload of a file without that entry.
DeletedAreUnregistered ==
    \A n \in Names : loaded[n] = None => registry[n] \notin Configs

\* health.controller.ts:49-50: the reload is "Public-auth-exempt".  As a
\* property: once a wet deregister has rewritten the file and posted the
\* reload, a running gateway no longer owns the name.
DeregisterTakesEffect ==
    [][mcp.step = "written" /\ mcp'.step = "idle" /\ mode = "up"
           /\ wellFormed /\ file[mcp.name] = None =>
         mcp.name \notin owned']_vars
=============================================================================
