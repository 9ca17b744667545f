---------------------------- MODULE AgentProcess ----------------------------
(***************************************************************************)
(* The life of the agent process over crashes and restarts (main.rs):      *)
(* loading the configuration, AuthManager::init (auth.rs), then reloads on *)
(* SIGHUP and self-upgrades.  When the process dies, what it wrote         *)
(* survives and what is in memory does not.  The host does not go down:    *)
(* the code syncs no file, and what of them survives that is not modelled. *)
(***************************************************************************)
EXTENDS SelfUpgrade

CONSTANTS
  MaxStarts,   \* bound: starts of the process
  MaxEdits,    \* bound: edits of the configuration file
  MaxUpgrades  \* bound: SelfUpgrade tasks

ASSUME ProcessOK == MaxStarts \in Nat /\ MaxEdits \in Nat /\ MaxUpgrades \in Nat

Runtimes == {"r1", "r2"}  \* hot-reloadable parts of a configuration
Bad == "unparsable"

VARIABLES
  ppc,      \* where the process is
  starts,
  routed,   \* SelfUpgrade tasks so far

  file,     \* the configuration file: its hot-reloadable part, or Bad
  edits,
  sighup,   \* a SIGHUP is pending
  full,     \* full_config
  watch,    \* value of the runtime_tx / runtime_rx channel
  loaded,   \* history: the last configuration that was loaded

  tokens,   \* the token file: "none", "torn" or "whole"
  key,      \* the one-time key file: "never" there, "there" or "removed"
  spent,    \* the provider has taken the one-time key
  store     \* the TokenStore in memory holds tokens

confVars == <<file, edits, sighup, full, watch, loaded>>
authVars == <<tokens, key, spent, store>>
vars == <<upgradeVars, confVars, authVars, ppc, starts, routed>>

Init ==
  /\ UpgradeInit
  /\ ppc = "down" /\ starts = 0 /\ routed = 0
  /\ file \in Runtimes /\ edits = 0 /\ sighup = FALSE
  /\ full = "r1" /\ watch = "r1" /\ loaded = "r1"
  /\ tokens = "none" /\ key \in {"never", "there"} /\ spent = FALSE /\ store = FALSE

At(p) == ppc' = p /\ UNCHANGED <<starts, routed>>

----------------------------------------------------------------------------
(* main.                                                                   *)

\* systemd starts the agent; a binary that is not whole does not start.
Starts ==
  /\ ppc = "down" /\ starts < MaxStarts
  /\ Exec
  /\ starts' = starts + 1 /\ ppc' = "load"
  /\ store' = FALSE /\ sighup' = FALSE
  /\ UNCHANGED <<routed, file, edits, full, watch, loaded, tokens, key, spent>>

\* Config::load, and the channel is made with its runtime part.
Loads ==
  /\ ppc = "load" /\ file # Bad
  /\ full' = file /\ watch' = file /\ loaded' = file
  /\ At("auth")
  /\ UNCHANGED <<upgradeVars, file, edits, sighup, authVars>>

\* A configuration that cannot be loaded at the start, or a state store that
\* cannot be opened, ends the process.
LoadFails ==
  /\ ppc = "load"
  /\ At("down")
  /\ UNCHANGED <<upgradeVars, confVars, authVars>>

\* The process is killed, panics or exits at any moment; its host stays up, so that
\* every write that returned is still there.
Dies ==
  /\ ppc # "down"
  /\ At("down")
  /\ Vanish
  /\ UNCHANGED <<confVars, authVars>>

----------------------------------------------------------------------------
(* AuthManager::init.  Whatever it returns, the agent goes on.             *)

\* TokenStore::load reads a whole token file.
TokensLoaded ==
  /\ ppc = "auth" /\ tokens = "whole"
  /\ store' = TRUE
  /\ At("run")
  /\ UNCHANGED <<upgradeVars, confVars, tokens, key, spent>>

\* The agent goes on without tokens.
NoKey ==
  /\ ppc = "auth" /\ tokens # "whole" /\ key # "there"
  /\ At("run")
  /\ UNCHANGED <<upgradeVars, confVars, authVars>>

\* bootstrap: the provider takes a key once.
KeyPosted ==
  /\ ppc = "auth" /\ tokens # "whole" /\ key = "there" /\ ~spent
  /\ spent' = TRUE
  /\ At("answer")
  /\ UNCHANGED <<upgradeVars, confVars, tokens, key, store>>

\* The request or its answer is lost, or the provider refuses: an error, and the
\* key file stays.
BootstrapFails ==
  /\ \/ ppc = "auth" /\ tokens # "whole" /\ key = "there"
     \/ ppc = "answer"
  /\ At("run")
  /\ UNCHANGED <<upgradeVars, confVars, authVars>>

\* Mutant: the key file is removed first.
SavesAfterRemoval ==
  /\ ppc = "answer"
  /\ tokens' = "torn" /\ key' = "removed"
  /\ At("save")
  /\ UNCHANGED <<upgradeVars, confVars, spent, store>>

\* The answer holds tokens; fs::write of the token file.
Saves ==
  /\ ppc = "answer"
  /\ tokens' = "torn"
  /\ At("save")
  /\ UNCHANGED <<upgradeVars, confVars, key, spent, store>>

\* fs::write fails: an error, and the key file stays.
SaveFails ==
  /\ ppc = "save"
  /\ At("run")
  /\ UNCHANGED <<upgradeVars, confVars, authVars>>

Saved ==
  /\ ppc = "save"
  /\ tokens' = "whole"
  /\ At("unlink")
  /\ UNCHANGED <<upgradeVars, confVars, key, spent, store>>

\* Removing the key file may fail, which is only logged.
KeyRemoved ==
  /\ ppc = "unlink"
  /\ key' \in {key, "removed"}
  /\ store' = TRUE
  /\ At("run")
  /\ UNCHANGED <<upgradeVars, confVars, tokens, spent>>

Auth ==
  \/ TokensLoaded \/ NoKey \/ KeyPosted \/ BootstrapFails
  \/ Saves \/ SaveFails \/ Saved \/ KeyRemoved

----------------------------------------------------------------------------
(* Reload.  The SIGHUP task is spawned before run, so it also works while  *)
(* AuthManager::init waits.                                                *)

Up == ppc \notin {"down", "load"}

Edit ==
  /\ edits < MaxEdits
  /\ edits' = edits + 1
  /\ file' \in (Runtimes \cup {Bad}) \ {file}
  /\ UNCHANGED <<upgradeVars, sighup, full, watch, loaded, authVars, ppc, starts, routed>>

\* Signals that arrive while one is pending are merged with it.
Sighup ==
  /\ Up /\ ~sighup
  /\ sighup' = TRUE
  /\ UNCHANGED <<upgradeVars, file, edits, full, watch, loaded, authVars, ppc, starts, routed>>

\* Mutant: full_config keeps the configuration of the start.
ReloadForgets ==
  /\ Up /\ sighup
  /\ sighup' = FALSE
  /\ IF file = Bad
     THEN UNCHANGED <<full, watch, loaded>>
     ELSE /\ watch' = IF full # file THEN file ELSE watch
          /\ full' = full /\ loaded' = file
  /\ UNCHANGED <<upgradeVars, file, edits, authVars, ppc, starts, routed>>

\* The channel is written when the runtime parts differ; a file that cannot be
\* loaded changes nothing.
Reload ==
  /\ Up /\ sighup
  /\ sighup' = FALSE
  /\ IF file = Bad
     THEN UNCHANGED <<full, watch, loaded>>
     ELSE /\ watch' = IF full # file THEN file ELSE watch
          /\ full' = file /\ loaded' = file
  /\ UNCHANGED <<upgradeVars, file, edits, authVars, ppc, starts, routed>>

----------------------------------------------------------------------------
(* Composition.                                                            *)

\* Tasks are routed once the main loop runs.
Upgrade(u) ==
  /\ ppc = "run"
  /\ Execute(u)
  /\ routed' = IF upc[u] = "idle" THEN routed + 1 ELSE routed
  /\ routed' <= MaxUpgrades
  /\ UNCHANGED <<confVars, authVars, ppc, starts>>

\* Nothing is left to start, route or edit.
Idle == UNCHANGED vars

Next ==
  \/ Starts \/ Loads \/ LoadFails \/ Dies \/ Auth
  \/ Edit \/ Sighup \/ Reload
  \/ (\E u \in Upgrades : Upgrade(u))
  \/ Idle

Spec == Init /\ [][Next]_vars

----------------------------------------------------------------------------
(* Properties.                                                             *)

\* Type invariant.
TypeOK ==
  /\ UpgradeTypeOK
  /\ ppc \in {"down", "load", "auth", "answer", "save", "unlink", "run"}
  /\ starts \in 0..MaxStarts /\ routed \in 0..MaxUpgrades /\ edits \in 0..MaxEdits
  /\ file \in Runtimes \cup {Bad} /\ sighup \in BOOLEAN
  /\ full \in Runtimes /\ watch \in Runtimes /\ loaded \in Runtimes
  /\ tokens \in {"none", "torn", "whole"}
  /\ key \in {"never", "there", "removed"} /\ spent \in BOOLEAN /\ store \in BOOLEAN

\* The one-time key is given up only after the tokens it bought are completely
\* written, wherever the process dies in between.  (A death after the provider took
\* the key and before that leaves a key file whose key is spent; TokenStore::save
\* does not sync, so nothing is said of a host that goes down.)
KeyOrTokens == key = "removed" => tokens = "whole"

\* The background tasks see the configuration that was loaded last, over any
\* sequence of edits, signals and files that cannot be loaded.
RuntimeIsLastLoaded == Up => watch = loaded

============================================================================
