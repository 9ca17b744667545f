------------------------------- MODULE Units -------------------------------
(***************************************************************************)
(* A managed unit: its row in the units table, its files, the sidecar      *)
(* processes started for it and the socket they serve.  install, upgrade   *)
(* and its rollback (unit/install.rs, unit/upgrade.rs) run one at a time,  *)
(* interleaved with the health checker (unit/health.rs), which reads the   *)
(* row and writes it back later, with the heartbeat, with the sidecar      *)
(* processes (SidecarServer::run) and with a crash of the agent.           *)
(***************************************************************************)
EXTENDS Naturals, FiniteSets

CONSTANTS
  Kinds,       \* kinds of unit to consider, of "sidecar" and "package"
  MaxOps,      \* bound: installs and upgrades begun; each has its own version
  MaxSidecarOps, \* bound: the same, of a sidecar
  MaxPids,     \* bound: processes started
  MaxCrashes,  \* bound: crashes of the agent
  StoreMayFail \* may upsert_unit of an operation, or list_units, fail?

ASSUME UnitsOK ==
  /\ Kinds \subseteq {"sidecar", "package"}
  /\ MaxOps \in Nat /\ MaxSidecarOps \in Nat /\ MaxPids \in Nat /\ MaxCrashes \in Nat
  /\ StoreMayFail \in BOOLEAN

Pids == 1..MaxPids
Versions == 1..MaxOps
None == 0
Torn == MaxOps + 1   \* the state of a directory an extraction failed in

VARIABLES
  kind,      \* the unit's kind
  row,       \* the unit's row; version None without a row
  dir,       \* version of the files in install_dir
  bin,       \* version of the unit's binary there, None without
  ops,       \* operations begun
  opc,       \* where the operation is
  target,    \* its version
  rollback,  \* version of its RollbackSpec, None without one
  updated,   \* the row it is about to write, NoRow outside
  outcome,   \* what the last operation returned
  crashes

VARIABLES
  proc,      \* proc[p]: none, starting, serving or gone
  termed,    \* processes that were sent SIGTERM
  image,     \* image[p]: version of its binary
  spawned,   \* processes started so far; the newest one's pid
  sick,      \* processes that answer "unhealthy"
  socket     \* process that bound the file at the socket path, None without

VARIABLES
  hpc,       \* where the health checker is
  listed,    \* the row it listed, with the health it found; NoRow asleep
  reported   \* the unit's health in the last heartbeat

VARIABLES    \* history
  stale,     \* the row is one the checker put back over an operation's
  outlived,  \* a process told to stop was there when the next operation went on
  untracked  \* a process was started whose pid no row was given, or not for long

opVars == <<kind, ops, opc, target, rollback, updated, outcome, crashes>>
procVars == <<proc, termed, image, spawned, sick, socket>>
checkVars == <<hpc, listed, reported>>
history == <<stale, outlived, untracked>>
vars == <<opVars, row, dir, bin, procVars, checkVars, history>>

NoRow == [version |-> None, state |-> "absent", health |-> "none", pid |-> None]
Row(v, s, p) == [version |-> v, state |-> s, health |-> "none", pid |-> p]

\* Row r with version v, and with the process p started for it.
Renewed(r, v) == [r EXCEPT !.version = v]
Started(r, v, p) == [r EXCEPT !.version = v, !.pid = p, !.state = "running"]

Init ==
  /\ kind \in Kinds
  /\ row = NoRow /\ dir = None /\ bin = None
  /\ ops = 0 /\ opc = "idle" /\ target = None /\ rollback = None
  /\ updated = NoRow /\ outcome = "none" /\ crashes = 0
  /\ proc = [p \in Pids |-> "none"] /\ termed = {}
  /\ image = [p \in Pids |-> None] /\ spawned = 0 /\ sick = {}
  /\ socket = None
  /\ hpc = "sleep" /\ listed = NoRow /\ reported = "none"
  /\ stale = FALSE /\ outlived = FALSE /\ untracked = FALSE

----------------------------------------------------------------------------
(* Sidecar processes: SidecarServer::run.                                  *)

Alive(p) == proc[p] \in {"starting", "serving"}

\* Mutant: bind, then cleanup_socket.
BindThenCleanup(p) ==
  /\ proc[p] = "starting"
  /\ proc' = [proc EXCEPT ![p] = "serving"]
  /\ socket' = None
  /\ UNCHANGED <<opVars, row, dir, bin, termed, image, spawned, sick, checkVars, history>>

\* cleanup_socket, then bind.
Bind(p) ==
  /\ proc[p] = "starting"
  /\ proc' = [proc EXCEPT ![p] = "serving"]
  /\ socket' = p
  /\ UNCHANGED <<opVars, row, dir, bin, termed, image, spawned, sick, checkVars, history>>

\* The process dies; a socket file it bound stays behind.
Dies(p) ==
  /\ Alive(p)
  /\ proc' = [proc EXCEPT ![p] = "gone"]
  /\ UNCHANGED <<opVars, row, dir, bin, termed, image, spawned, sick, socket, checkVars, history>>

\* The shutdown future resolves: cleanup_socket removes the file at the path,
\* whichever process bound it.
Terminates(p) ==
  /\ proc[p] = "serving" /\ p \in termed
  /\ proc' = [proc EXCEPT ![p] = "gone"]
  /\ socket' = None
  /\ UNCHANGED <<opVars, row, dir, bin, termed, image, spawned, sick, checkVars, history>>

\* The handler's health changes.
Sickens(p) ==
  /\ proc[p] = "serving"
  /\ sick' = IF p \in sick THEN sick \ {p} ELSE sick \cup {p}
  /\ UNCHANGED <<opVars, row, dir, bin, proc, termed, image, spawned, socket, checkVars, history>>

Processes == \E p \in Pids : Bind(p) \/ Dies(p) \/ Terminates(p) \/ Sickens(p)

\* check_sidecar: what a "health" call to the socket path says.
Health ==
  IF socket # None /\ proc[socket] = "serving" /\ socket \notin sick THEN "ok" ELSE "unhealthy"

\* The binary in install_dir is started.
Spawn ==
  /\ spawned < MaxPids
  /\ spawned' = spawned + 1
  /\ proc' = [proc EXCEPT ![spawned'] = "starting"]
  /\ image' = [image EXCEPT ![spawned'] = bin']
  /\ UNCHANGED <<termed, sick, socket>>

----------------------------------------------------------------------------
(* Steps the operations share.                                             *)

MayBegin == ops < MaxOps /\ (kind = "sidecar" => ops < MaxSidecarOps)

\* The artifact of version v, with or without a binary of the unit's name, is
\* extracted over what is in install_dir; what is there afterwards, if it fails,
\* is one of dirs.
Extract(v, dirs) ==
  /\ dir' \in dirs
  /\ bin' \in IF kind = "sidecar" THEN {bin, v} ELSE {bin}

Runs == kind = "sidecar" /\ bin' # None  \* is there a process to start?

At(p) == opc' = p /\ UNCHANGED <<kind, ops, target, rollback, outcome, crashes>>

Returns(o) ==
  /\ opc' = "idle" /\ outcome' = o
  /\ updated' = NoRow /\ rollback' = None
  /\ UNCHANGED <<kind, ops, target, crashes>>

\* An error is returned before anything was changed in this step.
Fails(p) ==
  /\ opc = p
  /\ Returns("err")
  /\ UNCHANGED <<row, dir, bin, procVars, checkVars, history>>

\* The last step of an operation.  The checker may have written meanwhile: the
\* row is replaced as a whole.
Upsert(p, o) ==
  /\ opc = p
  /\ \/ row' = updated /\ Returns(o) /\ stale' = FALSE /\ UNCHANGED untracked
     \/ StoreMayFail /\ Returns("err") /\ row' = row /\ untracked' = TRUE /\ UNCHANGED stale
  /\ UNCHANGED <<dir, bin, procVars, checkVars, outlived>>

\* kill -TERM and a pause of a second or two.
Term(p) ==
  /\ termed' = termed \cup {p}
  /\ UNCHANGED <<proc, image, spawned, sick, socket>>

\* The pause is over, or was cut short by a crash of the agent; what was told to
\* stop may still be there.
Paused == outlived' = (outlived \/ \E p \in termed : Alive(p))

----------------------------------------------------------------------------
(* install.                                                                *)

InstallStarts ==
  /\ opc = "idle" /\ MayBegin
  /\ ops' = ops + 1 /\ target' = ops' /\ rollback' = None
  /\ opc' = "install"
  /\ UNCHANGED <<kind, updated, outcome, crashes, row, dir, bin, procVars, checkVars, history>>

\* The download or the digest fails.
InstallFails == Fails("install")

\* Writing or extracting the artifact fails, or starting the sidecar does.
InstallTorn ==
  /\ opc = "install"
  /\ Extract(target, {dir, Torn, target})
  /\ Returns("err")
  /\ UNCHANGED <<row, procVars, checkVars, history>>

\* extract_artifact, and a sidecar is started.  A process of an earlier install
\* is not stopped.
InstallExtracts ==
  /\ opc = "install"
  /\ Paused
  /\ Extract(target, {target})
  /\ IF Runs
     THEN Spawn /\ updated' = Row(target, "running", spawned')
     ELSE updated' = Row(target, "installed", None) /\ UNCHANGED procVars
  /\ untracked' = (untracked \/ \E p \in Pids : Alive(p) /\ p \notin termed)
  /\ At("iwrite")
  /\ UNCHANGED <<row, checkVars, stale>>

InstallWrites == Upsert("iwrite", "ok")

----------------------------------------------------------------------------
(* upgrade.                                                                *)

UpgradeStarts ==
  /\ opc = "idle" /\ MayBegin
  /\ ops' = ops + 1 /\ target' = ops'
  /\ rollback' \in 0..ops   \* the RollbackSpec, when there is one, names any version
  /\ opc' = "upgrade"
  /\ UNCHANGED <<kind, updated, outcome, crashes, row, dir, bin, procVars, checkVars, history>>

\* The download, the digest or get_unit fails.
UpgradeFails == Fails("upgrade")

\* Mutant: the current version is left running.
UpgradeStopsNothing ==
  /\ opc = "upgrade" /\ row # NoRow
  /\ updated' = row
  /\ At("stop")
  /\ UNCHANGED <<row, dir, bin, procVars, checkVars, history>>

\* get_unit finds the row; its process is told to stop.
UpgradeStops ==
  /\ opc = "upgrade" /\ row # NoRow
  /\ updated' = row
  /\ IF row.pid # None THEN Term(row.pid) ELSE UNCHANGED procVars
  /\ At("stop")
  /\ UNCHANGED <<row, dir, bin, checkVars, history>>

\* The artifact cannot be written, or the new version not be started: upgrade
\* returns without a rollback.
UpgradeAborts ==
  /\ opc = "stop"
  /\ Paused
  /\ Extract(target, {dir, target})
  /\ Returns("err")
  /\ UNCHANGED <<row, procVars, checkVars, stale, untracked>>

\* tar fails: roll back, or return.
UpgradeTorn ==
  /\ opc = "stop"
  /\ Paused
  /\ Extract(target, {Torn})
  /\ IF rollback # None THEN At("rollback") /\ UNCHANGED updated ELSE Returns("err")
  /\ UNCHANGED <<row, procVars, checkVars, stale, untracked>>

\* tar succeeds, and the new version of a sidecar is started.
UpgradeExtracts ==
  /\ opc = "stop"
  /\ Paused
  /\ Extract(target, {target})
  /\ IF Runs
     THEN /\ Spawn
          /\ updated' = Started(updated, target, spawned')
          /\ At("probe")
     ELSE /\ updated' = Renewed(updated, target)
          /\ At("uwrite")
          /\ UNCHANGED procVars
  /\ UNCHANGED <<row, checkVars, stale, untracked>>

\* probe_sidecar: one of its attempts within the ten seconds is answered well.
ProbePasses ==
  /\ opc = "probe" /\ Health = "ok"
  /\ At("uwrite")
  /\ UNCHANGED <<updated, row, dir, bin, procVars, checkVars, history>>

\* The ten seconds are over: the new version is told to stop.
ProbeExpires ==
  /\ opc = "probe"
  /\ Term(updated.pid)
  /\ At("unhealthy")
  /\ UNCHANGED <<updated, row, dir, bin, checkVars, history>>

Unhealthy ==
  /\ opc = "unhealthy"
  /\ Paused
  /\ IF rollback # None THEN At("rollback") /\ UNCHANGED updated ELSE Returns("err")
  /\ UNCHANGED <<row, dir, bin, procVars, checkVars, stale, untracked>>

UpgradeWrites == Upsert("uwrite", "ok")

----------------------------------------------------------------------------
(* perform_rollback, after which upgrade returns an error in any case.     *)

\* The download or the digest fails.
RollbackFails == Fails("rollback")

\* Writing or extracting the artifact fails, or starting the sidecar does.
RollbackTorn ==
  /\ opc = "rollback"
  /\ Extract(rollback, {dir, Torn, rollback})
  /\ Returns("err")
  /\ UNCHANGED <<row, procVars, checkVars, history>>

\* Mutant: the row written is the one upgrade had prepared.
RollbackRestoresBlind ==
  /\ opc = "rollback"
  /\ Extract(rollback, {rollback})
  /\ IF Runs
     THEN Spawn /\ updated' = [updated EXCEPT !.pid = spawned', !.state = "running"]
     ELSE updated' = updated /\ UNCHANGED procVars
  /\ At("rwrite")
  /\ UNCHANGED <<row, checkVars, history>>

\* tar, get_unit, and a sidecar is started.  Its health is not probed.
RollbackRestores ==
  /\ opc = "rollback"
  /\ Extract(rollback, {rollback})
  /\ IF Runs
     THEN Spawn /\ updated' = Started(row, rollback, spawned')
     ELSE updated' = Renewed(row, rollback) /\ UNCHANGED procVars
  /\ At("rwrite")
  /\ UNCHANGED <<row, checkVars, history>>

RollbackWrites == Upsert("rwrite", "rolled back")

Operation ==
  \/ InstallFails \/ InstallTorn \/ InstallExtracts \/ InstallWrites
  \/ UpgradeFails \/ UpgradeStops \/ UpgradeAborts \/ UpgradeTorn \/ UpgradeExtracts
  \/ ProbePasses \/ ProbeExpires \/ Unhealthy \/ UpgradeWrites
  \/ RollbackFails \/ RollbackTorn \/ RollbackRestores \/ RollbackWrites

----------------------------------------------------------------------------
(* Health checker and heartbeat.                                           *)

\* After the interval: list_units; other states are skipped.
CheckerLists ==
  /\ hpc = "sleep" /\ row.state \in {"running", "installed"}
  /\ listed' = row
  /\ hpc' = "check"
  /\ UNCHANGED <<opVars, row, dir, bin, procVars, reported, history>>

\* check_sidecar or check_package; what has not changed is not written.  "ok"
\* stands for degraded too and "unhealthy" for any error, so that a row of the
\* same health may be written as well.
CheckerChecks ==
  /\ hpc = "check"
  /\ \E h \in IF kind = "sidecar" THEN {Health} ELSE {"ok", "unhealthy"} :
       \/ hpc' = "write" /\ listed' = [listed EXCEPT !.health = h]
       \/ hpc' = "sleep" /\ listed' = NoRow /\ h = listed.health
  /\ UNCHANGED <<opVars, row, dir, bin, procVars, reported, history>>

\* upsert_unit fails, which is ignored.
CheckerWriteFails ==
  /\ StoreMayFail /\ hpc = "write"
  /\ hpc' = "sleep" /\ listed' = NoRow
  /\ UNCHANGED <<opVars, row, dir, bin, procVars, reported, history>>

\* Mutant: the health is compared and not stored.
CheckerWritesNothing ==
  /\ hpc = "write"
  /\ hpc' = "sleep" /\ listed' = NoRow
  /\ UNCHANGED <<opVars, row, dir, bin, procVars, reported, history>>

\* The whole row goes back as it was listed, with the new health.
CheckerWrites ==
  /\ hpc = "write"
  /\ row' = listed
  /\ stale' = (stale \/ [row EXCEPT !.health = listed.health] # listed)
  /\ untracked' = (untracked \/ row.pid # listed.pid)
  /\ hpc' = "sleep" /\ listed' = NoRow
  /\ UNCHANGED <<opVars, dir, bin, procVars, reported, outlived>>

\* list_units and the POST; one that fails is skipped.
Heartbeat ==
  /\ reported' = row.health
  /\ UNCHANGED <<opVars, row, dir, bin, procVars, hpc, listed, history>>

\* list_units fails: the heartbeat goes out without units.
HeartbeatUnread ==
  /\ StoreMayFail
  /\ reported' = "none"
  /\ UNCHANGED <<opVars, row, dir, bin, procVars, hpc, listed, history>>

\* The agent dies and is started again; the sidecars go on.
AgentCrashes ==
  /\ crashes < MaxCrashes
  /\ crashes' = crashes + 1
  /\ opc' = "idle"
  /\ outcome' = IF opc = "idle" THEN outcome ELSE "err"
  /\ untracked' = (untracked \/ opc \in {"iwrite", "probe", "uwrite", "rwrite"})
  /\ updated' = NoRow /\ rollback' = None
  /\ hpc' = "sleep" /\ listed' = NoRow
  /\ UNCHANGED <<kind, ops, target, row, dir, bin, procVars, reported, stale, outlived>>

Checker == CheckerLists \/ CheckerChecks \/ CheckerWrites \/ CheckerWriteFails

Next ==
  \/ InstallStarts \/ UpgradeStarts \/ Operation
  \/ Checker \/ Heartbeat \/ HeartbeatUnread \/ Processes \/ AgentCrashes

Spec == Init /\ [][Next]_vars

\* The checker and the heartbeat run for ever, their calls return, and the store
\* does not fail for ever.
FairSpec == Spec /\ WF_vars(Checker) /\ SF_vars(CheckerWrites) /\ WF_vars(Heartbeat)

----------------------------------------------------------------------------
(* Properties.                                                             *)

\* Type invariant.
TypeOK ==
  LET Rows == [version : 0..MaxOps, state : {"absent", "running", "installed"},
               health : {"none", "ok", "unhealthy"}, pid : 0..MaxPids]
  IN  /\ {row, updated, listed} \subseteq Rows /\ reported \in {"none", "ok", "unhealthy"}
      /\ kind \in Kinds /\ dir \in 0..Torn /\ bin \in 0..MaxOps
      /\ ops \in 0..MaxOps /\ target \in 0..MaxOps /\ rollback \in 0..MaxOps
      /\ opc \in {"idle", "install", "iwrite", "upgrade", "stop", "probe",
                  "unhealthy", "uwrite", "rollback", "rwrite"}
      /\ outcome \in {"none", "ok", "err", "rolled back"}
      /\ crashes \in 0..MaxCrashes
      /\ proc \in [Pids -> {"none", "starting", "serving", "gone"}]
      /\ termed \subseteq Pids /\ sick \subseteq Pids
      /\ image \in [Pids -> 0..MaxOps]
      /\ spawned \in 0..MaxPids /\ socket \in 0..MaxPids
      /\ hpc \in {"sleep", "check", "write"}
      /\ {stale, outlived, untracked} \subseteq BOOLEAN

\* When an operation has ended well, or upgrade has rolled back, the row names
\* the version of the files and of the process it started.  The health checker may
\* put an older row back, but what it undoes stays undone no longer than until the
\* next operation that ends well.  (An artifact without the binary leaves the one
\* before it in place, to be started as the new version.)
RowTellsDisk ==
  opc = "idle" /\ outcome \in {"ok", "rolled back"} /\ ~stale =>
    /\ row.version = dir
    /\ row.pid # None /\ bin = dir => image[row.pid] = dir

\* Upgrades and rollbacks leave no process behind: one that was not told to stop
\* is the row's, or the operation's that is about to write it.  Nothing is said
\* after a second install, a crash or a failed write between the start of a process
\* and its row, or a row of the checker's that takes the pid away: these do orphan
\* a process.
NoOrphan ==
  ~untracked =>
    \A p \in Pids : Alive(p) /\ p \notin termed =>
      p = row.pid \/ (p = updated.pid /\ opc \in {"iwrite", "probe", "uwrite", "rwrite"})

\* Calls to the socket path reach the process of the row: the version before it
\* has removed the path only before the new one bound it.  Nothing is said once a
\* process outlived the pause after its SIGTERM, or is orphaned: it may remove or
\* take over the path of its successor.
SocketIsRows ==
  ~untracked /\ ~outlived /\ opc = "idle" =>
    (row.pid # None /\ proc[row.pid] = "serving" /\ row.pid \notin termed => socket = row.pid)

\* Once the operations are over and a sidecar's health settles, heartbeats report
\* it, over stale rows the checker wrote back and heartbeats without units.
HealthReported ==
  \A h \in {"ok", "unhealthy"} :
    <>[](kind = "sidecar" /\ opc = "idle" /\ row # NoRow /\ Health = h) => []<>(reported = h)

============================================================================
