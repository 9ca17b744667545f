---------------------------- MODULE UnitsProofs ----------------------------
(***************************************************************************)
(* Proofs about Units, for any number of operations, processes and crashes *)
(* of the agent, with a store that fails or not.                           *)
(***************************************************************************)
EXTENDS Units, TLAPS

----------------------------------------------------------------------------
(* The invariants.                                                         *)

Before == {"idle", "install", "upgrade"}           \* the row names the process
After == {"iwrite", "probe", "uwrite", "rwrite"}   \* the row to be written does
Stopping == {"stop", "unhealthy", "rollback"}      \* no process is wanted

\* Rows, with the pids of the first n processes.
RowType(n) ==
  [version : 0..MaxOps, state : {"absent", "running", "installed"},
   health : {"none", "ok", "unhealthy"}, pid : 0..n]

\* Types, as far as they are needed.
UnitType ==
  /\ spawned \in 0..MaxPids
  /\ opc \in Before \cup After \cup Stopping
  /\ ops \in 0..MaxOps /\ target \in 0..MaxOps /\ rollback \in 0..MaxOps
  /\ proc \in [Pids -> {"none", "starting", "serving", "gone"}]
  /\ image \in [Pids -> 0..MaxOps] /\ bin \in 0..MaxOps
  /\ row \in RowType(spawned) /\ updated \in RowType(spawned) /\ listed \in RowType(spawned)
  /\ termed \subseteq 1..spawned
  /\ opc = "probe" => updated.pid # None
  /\ stale \in BOOLEAN /\ outlived \in BOOLEAN /\ untracked \in BOOLEAN

\* The process the unit should have.
Owner(p) == (opc \in Before /\ p = row.pid) \/ (opc \in After /\ p = updated.pid)

\* A process nobody told to stop is the owner.
OrphanInv ==
  ~untracked => \A p \in Pids : Alive(p) /\ p \notin termed => Owner(p)

\* Files, and the process about to be recorded.
DiskInv ==
  /\ kind # "sidecar" => bin = None
  /\ opc # "idle" => target # None
  /\ opc = "rollback" => rollback # None
  /\ opc \in After =>
       /\ dir # None /\ updated.version = dir
       /\ updated.pid # None /\ bin = dir => image[updated.pid] = dir
  /\ RowTellsDisk

\* Once an upgrade is under way, the row's process was told to stop.
StopInv ==
  /\ opc \in Stopping \cup {"probe"} /\ ~untracked => row.pid \in termed \cup {None}
  /\ opc = "stop" => updated.pid \in termed \cup {None}

\* A process that was told to stop and still runs has been noticed, or no other
\* has taken its place.
TermInv ==
  ~outlived /\ ~untracked /\ (\E p \in termed : Alive(p)) =>
    \/ opc \in {"stop", "unhealthy"}
    \/ opc \in Before /\ row.pid \in termed \cup {None}

\* The owner's socket is at the path.
SocketInv ==
  ~untracked /\ ~outlived =>
    \A p \in Pids : Owner(p) /\ proc[p] = "serving" /\ p \notin termed => socket = p

IInv == UnitType /\ OrphanInv /\ DiskInv /\ StopInv /\ TermInv /\ SocketInv

----------------------------------------------------------------------------
(* Types.                                                                  *)

LEMMA RowGrows ==
  ASSUME NEW n \in Nat, NEW r \in RowType(n)
  PROVE  r \in RowType(n + 1)
BY DEF RowType

\* A row with another version, or with that and a new process.
LEMMA RowChanges ==
  ASSUME NEW n \in Nat, NEW r \in RowType(n), NEW v \in 0..MaxOps
  PROVE  /\ Renewed(r, v) \in RowType(n)
         /\ Renewed(r, v).version = v /\ Renewed(r, v).pid = r.pid
         /\ Started(r, v, n + 1) \in RowType(n + 1)
         /\ Started(r, v, n + 1).version = v /\ Started(r, v, n + 1).pid = n + 1
<1> DEFINE s == Renewed(r, v)
           u == [s EXCEPT !.pid = n + 1]
<1>1. s \in RowType(n) /\ s.version = v /\ s.pid = r.pid
  BY DEF RowType, Renewed
<1>2. Started(r, v, n + 1).version = v /\ Started(r, v, n + 1).pid = n + 1
  BY DEF RowType, Started
<1>3. s \in RowType(n + 1)
  BY <1>1, RowGrows
<1>4. u \in RowType(n + 1)
  <2> HIDE DEF s
  <2>. QED
    BY <1>3 DEF RowType
<1>5. Started(r, v, n + 1) = [u EXCEPT !.state = "running"]
  BY DEF Started, Renewed
<1> HIDE DEF u
<1>6. [u EXCEPT !.state = "running"] \in RowType(n + 1)
  BY <1>4 DEF RowType
<1>. QED
  BY <1>1, <1>2, <1>5, <1>6

LEMMA PidRange ==
  ASSUME NEW n \in Nat, NEW r \in RowType(n)
  PROVE  r.pid \in 0..n /\ (r.pid # None => r.pid \in 1..n)
BY DEF RowType, None

\* A row just installed.
LEMMA RowInstalled ==
  ASSUME NEW n \in Nat, NEW v \in 0..MaxOps
  PROVE  LET s == Row(v, "installed", None)
             t == Row(v, "running", n + 1)
         IN  /\ s \in RowType(n) /\ s.version = v /\ s.pid = None
             /\ t \in RowType(n + 1) /\ t.version = v /\ t.pid = n + 1
BY DEF RowType, Row, None

LEMMA NoRowType ==
  ASSUME NEW n \in Nat
  PROVE  NoRow \in RowType(n)
BY UnitsOK DEF RowType, NoRow, None, UnitsOK

\* The start of a process.
LEMMA Spawned ==
  ASSUME UnitType, Spawn, bin' \in 0..MaxOps
  PROVE  /\ spawned' = spawned + 1 /\ spawned' \in Pids /\ spawned' \in 0..MaxPids
         /\ proc' \in [Pids -> {"none", "starting", "serving", "gone"}]
         /\ image' \in [Pids -> 0..MaxOps]
         /\ proc'[spawned'] = "starting" /\ image'[spawned'] = bin'
         /\ \A p \in Pids : p # spawned' => proc'[p] = proc[p] /\ image'[p] = image[p]
         /\ termed' = termed /\ socket' = socket /\ spawned' \notin termed
BY UnitsOK DEF UnitType, Spawn, Pids, UnitsOK

LEMMA TypeInit == Init => UnitType
<1> SUFFICES ASSUME Init PROVE UnitType
  OBVIOUS
<1>1. NoRow \in RowType(0)
  BY NoRowType
<1>2. spawned = 0 /\ spawned \in 0..MaxPids
  BY UnitsOK DEF Init, UnitsOK
<1>3. 0 \in 0..MaxOps
  BY UnitsOK DEF UnitsOK
<1>4. /\ proc \in [Pids -> {"none", "starting", "serving", "gone"}]
      /\ image \in [Pids -> 0..MaxOps]
  BY <1>3 DEF Init, None
<1>5. row \in RowType(spawned) /\ updated \in RowType(spawned) /\ listed \in RowType(spawned)
  BY <1>1, <1>2 DEF Init
<1>. QED
  BY <1>2, <1>3, <1>4, <1>5, Zenon DEF Init, UnitType, None, Before

\* The types of an operation's end.
LEMMA ReturnsType ==
  ASSUME UnitType, NEW o, Returns(o),
         row' \in RowType(spawned), listed' = listed, bin' \in 0..MaxOps,
         UNCHANGED procVars,
         stale' \in BOOLEAN, outlived' \in BOOLEAN, untracked' \in BOOLEAN
  PROVE  UnitType'
<1>1. updated' \in RowType(spawned)
  BY NoRowType DEF Returns, UnitType
<1>2. rollback' \in 0..MaxOps /\ opc' \in Before
  BY UnitsOK DEF Returns, None, UnitsOK, Before
<1>. QED
  BY <1>1, <1>2 DEF UnitType, Returns, procVars

\* The types of a step that starts a process or none.
LEMMA SpawnsType ==
  ASSUME UnitType, bin' \in 0..MaxOps, row' = row, listed' = listed,
         NEW p \in After, At(p),
         \/ Spawn /\ updated' \in RowType(spawned') /\ updated'.pid = spawned'
         \/ UNCHANGED procVars /\ updated' \in RowType(spawned) /\ p # "probe",
         stale' \in BOOLEAN, outlived' \in BOOLEAN, untracked' \in BOOLEAN
  PROVE  UnitType'
<1>1. CASE Spawn /\ updated' \in RowType(spawned') /\ updated'.pid = spawned'
  <2>1. row' \in RowType(spawned') /\ listed' \in RowType(spawned')
    <3>1. spawned \in Nat /\ spawned' = spawned + 1
      BY <1>1 DEF UnitType, Spawn
    <3>. QED
      BY <3>1, RowGrows DEF UnitType
  <2>2. termed' \subseteq 1..spawned'
    BY <1>1 DEF UnitType, Spawn
  <2>3. updated'.pid # None
    BY <1>1, Spawned DEF Pids, None
  <2>. QED
    BY <1>1, <2>1, <2>2, <2>3, Spawned DEF UnitType, At
<1>2. CASE UNCHANGED procVars /\ updated' \in RowType(spawned) /\ p # "probe"
  BY <1>2 DEF UnitType, procVars, At
<1>. QED
  BY <1>1, <1>2

LEMMA ExtractType ==
  ASSUME UnitType, NEW v \in 0..MaxOps, NEW D, Extract(v, D)
  PROVE  bin' \in 0..MaxOps
BY DEF UnitType, Extract

LEMMA TypeNext == UnitType /\ [Next]_vars => UnitType'
<1> SUFFICES ASSUME UnitType, [Next]_vars PROVE UnitType'
  OBVIOUS
<1>t. /\ spawned \in Nat /\ spawned \in 0..MaxPids /\ bin \in 0..MaxOps
      /\ target \in 0..MaxOps /\ rollback \in 0..MaxOps /\ ops \in 0..MaxOps
      /\ row \in RowType(spawned) /\ updated \in RowType(spawned) /\ listed \in RowType(spawned)
      /\ NoRow \in RowType(spawned) /\ termed \subseteq 1..spawned
      /\ stale \in BOOLEAN /\ outlived \in BOOLEAN /\ untracked \in BOOLEAN
  BY NoRowType DEF UnitType
<1>p. Paused => outlived' \in BOOLEAN
  BY <1>t DEF Paused
<1>1. CASE InstallStarts \/ UpgradeStarts
  <2>1. ops' \in 0..MaxOps /\ target' \in 0..MaxOps /\ rollback' \in 0..MaxOps /\ opc' \in Before
    BY <1>1, <1>t, UnitsOK DEF InstallStarts, UpgradeStarts, MayBegin, None, UnitsOK, Before
  <2>2. UNCHANGED <<row, updated, listed, bin, procVars, history>>
    BY <1>1 DEF InstallStarts, UpgradeStarts, checkVars
  <2>. QED
    BY <2>1, <2>2 DEF UnitType, procVars, history, Before
<1>2. CASE InstallFails \/ UpgradeFails \/ RollbackFails
  <2>1. Returns("err") /\ UNCHANGED <<row, bin, listed, procVars, stale, outlived, untracked>>
    BY <1>2 DEF InstallFails, UpgradeFails, RollbackFails, Fails, checkVars, history
  <2>. QED
    BY <1>t, <2>1, ReturnsType
<1>3. CASE InstallTorn \/ RollbackTorn \/ UpgradeAborts \/ ((UpgradeTorn \/ Unhealthy) /\ rollback = None)
  <2>1. /\ Returns("err") /\ UNCHANGED <<row, listed, procVars, stale, untracked>>
        /\ outlived' \in BOOLEAN
    BY <1>3, <1>t, <1>p
    DEF InstallTorn, RollbackTorn, UpgradeAborts, UpgradeTorn, Unhealthy, checkVars, history
  <2>2. bin' \in 0..MaxOps
    BY <1>3, <1>t, ExtractType
    DEF InstallTorn, RollbackTorn, UpgradeAborts, UpgradeTorn, Unhealthy
  <2>. QED
    BY <1>t, <2>1, <2>2, ReturnsType
<1>4. CASE (UpgradeTorn \/ Unhealthy) /\ rollback # None
  <2>1. /\ At("rollback") /\ UNCHANGED <<row, updated, listed, procVars, stale, untracked>>
        /\ outlived' \in BOOLEAN
    BY <1>4, <1>t, <1>p DEF UpgradeTorn, Unhealthy, checkVars
  <2>2. bin' \in 0..MaxOps
    BY <1>4, <1>t, ExtractType DEF UpgradeTorn, Unhealthy
  <2>. QED
    BY <1>t, <2>1, <2>2 DEF UnitType, At, procVars, Stopping
<1>5. CASE InstallExtracts
  <2>1. bin' \in 0..MaxOps
    BY <1>5, <1>t, ExtractType DEF InstallExtracts
  <2>2. \/ Spawn /\ updated' \in RowType(spawned') /\ updated'.pid = spawned'
        \/ UNCHANGED procVars /\ updated' \in RowType(spawned)
    BY <1>5, <1>t, RowInstalled DEF InstallExtracts, Spawn
  <2>. QED
    BY <1>5, <1>t, <1>p, <2>1, <2>2, SpawnsType DEF InstallExtracts, After, checkVars
<1>6. CASE UpgradeExtracts
  <2>1. bin' \in 0..MaxOps
    BY <1>6, <1>t, ExtractType DEF UpgradeExtracts
  <2>2. \/ Spawn /\ updated' \in RowType(spawned') /\ updated'.pid = spawned' /\ At("probe")
        \/ UNCHANGED procVars /\ updated' \in RowType(spawned) /\ At("uwrite")
    <3>1. /\ Renewed(updated, target) \in RowType(spawned)
          /\ Started(updated, target, spawned + 1) \in RowType(spawned + 1)
          /\ Started(updated, target, spawned + 1).pid = spawned + 1
      BY <1>t, RowChanges
    <3>. QED
      BY <1>6, <3>1 DEF UpgradeExtracts, Spawn
  <2>. QED
    BY <1>6, <1>t, <1>p, <2>1, <2>2, SpawnsType DEF UpgradeExtracts, checkVars, After
<1>7. CASE RollbackRestores
  <2>1. bin' \in 0..MaxOps
    BY <1>7, <1>t, ExtractType DEF RollbackRestores
  <2>2. \/ Spawn /\ updated' \in RowType(spawned') /\ updated'.pid = spawned'
        \/ UNCHANGED procVars /\ updated' \in RowType(spawned)
    <3>1. /\ Renewed(row, rollback) \in RowType(spawned)
          /\ Started(row, rollback, spawned + 1) \in RowType(spawned + 1)
          /\ Started(row, rollback, spawned + 1).pid = spawned + 1
      BY <1>t, RowChanges
    <3>. QED
      BY <1>7, <3>1 DEF RollbackRestores, Spawn
  <2>. QED
    BY <1>7, <1>t, <2>1, <2>2, SpawnsType DEF RollbackRestores, After, checkVars, history
<1>8. CASE InstallWrites \/ UpgradeWrites \/ RollbackWrites
  <2>1. /\ \E o : Returns(o) /\ row' \in RowType(spawned)
        /\ UNCHANGED <<bin, listed, procVars, outlived>>
        /\ stale' \in BOOLEAN /\ untracked' \in BOOLEAN
    BY <1>8, <1>t, Zenon DEF InstallWrites, UpgradeWrites, RollbackWrites, Upsert, checkVars
  <2>. QED
    BY <1>t, <2>1, ReturnsType
<1>9. CASE UpgradeStops
  <2>1. termed' \subseteq 1..spawned
    <3>1. \A p \in termed' : p \in termed \/ (p = row.pid /\ p # None)
      BY <1>9 DEF UpgradeStops, Term, procVars
    <3>2. row.pid # None => row.pid \in 1..spawned
      BY <1>t, PidRange
    <3>3. termed \subseteq 1..spawned
      BY <1>t
    <3>. QED
      BY <3>1, <3>2, <3>3, Zenon
  <2>2. /\ UNCHANGED <<row, listed, bin, proc, image, spawned, stale, outlived, untracked>>
        /\ updated' = row /\ At("stop")
    BY <1>9 DEF UpgradeStops, Term, checkVars, history, procVars
  <2>. QED
    BY <1>t, <2>1, <2>2 DEF UnitType, At, Stopping
<1>10. CASE ProbePasses
  BY <1>10 DEF ProbePasses, UnitType, At, procVars, checkVars, history, After
<1>11. CASE ProbeExpires
  <2>1. /\ UNCHANGED <<row, updated, listed, bin, proc, image, spawned, stale, outlived, untracked>>
        /\ termed' = termed \cup {updated.pid} /\ At("unhealthy") /\ opc = "probe"
    BY <1>11 DEF ProbeExpires, Term, checkVars, history
  <2>2. updated.pid # None
    BY <2>1 DEF UnitType
  <2>3. termed' \subseteq 1..spawned
    BY <1>t, <2>1, <2>2, PidRange, Zenon
  <2>. QED
    BY <2>1, <2>3 DEF UnitType, At, Stopping
<1>12. CASE Checker \/ Heartbeat \/ HeartbeatUnread
  <2>1. /\ UNCHANGED <<opVars, bin, procVars, outlived>>
        /\ stale' \in BOOLEAN /\ untracked' \in BOOLEAN
    BY <1>12, <1>t, Zenon
    DEF Checker, CheckerLists, CheckerChecks, CheckerWrites, CheckerWriteFails,
        Heartbeat, HeartbeatUnread, history
  <2>2. row' \in RowType(spawned)
    BY <1>12, <1>t
    DEF Checker, CheckerLists, CheckerChecks, CheckerWrites, CheckerWriteFails,
        Heartbeat, HeartbeatUnread
  <2>3. listed' \in RowType(spawned)
    <3>1. \A h \in {"none", "ok", "unhealthy"} : [listed EXCEPT !.health = h] \in RowType(spawned)
      BY <1>t DEF RowType
    <3>2. Health \in {"ok", "unhealthy"}
      BY DEF Health
    <3>. QED
      BY <1>12, <1>t, <3>1, <3>2
      DEF Checker, CheckerLists, CheckerChecks, CheckerWrites, CheckerWriteFails,
          Heartbeat, HeartbeatUnread
  <2>. QED
    BY <2>1, <2>2, <2>3 DEF UnitType, opVars, procVars
<1>13. CASE AgentCrashes
  <2>1. /\ UNCHANGED <<ops, target, row, bin, procVars, stale, outlived>>
        /\ untracked' \in BOOLEAN /\ updated' = NoRow /\ listed' = NoRow /\ opc' = "idle"
        /\ rollback' \in 0..MaxOps
    BY <1>13, <1>t, UnitsOK DEF AgentCrashes, None, UnitsOK
  <2>. QED
    BY <1>t, <2>1 DEF UnitType, procVars, Before
<1>14. CASE Processes
  <2>1. /\ UNCHANGED <<opVars, row, bin, termed, image, spawned, listed, stale, outlived, untracked>>
    BY <1>14 DEF Processes, Bind, Dies, Terminates, Sickens, checkVars, history
  <2>2. proc' \in [Pids -> {"none", "starting", "serving", "gone"}]
    BY <1>14 DEF Processes, Bind, Dies, Terminates, Sickens, UnitType
  <2>. QED
    BY <2>1, <2>2 DEF UnitType, opVars
<1>15. CASE UNCHANGED vars
  BY <1>15 DEF vars, opVars, procVars, checkVars, history, UnitType
<1>. QED
  BY <1>1, <1>2, <1>3, <1>4, <1>5, <1>6, <1>7, <1>8, <1>9, <1>10, <1>11, <1>12, <1>13, <1>14, <1>15
  DEF Next, Operation

----------------------------------------------------------------------------
(* What the steps do to the processes and to the pids that are recorded.   *)

Same == UNCHANGED <<proc, termed, socket>>

\* Between operations, or in one that has changed nothing.
Keeps == opc \in Before /\ opc' \in Before /\ row' = row /\ Same

\* The checker, and an operation that only waited.
Stays ==
  /\ opc' = opc \/ (opc = "probe" /\ opc' = "uwrite")
  /\ untracked' \/ row'.pid = row.pid
  /\ updated' = updated /\ Same

\* An upgrade ends without a process.
Quits == opc \in Stopping /\ opc' = "idle" /\ row' = row /\ Same

\* An upgrade goes on to its rollback.
Rolls ==
  /\ opc \in {"stop", "unhealthy"} /\ opc' = "rollback"
  /\ row' = row /\ Same /\ Paused

\* A version is put in place, and a process started for it or not.
Renews ==
  /\ opc \in {"install", "stop", "rollback"} /\ opc' \in After /\ row' = row
  /\ opc' = "probe" => opc = "stop"
  /\ opc # "rollback" => Paused
  /\ opc = "install" => untracked' \/ \A p \in Pids : Alive(p) => p \in termed
  /\ \/ Spawn /\ updated'.pid = spawned'
     \/ /\ Same
        /\ updated'.pid = CASE opc = "install" -> None
                            [] opc = "stop" -> updated.pid
                            [] opc = "rollback" -> row.pid

\* The row is written, or the process is lost track of.
Records ==
  /\ opc \in After /\ opc' = "idle" /\ Same
  /\ untracked' \/ row'.pid = updated.pid

\* The process of the row, or the new one, is told to stop.
Stops ==
  /\ opc = "upgrade" /\ opc' = "stop" /\ row' = row /\ updated' = row
  /\ termed \subseteq termed' /\ row.pid \in termed' \cup {None}
  /\ UNCHANGED <<proc, socket>>
Expires ==
  /\ opc = "probe" /\ opc' = "unhealthy" /\ row' = row
  /\ termed' = termed \cup {updated.pid}
  /\ UNCHANGED <<proc, socket>>

\* A process moves.
Moves == Processes /\ UNCHANGED <<opVars, row, termed, history>>

Step ==
  \/ Keeps \/ Stays \/ Quits \/ Rolls \/ Renews \/ Records \/ Stops \/ Expires \/ Moves

\* The checker's row differs from the one it replaces in the health only, or it
\* is stale; a pid that is replaced is noticed.
LEMMA WriteBack ==
  ASSUME UnitType, CheckerWrites
  PROVE  /\ stale' \/ (row'.pid = row.pid /\ row'.version = row.version)
         /\ untracked' \/ row'.pid = row.pid
<1>1. row \in RowType(spawned)
  BY DEF UnitType
<1> DEFINE r == [row EXCEPT !.health = listed.health]
<1>2. r.pid = row.pid /\ r.version = row.version
  BY <1>1 DEF RowType
<1>3. stale' \/ row' = r
  BY Zenon DEF CheckerWrites
<1> HIDE DEF r
<1>4. untracked' \/ row'.pid = row.pid
  BY Zenon DEF CheckerWrites
<1>. QED
  BY <1>2, <1>3, <1>4

\* What happened to the processes is not forgotten.
LEMMA HistoryGrows ==
  ASSUME UnitType, [Next]_vars
  PROVE  (outlived => outlived') /\ (untracked => untracked')
<1>t. outlived \in BOOLEAN /\ untracked \in BOOLEAN
  BY DEF UnitType
<1>1. CASE Operation \/ InstallStarts \/ UpgradeStarts
  BY <1>t, <1>1, Zenon
  DEF Operation, InstallStarts, UpgradeStarts, InstallFails, InstallTorn, InstallExtracts,
      InstallWrites, UpgradeFails, UpgradeStops, UpgradeAborts, UpgradeTorn, UpgradeExtracts,
      ProbePasses, ProbeExpires, Unhealthy, UpgradeWrites, RollbackFails, RollbackTorn,
      RollbackRestores, RollbackWrites, Fails, Upsert, Paused, history
<1>2. CASE Checker \/ Heartbeat \/ HeartbeatUnread \/ AgentCrashes
  BY <1>t, <1>2
  DEF Checker, CheckerLists, CheckerChecks, CheckerWrites, CheckerWriteFails, Heartbeat,
      HeartbeatUnread, AgentCrashes, history
<1>3. CASE Processes \/ UNCHANGED vars
  BY <1>3 DEF Processes, Bind, Dies, Terminates, Sickens, vars, history
<1>. QED
  BY <1>1, <1>2, <1>3 DEF Next

LEMMA StepShape == UnitType /\ [Next]_vars => Step
<1> SUFFICES ASSUME UnitType, [Next]_vars PROVE Step
  OBVIOUS
<1>1. CASE InstallStarts \/ UpgradeStarts \/ InstallFails \/ UpgradeFails \/ InstallTorn
  <2>1. Keeps
    BY <1>1
    DEF InstallStarts, UpgradeStarts, InstallFails, UpgradeFails, InstallTorn, Fails, Returns,
        Keeps, Same, procVars, Before
  <2>. QED
    BY <2>1 DEF Step
<1>2. CASE RollbackFails \/ RollbackTorn \/ UpgradeAborts \/ ((UpgradeTorn \/ Unhealthy) /\ rollback = None)
  <2>1. Quits
    BY <1>2
    DEF RollbackFails, RollbackTorn, UpgradeAborts, UpgradeTorn, Unhealthy, Fails, Returns,
        Quits, Same, procVars, Stopping
  <2>. QED
    BY <2>1 DEF Step
<1>3. CASE (UpgradeTorn \/ Unhealthy) /\ rollback # None
  <2>1. Rolls
    BY <1>3 DEF UpgradeTorn, Unhealthy, At, Rolls, Same, procVars
  <2>. QED
    BY <2>1 DEF Step
<1>4. CASE InstallExtracts
  <2>1. \/ Spawn /\ updated'.pid = spawned'
        \/ UNCHANGED procVars /\ updated'.pid = None
    BY <1>4 DEF InstallExtracts, Row
  <2>2. /\ opc = "install" /\ opc' = "iwrite" /\ row' = row /\ Paused
        /\ untracked' \/ \A p \in Pids : Alive(p) => p \in termed
    BY <1>4, Zenon DEF InstallExtracts, At
  <2>3. Renews
    BY <2>1, <2>2 DEF Renews, After, Same, procVars
  <2>. QED
    BY <2>3 DEF Step
<1>5. CASE UpgradeExtracts
  <2>1. /\ Renewed(updated, target).pid = updated.pid
        /\ Started(updated, target, spawned + 1).pid = spawned + 1
    BY RowChanges DEF UnitType
  <2>2. \/ Spawn /\ updated'.pid = spawned'
        \/ UNCHANGED procVars /\ updated'.pid = updated.pid
    BY <1>5, <2>1 DEF UpgradeExtracts, Spawn
  <2>3. opc = "stop" /\ opc' \in {"probe", "uwrite"} /\ row' = row /\ Paused
    BY <1>5 DEF UpgradeExtracts, At
  <2>4. Renews
    BY <2>2, <2>3 DEF Renews, After, Same, procVars
  <2>. QED
    BY <2>4 DEF Step
<1>6. CASE RollbackRestores
  <2>1. /\ Renewed(row, rollback).pid = row.pid
        /\ Started(row, rollback, spawned + 1).pid = spawned + 1
    BY RowChanges DEF UnitType
  <2>2. \/ Spawn /\ updated'.pid = spawned'
        \/ UNCHANGED procVars /\ updated'.pid = row.pid
    BY <1>6, <2>1 DEF RollbackRestores, Spawn
  <2>3. opc = "rollback" /\ opc' = "rwrite" /\ row' = row
    BY <1>6 DEF RollbackRestores, At
  <2>4. Renews
    BY <2>2, <2>3 DEF Renews, After, Same, procVars
  <2>. QED
    BY <2>4 DEF Step
<1>7. CASE InstallWrites \/ UpgradeWrites \/ RollbackWrites
  <2>1. Records
    BY <1>7, Zenon
    DEF InstallWrites, UpgradeWrites, RollbackWrites, Upsert, Returns, Records, After, Same, procVars
  <2>. QED
    BY <2>1 DEF Step
<1>8. CASE UpgradeStops
  <2>1. Stops
    BY <1>8 DEF UpgradeStops, Term, At, Stops, procVars
  <2>. QED
    BY <2>1 DEF Step
<1>9. CASE ProbeExpires
  <2>1. Expires
    BY <1>9 DEF ProbeExpires, Term, At, Expires
  <2>. QED
    BY <2>1 DEF Step
<1>10. CASE ProbePasses \/ Checker \/ Heartbeat \/ HeartbeatUnread \/ UNCHANGED vars
  <2>1. untracked' \/ row'.pid = row.pid
    BY <1>10, WriteBack
    DEF ProbePasses, Checker, CheckerLists, CheckerChecks, CheckerWriteFails, Heartbeat,
        HeartbeatUnread, vars
  <2>2. (opc' = opc \/ (opc = "probe" /\ opc' = "uwrite")) /\ updated' = updated /\ Same
    BY <1>10
    DEF ProbePasses, Checker, CheckerLists, CheckerChecks, CheckerWriteFails, CheckerWrites,
        Heartbeat, HeartbeatUnread, vars, At, opVars, procVars, Same
  <2>. QED
    BY <2>1, <2>2 DEF Stays, Step
<1>11. CASE AgentCrashes
  <2>1. opc' = "idle" /\ row' = row /\ Same /\ (opc \in After => untracked')
    BY <1>11, Zenon DEF AgentCrashes, After, Same, procVars
  <2>. QED
    BY <2>1 DEF UnitType, Keeps, Quits, Records, Step, Before
<1>12. CASE Processes
  <2>1. Moves
    BY <1>12 DEF Moves, Processes, Bind, Dies, Terminates, Sickens
  <2>. QED
    BY <2>1 DEF Step
<1>. QED
  BY <1>1, <1>2, <1>3, <1>4, <1>5, <1>6, <1>7, <1>8, <1>9, <1>10, <1>11, <1>12 DEF Next, Operation

\* Except for one that is started, no process comes to life.
LEMMA NoRebirth ==
  ASSUME UnitType, UnitType', Step, NEW p \in Pids, Alive(p)'
  PROVE  Alive(p) \/ (Renews /\ Spawn /\ p = spawned' /\ p = updated'.pid)
<1>1. CASE Moves
  BY <1>1 DEF Moves, Processes, Bind, Dies, Terminates, Sickens, Alive, UnitType
<1>2. CASE Renews /\ Spawn /\ updated'.pid = spawned'
  <2>1. bin' \in 0..MaxOps
    BY DEF UnitType
  <2>2. p # spawned' => proc'[p] = proc[p]
    BY <1>2, <2>1, Spawned
  <2>. QED
    BY <1>2, <2>2 DEF Alive
<1>3. CASE UNCHANGED proc
  BY <1>3 DEF Alive
<1>. QED
  BY <1>1, <1>2, <1>3
  DEF Step, Keeps, Stays, Quits, Rolls, Renews, Records, Stops, Expires, Same

LEMMA TermedGrows ==
  ASSUME Step
  PROVE  termed \subseteq termed'
BY DEF Step, Keeps, Stays, Quits, Rolls, Renews, Records, Stops, Expires, Moves, Same, Spawn

----------------------------------------------------------------------------
(* Processes.                                                              *)

LEMMA OrphanNext ==
  ASSUME UnitType, UnitType', OrphanInv, [Next]_vars
  PROVE  OrphanInv'
<1> SUFFICES ASSUME ~untracked', NEW p \in Pids, Alive(p)', p \notin termed'
             PROVE  Owner(p)'
  BY DEF OrphanInv
<1>s. Step
  BY StepShape
<1>1. p \notin termed
  BY <1>s, TermedGrows
<1>2. Alive(p) => Owner(p)
  BY <1>1, HistoryGrows DEF OrphanInv
<1>3. CASE Renews
  <2>1. CASE p = updated'.pid
    BY <1>3, <2>1 DEF Renews, Owner
  <2>2. CASE Alive(p)
    <3>1. opc # "install"
      BY <1>1, <1>3, <2>2 DEF Renews
    <3>. QED
      BY <1>2, <1>3, <2>2, <3>1 DEF Renews, Owner, Before, After
  <2>. QED
    BY <1>s, <2>1, <2>2, NoRebirth
<1>4. ~Renews => Owner(p)
  BY <1>s, <1>2, NoRebirth
<1>5. p # None
  BY DEF Pids, None
<1>6. CASE Keeps \/ Records
  BY <1>4, <1>6 DEF Keeps, Records, Renews, Owner, Before, After
<1>7. CASE Stays
  BY <1>4, <1>7, <1>3 DEF Stays, Owner, Before, After
<1>8. CASE Quits \/ Rolls \/ Stops \/ Expires
  BY <1>4, <1>5, <1>8 DEF Quits, Rolls, Stops, Expires, Renews, Owner, Before, After, Stopping
<1>9. CASE Moves
  BY <1>4, <1>9, <1>3 DEF Moves, Owner, opVars
<1>. QED
  BY <1>s, <1>3, <1>6, <1>7, <1>8, <1>9 DEF Step

LEMMA StopNext ==
  ASSUME UnitType, UnitType', StopInv, [Next]_vars
  PROVE  StopInv'
<1>s. Step
  BY StepShape
<1>g. termed \subseteq termed' /\ (untracked => untracked')
  BY <1>s, TermedGrows, HistoryGrows
<1>1. CASE Keeps \/ Quits \/ Records
  BY <1>1 DEF Keeps, Quits, Records, StopInv, Stopping, Before
<1>2. CASE Stays
  BY <1>2, <1>g DEF Stays, StopInv, Stopping
<1>3. CASE Rolls \/ Expires
  BY <1>3, <1>g DEF Rolls, Expires, StopInv, Stopping
<1>4. CASE Renews
  BY <1>4, <1>g DEF Renews, StopInv, Stopping, After
<1>5. CASE Stops
  BY <1>5 DEF Stops, StopInv
<1>6. CASE Moves
  BY <1>6 DEF Moves, StopInv, opVars, history
<1>. QED
  BY <1>s, <1>1, <1>2, <1>3, <1>4, <1>5, <1>6 DEF Step

LEMMA TermNext ==
  ASSUME UnitType, UnitType', StopInv, TermInv, [Next]_vars
  PROVE  TermInv'
<1> SUFFICES ASSUME ~outlived', ~untracked', NEW p \in termed', Alive(p)'
             PROVE  \/ opc' \in {"stop", "unhealthy"}
                    \/ opc' \in Before /\ row'.pid \in termed' \cup {None}
  BY DEF TermInv
<1>s. Step
  BY StepShape
<1>g. termed \subseteq termed' /\ ~untracked /\ ~outlived
  BY <1>s, TermedGrows, HistoryGrows
<1>p. p \in Pids
  <2>1. termed' \subseteq 1..spawned' /\ spawned' \in 0..MaxPids
    BY DEF UnitType
  <2>. QED
    BY <2>1, UnitsOK DEF Pids, UnitsOK
<1>1. CASE Renews
  <2>1. termed' = termed /\ (Spawn => spawned' \notin termed)
    <3>1. bin' \in 0..MaxOps
      BY DEF UnitType
    <3>. QED
      BY <1>1, <3>1, Spawned DEF Renews, Same
  <2>2. p \in termed /\ Alive(p)
    BY <1>s, <1>p, <2>1, NoRebirth
  <2>3. opc = "rollback"
    BY <1>1, <2>2, Zenon DEF Renews, Paused
  <2>. QED
    BY <1>g, <2>2, <2>3 DEF TermInv, Before
<1>2. CASE Stops \/ Expires
  BY <1>2 DEF Stops, Expires
<1>3. CASE Keeps \/ Stays \/ Quits \/ Rolls \/ Records \/ Moves
  <2>1. termed' = termed
    BY <1>3 DEF Keeps, Stays, Quits, Rolls, Records, Moves, Same
  <2>2. CASE Alive(p)
    <3>1. \/ opc \in {"stop", "unhealthy"}
          \/ opc \in Before /\ row.pid \in termed \cup {None}
      BY <1>g, <2>1, <2>2 DEF TermInv
    <3>2. opc \in Stopping => row.pid \in termed \cup {None}
      BY <1>g DEF StopInv
    <3>3. ~Records
      BY <3>1 DEF Records, After, Before
    <3>4. ~Rolls
      BY <2>1, <2>2, Zenon DEF Rolls, Paused
    <3>5. CASE Keeps \/ Quits
      BY <2>1, <3>1, <3>2, <3>5 DEF Keeps, Quits, Before, Stopping
    <3>6. CASE Stays \/ Moves
      BY <2>1, <3>1, <3>6 DEF Stays, Moves, Before, opVars
    <3>. QED
      BY <1>3, <3>3, <3>4, <3>5, <3>6
  <2>. QED
    BY <1>s, <1>p, <1>1, <2>2, NoRebirth
<1>. QED
  BY <1>s, <1>1, <1>2, <1>3 DEF Step

----------------------------------------------------------------------------
(* The socket.                                                             *)

\* No process but the owner is left to touch the path, unless it is noticed.
LEMMA OwnerAlone ==
  ASSUME UnitType, OrphanInv, TermInv, ~untracked, ~outlived,
         NEW p \in Pids, Owner(p), p \notin termed, NEW q \in Pids, Alive(q)
  PROVE  q = p
<1>1. p # None
  BY DEF Pids, None
<1>2. q \notin termed
  BY <1>1 DEF TermInv, Owner, Before, After
<1>3. Owner(q)
  BY <1>2 DEF OrphanInv
<1>. QED
  BY <1>3 DEF Owner, Before, After

LEMMA SocketNext ==
  ASSUME UnitType, UnitType', OrphanInv, StopInv, TermInv, SocketInv, [Next]_vars
  PROVE  SocketInv'
<1> SUFFICES ASSUME ~untracked', ~outlived', NEW p \in Pids,
                    Owner(p)', proc'[p] = "serving", p \notin termed'
             PROVE  socket' = p
  BY DEF SocketInv
<1>s. Step
  BY StepShape
<1>g. p \notin termed /\ ~outlived /\ ~untracked
  BY <1>s, TermedGrows, HistoryGrows
<1>n. p # None
  BY DEF Pids, None
<1>1. CASE Keeps \/ Stays \/ Records
  <2>1. Owner(p) /\ UNCHANGED <<proc, socket>>
    BY <1>1 DEF Keeps, Stays, Records, Owner, Same, Before, After
  <2>. QED
    BY <1>g, <2>1 DEF SocketInv
<1>2. CASE Quits
  BY <1>2, <1>g, <1>n DEF Quits, Owner, StopInv, Before, After
<1>3. CASE Rolls \/ Stops \/ Expires
  BY <1>3 DEF Rolls, Stops, Expires, Owner, Before, After
<1>4. CASE Renews
  <2>1. p = updated'.pid
    BY <1>4 DEF Renews, Owner, Before, After
  <2>2. CASE Spawn /\ updated'.pid = spawned'
    <3>1. bin' \in 0..MaxOps
      BY DEF UnitType
    <3>2. proc'[spawned'] = "starting"
      BY <2>2, <3>1, Spawned
    <3>. QED
      BY <2>1, <2>2, <3>2
  <2>3. CASE /\ opc \in {"install", "stop", "rollback"}
             /\ updated'.pid = CASE opc = "install" -> None
                                 [] opc = "stop" -> updated.pid
                                 [] opc = "rollback" -> row.pid
    BY <1>g, <1>n, <2>1, <2>3 DEF StopInv, Stopping
  <2>. QED
    BY <1>4, <2>2, <2>3 DEF Renews
<1>5. CASE Moves
  <2>1. Owner(p)
    BY <1>5, Zenon DEF Moves, Owner, opVars
  <2>2. ASSUME NEW q \in Pids, Bind(q) \/ Dies(q) \/ Terminates(q) \/ Sickens(q)
        PROVE  socket' = p
    <3>1. CASE Bind(q)
      <4>1. Alive(q)
        BY <3>1 DEF Bind, Alive
      <4>2. q = p
        BY <1>g, <2>1, <4>1, OwnerAlone
      <4>. QED
        BY <3>1, <4>2 DEF Bind
    <3>2. CASE Terminates(q)
      <4>1. Alive(q)
        BY <3>2 DEF Terminates, Alive
      <4>2. q = p
        BY <1>g, <2>1, <4>1, OwnerAlone
      <4>. QED
        BY <1>g, <3>2, <4>2 DEF Terminates
    <3>3. CASE Dies(q) \/ Sickens(q)
      <4>1. socket' = socket /\ proc[p] = "serving"
        BY <3>3 DEF Dies, Sickens, UnitType
      <4>. QED
        BY <1>g, <2>1, <4>1 DEF SocketInv
    <3>. QED
      BY <2>2, <3>1, <3>2, <3>3
  <2>. QED
    BY <1>5, <2>2 DEF Moves, Processes
<1>. QED
  BY <1>s, <1>1, <1>2, <1>3, <1>4, <1>5 DEF Step

----------------------------------------------------------------------------
(* The files.                                                              *)

\* What is put in place is what the row to be written says.
LEMMA Recorded ==
  ASSUME UnitType, UnitType', DiskInv, NEW v \in 0..MaxOps, v # None, Extract(v, {v}),
         kind' = kind, updated'.version = v,
         \/ Spawn /\ updated'.pid = spawned'
         \/ ~Runs
  PROVE  /\ kind' # "sidecar" => bin' = None
         /\ dir' # None /\ updated'.version = dir'
         /\ updated'.pid # None /\ bin' = dir' => image'[updated'.pid] = dir'
<1>1. kind # "sidecar" => bin' = None
  BY DEF DiskInv, Extract
<1>2. dir' = v
  BY DEF Extract
<1>3. CASE Spawn /\ updated'.pid = spawned'
  <2>1. bin' \in 0..MaxOps
    BY DEF UnitType
  <2>2. image'[spawned'] = bin'
    BY <1>3, <2>1, Spawned
  <2>. QED
    BY <1>1, <1>2, <1>3, <2>2
<1>4. CASE ~Runs
  <2>1. bin' = None
    BY <1>1, <1>4 DEF Runs
  <2>. QED
    BY <1>1, <1>2, <2>1
<1>. QED
  BY <1>3, <1>4

\* An operation that returns an error says nothing of the files.
LEMMA ErrorDisk ==
  ASSUME DiskInv, Returns("err"), kind # "sidecar" => bin' = bin
  PROVE  DiskInv'
BY Zenon DEF DiskInv, Returns, RowTellsDisk, After

LEMMA DiskNext ==
  ASSUME UnitType, UnitType', DiskInv, [Next]_vars
  PROVE  DiskInv'
<1>t. target \in 0..MaxOps /\ rollback \in 0..MaxOps /\ ops \in 0..MaxOps
  BY DEF UnitType
<1>1. CASE InstallStarts \/ UpgradeStarts
  <2>1. target' # None /\ opc' \in {"install", "upgrade"} /\ UNCHANGED <<kind, bin>>
    BY <1>1, <1>t DEF InstallStarts, UpgradeStarts, None
  <2>. QED
    BY <2>1, Zenon DEF DiskInv, RowTellsDisk, After
<1>2. CASE InstallFails \/ UpgradeFails \/ RollbackFails
  BY <1>2, ErrorDisk DEF InstallFails, UpgradeFails, RollbackFails, Fails
<1>3. CASE InstallTorn \/ RollbackTorn \/ UpgradeAborts \/ ((UpgradeTorn \/ Unhealthy) /\ rollback = None)
  BY <1>3, ErrorDisk
  DEF InstallTorn, RollbackTorn, UpgradeAborts, UpgradeTorn, Unhealthy, Extract
<1>4. CASE (UpgradeTorn \/ Unhealthy) /\ rollback # None
  <2>1. /\ opc # "idle" /\ opc' = "rollback" /\ UNCHANGED <<kind, target, rollback>>
        /\ kind # "sidecar" => bin' = bin
    BY <1>4 DEF UpgradeTorn, Unhealthy, Extract, At
  <2>. QED
    BY <1>4, <2>1, Zenon DEF DiskInv, RowTellsDisk, After
<1>5. CASE InstallExtracts
  <2>1. /\ opc # "idle" /\ opc' = "iwrite" /\ UNCHANGED <<kind, target>>
        /\ Extract(target, {target})
    BY <1>5 DEF InstallExtracts, At
  <2>2. target # None
    BY <2>1 DEF DiskInv
  <2>3. updated'.version = target /\ ((Spawn /\ updated'.pid = spawned') \/ ~Runs)
    <3>1. \/ Spawn /\ updated' = Row(target, "running", spawned')
          \/ ~Runs /\ updated' = Row(target, "installed", None)
      BY <1>5 DEF InstallExtracts
    <3>. QED
      BY <3>1 DEF Row
  <2>. QED
    BY <1>t, <2>1, <2>2, <2>3, Recorded, Zenon DEF DiskInv, RowTellsDisk
<1>6. CASE UpgradeExtracts
  <2>1. /\ opc # "idle" /\ opc' \in {"probe", "uwrite"} /\ UNCHANGED <<kind, target>>
        /\ Extract(target, {target})
    BY <1>6 DEF UpgradeExtracts, At
  <2>2. target # None
    BY <2>1 DEF DiskInv
  <2>3. updated'.version = target /\ ((Spawn /\ updated'.pid = spawned') \/ ~Runs)
    <3>1. /\ Renewed(updated, target).version = target
          /\ Started(updated, target, spawned + 1).version = target
          /\ Started(updated, target, spawned + 1).pid = spawned + 1
      BY RowChanges DEF UnitType
    <3>. QED
      BY <1>6, <3>1 DEF UpgradeExtracts, Spawn
  <2>. QED
    BY <1>t, <2>1, <2>2, <2>3, Recorded, Zenon DEF DiskInv, RowTellsDisk
<1>7. CASE RollbackRestores
  <2>1. /\ opc = "rollback" /\ opc' = "rwrite" /\ UNCHANGED <<kind, target>>
        /\ Extract(rollback, {rollback})
    BY <1>7 DEF RollbackRestores, At
  <2>2. rollback # None /\ target # None
    BY <2>1 DEF DiskInv
  <2>3. updated'.version = rollback /\ ((Spawn /\ updated'.pid = spawned') \/ ~Runs)
    <3>1. /\ Renewed(row, rollback).version = rollback
          /\ Started(row, rollback, spawned + 1).version = rollback
          /\ Started(row, rollback, spawned + 1).pid = spawned + 1
      BY RowChanges DEF UnitType
    <3>. QED
      BY <1>7, <3>1 DEF RollbackRestores, Spawn
  <2>. QED
    BY <1>t, <2>1, <2>2, <2>3, Recorded DEF DiskInv, RowTellsDisk
<1>8. CASE InstallWrites \/ UpgradeWrites \/ RollbackWrites
  <2>1. /\ opc \in After /\ opc' = "idle" /\ UNCHANGED <<kind, dir, bin, image>>
        /\ row' = updated \/ outcome' = "err"
    BY <1>8, Zenon
    DEF InstallWrites, UpgradeWrites, RollbackWrites, Upsert, Returns, After, procVars
  <2>. QED
    BY <2>1, Zenon DEF DiskInv, RowTellsDisk, After
<1>9. CASE UpgradeStops \/ ProbeExpires
  <2>1. opc # "idle" /\ opc' \in {"stop", "unhealthy"} /\ UNCHANGED <<kind, target, bin>>
    BY <1>9 DEF UpgradeStops, ProbeExpires, At
  <2>. QED
    BY <2>1, Zenon DEF DiskInv, RowTellsDisk, After
<1>10. CASE ProbePasses
  <2>1. opc = "probe" /\ opc' = "uwrite" /\ UNCHANGED <<kind, target, updated, dir, bin, image>>
    BY <1>10 DEF ProbePasses, At, procVars
  <2>. QED
    BY <2>1, Zenon DEF DiskInv, RowTellsDisk, After
<1>11. CASE Checker \/ Heartbeat \/ HeartbeatUnread \/ Processes \/ UNCHANGED vars
  <2>1. UNCHANGED <<opVars, dir, bin, image>>
    BY <1>11
    DEF Checker, CheckerLists, CheckerChecks, CheckerWrites, CheckerWriteFails, Heartbeat,
        HeartbeatUnread, Processes, Bind, Dies, Terminates, Sickens, vars, procVars
  <2>s. stale => stale'
    <3>1. CheckerWrites => (stale => stale')
      BY Zenon DEF CheckerWrites
    <3>2. ~CheckerWrites => stale' = stale
      BY <1>11
      DEF Checker, CheckerLists, CheckerChecks, CheckerWriteFails, Heartbeat,
          HeartbeatUnread, Processes, Bind, Dies, Terminates, Sickens, vars, history
    <3>. QED
      BY <3>1, <3>2, Zenon
  <2>2. stale' \/ (row'.pid = row.pid /\ row'.version = row.version)
    BY <1>11, WriteBack
    DEF Checker, CheckerLists, CheckerChecks, CheckerWriteFails, Heartbeat, HeartbeatUnread,
        Processes, Bind, Dies, Terminates, Sickens, vars
  <2>. QED
    BY <2>1, <2>s, <2>2, Zenon DEF DiskInv, RowTellsDisk, opVars
<1>12. CASE AgentCrashes
  <2>1. /\ opc' = "idle" /\ UNCHANGED <<kind, row, dir, bin, image, stale>>
        /\ (opc = "idle" /\ outcome' = outcome) \/ outcome' = "err"
    BY <1>12 DEF AgentCrashes, procVars
  <2>. QED
    BY <2>1, Zenon DEF DiskInv, RowTellsDisk, After
<1>. QED
  BY <1>1, <1>2, <1>3, <1>4, <1>5, <1>6, <1>7, <1>8, <1>9, <1>10, <1>11, <1>12 DEF Next, Operation

----------------------------------------------------------------------------
(* The theorems.                                                           *)

LEMMA InvInit == Init => IInv
<1> SUFFICES ASSUME Init PROVE IInv
  OBVIOUS
<1>1. UnitType
  BY TypeInit
<1>2. OrphanInv /\ SocketInv
  BY DEF Init, OrphanInv, SocketInv, Alive
<1>3. DiskInv
  BY DEF Init, DiskInv, RowTellsDisk, After
<1>4. StopInv /\ TermInv
  BY DEF Init, StopInv, TermInv, Stopping
<1>. QED
  BY <1>1, <1>2, <1>3, <1>4 DEF IInv

LEMMA Invariance == Spec => []IInv
<1>1. IInv /\ [Next]_vars => IInv'
  BY TypeNext, OrphanNext, DiskNext, StopNext, TermNext, SocketNext DEF IInv
<1>. QED
  BY <1>1, InvInit, PTL DEF Spec

Outcomes == {"none", "ok", "err", "rolled back"}

\* What UnitType leaves out.
RestType ==
  /\ kind \in Kinds /\ dir \in 0..Torn
  /\ outcome \in Outcomes /\ crashes \in 0..MaxCrashes
  /\ sick \subseteq Pids /\ socket \in 0..MaxPids
  /\ hpc \in {"sleep", "check", "write"} /\ reported \in {"none", "ok", "unhealthy"}

\* The types of a step of an operation.
LEMMA RestOperates ==
  ASSUME UnitType, RestType, UNCHANGED <<kind, crashes, sick, socket, hpc, reported>>,
         dir' \in {dir, Torn, target, rollback}, outcome' \in Outcomes
  PROVE  RestType'
<1>0. MaxOps \in Nat
  BY UnitsOK DEF UnitsOK
<1>1. dir' \in 0..Torn
  <2>1. Torn \in 0..Torn /\ \A v \in 0..MaxOps : v \in 0..Torn
    BY <1>0 DEF Torn
  <2>. QED
    BY <2>1, Zenon DEF UnitType, RestType
<1>. QED
  BY <1>1, Zenon DEF RestType

LEMMA RestNext == UnitType /\ RestType /\ [Next]_vars => RestType'
<1> SUFFICES ASSUME UnitType, RestType, [Next]_vars PROVE RestType'
  OBVIOUS
<1> USE DEF opVars, procVars, checkVars, history
<1>o. {outcome, "ok", "err"} \subseteq Outcomes /\ outcome \in Outcomes
  BY Zenon DEF RestType, Outcomes
<1>1. CASE InstallStarts \/ UpgradeStarts
  BY <1>1, <1>o, RestOperates, Zenon DEF InstallStarts, UpgradeStarts
<1>2. CASE InstallFails \/ UpgradeFails \/ RollbackFails
  BY <1>2, <1>o, RestOperates, Zenon DEF InstallFails, UpgradeFails, RollbackFails, Fails, Returns
<1>3. CASE InstallTorn \/ RollbackTorn \/ UpgradeAborts
  BY <1>3, <1>o, RestOperates DEF InstallTorn, RollbackTorn, UpgradeAborts, Returns, Extract
<1>4. CASE InstallExtracts
  BY <1>4, <1>o, RestOperates DEF InstallExtracts, At, Extract, Spawn
<1>5. CASE InstallWrites \/ UpgradeWrites \/ RollbackWrites
  BY <1>5, <1>o, RestOperates, Zenon DEF InstallWrites, UpgradeWrites, RollbackWrites, Upsert,
     Returns, Outcomes
<1>6. CASE UpgradeStops \/ ProbePasses \/ ProbeExpires
  BY <1>6, <1>o, RestOperates DEF UpgradeStops, ProbePasses, ProbeExpires, At, Term
<1>7. CASE UpgradeTorn \/ Unhealthy
  BY <1>7, <1>o, RestOperates DEF UpgradeTorn, Unhealthy, At, Returns, Extract
<1>8. CASE UpgradeExtracts
  BY <1>8, <1>o, RestOperates DEF UpgradeExtracts, At, Extract, Spawn
<1>9. CASE RollbackRestores
  BY <1>9, <1>o, RestOperates DEF RollbackRestores, At, Extract, Spawn
<1>10. CASE Checker
  BY <1>10, Zenon DEF Checker, CheckerLists, CheckerChecks, CheckerWrites, CheckerWriteFails, RestType
<1>11. CASE Heartbeat \/ HeartbeatUnread
  <2>1. row.health \in {"none", "ok", "unhealthy"}
    BY DEF UnitType, RowType
  <2>. QED
    BY <1>11, <2>1, Zenon DEF Heartbeat, HeartbeatUnread, RestType
<1>12. ASSUME NEW p \in Pids, Bind(p) \/ Dies(p) \/ Terminates(p) \/ Sickens(p) PROVE RestType'
  <2>1. /\ UNCHANGED <<kind, dir, outcome, crashes, hpc, reported>>
        /\ socket' \in {socket, p, None} /\ sick' \subseteq sick \cup {p}
    BY <1>12 DEF Bind, Dies, Terminates, Sickens
  <2>2. socket' \in 0..MaxPids
    <3>1. MaxPids \in Nat /\ p \in 0..MaxPids /\ None \in 0..MaxPids
      BY UnitsOK DEF Pids, None, UnitsOK
    <3>. QED
      BY <2>1, <3>1 DEF RestType
  <2>. QED
    BY <2>1, <2>2, Zenon DEF RestType
<1>13. CASE AgentCrashes
  <2>1. crashes' \in 0..MaxCrashes
    <3>1. MaxCrashes \in Nat /\ crashes \in 0..MaxCrashes
      BY UnitsOK DEF RestType, UnitsOK
    <3>2. crashes < MaxCrashes /\ crashes' = crashes + 1
      BY <1>13 DEF AgentCrashes
    <3>. QED
      BY <3>1, <3>2
  <2>. QED
    BY <1>13, <1>o, <2>1 DEF AgentCrashes, RestType
<1>14. CASE UNCHANGED vars
  BY <1>14, Zenon DEF vars, RestType
<1>. QED
  BY <1>1, <1>2, <1>3, <1>4, <1>5, <1>6, <1>7, <1>8, <1>9, <1>10, <1>11, <1>12, <1>13, <1>14, Zenon
  DEF Next, Operation, Processes

\* Type correctness.
THEOREM TypeCorrect == Spec => []TypeOK
<1>1. Init => RestType
  <2>1. 0 \in 0..Torn /\ 0 \in 0..MaxCrashes /\ 0 \in 0..MaxPids
    BY UnitsOK DEF Torn, UnitsOK
  <2>. QED
    BY <2>1, Zenon DEF Init, RestType, Outcomes, None
<1>2. UnitType /\ RestType => TypeOK
  <2> SUFFICES ASSUME UnitType, RestType PROVE TypeOK
    OBVIOUS
  <2>1. \A r \in RowType(spawned) :
          r \in [version : 0..MaxOps, state : {"absent", "running", "installed"},
                 health : {"none", "ok", "unhealthy"}, pid : 0..MaxPids]
    BY UnitsOK DEF UnitType, RowType, UnitsOK
  <2>2. {stale, outlived, untracked} \subseteq BOOLEAN /\ termed \subseteq Pids
    BY UnitsOK DEF UnitType, Pids, UnitsOK
  <2>3. opc \in {"idle", "install", "iwrite", "upgrade", "stop", "probe",
                 "unhealthy", "uwrite", "rollback", "rwrite"}
    BY DEF UnitType, Before, After, Stopping
  <2>. QED
    BY <2>1, <2>2, <2>3, Zenon DEF UnitType, RestType, Outcomes, TypeOK
<1>. QED
  BY <1>1, <1>2, TypeInit, TypeNext, RestNext, PTL DEF Spec

\* upgrade and perform_rollback leave no process behind that nobody will stop, as
\* long as each one's pid got into the row and stayed there.
THEOREM NoneOrphaned == Spec => []NoOrphan
<1>1. IInv => NoOrphan
  BY DEF IInv, OrphanInv, NoOrphan, Owner, After
<1>. QED
  BY <1>1, Invariance, PTL

\* After install, upgrade or perform_rollback has written the row, it names the
\* files in install_dir and the version of the process that was started; if the
\* health checker undoes that, the next operation that ends well sets it right.
THEOREM RowTrue == Spec => []RowTellsDisk
<1>1. IInv => RowTellsDisk
  BY DEF IInv, DiskInv
<1>. QED
  BY <1>1, Invariance, PTL

\* A process started by upgrade keeps the socket path it bound: the cleanup_socket
\* of the version before it comes first, or that version outlived its pause.
THEOREM SocketKept == Spec => []SocketIsRows
<1>1. IInv => SocketIsRows
  <2> SUFFICES ASSUME IInv, ~untracked, ~outlived, opc = "idle", row.pid # None,
                      proc[row.pid] = "serving", row.pid \notin termed
               PROVE  socket = row.pid
    BY DEF SocketIsRows
  <2>1. row.pid \in Pids
    <3>1. spawned \in 0..MaxPids /\ row \in RowType(spawned)
      BY DEF IInv, UnitType
    <3>2. row.pid \in 1..spawned
      BY <3>1, PidRange
    <3>. QED
      BY <3>1, <3>2, UnitsOK DEF Pids, UnitsOK
  <2>. QED
    BY <2>1 DEF IInv, SocketInv, Owner, Before
<1>. QED
  BY <1>1, Invariance, PTL

============================================================================
