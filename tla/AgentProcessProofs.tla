------------------------- MODULE AgentProcessProofs -------------------------
(***************************************************************************)
(* Proofs about AgentProcess and SelfUpgrade, for any number of starts,    *)
(* edits, versions and files, and any number of calls of execute at once.  *)
(***************************************************************************)
EXTENDS AgentProcess, TLAPS

----------------------------------------------------------------------------
(* The invariants.                                                         *)

\* While a key is being exchanged its file is there, and it is removed only
\* with the token file complete.
KeyInv ==
  /\ ppc \in {"answer", "save"} => key = "there"
  /\ ppc = "unlink" => tokens = "whole"
  /\ KeyOrTokens

\* full_config and the channel both hold what was loaded last.
ConfInv == Up => watch = loaded /\ full = loaded

\* What holds for a call of execute that has the files for itself.
CallInv(u) ==
  /\ OnFiles(u) => ~replaced
  /\ upc[u] \in {"mark", "marking", "write", "writing", "rename"} => backup[ver] = "whole"
  /\ upc[u] \in {"write", "writing", "rename"} =>
       marker = [target |-> target[u], previous |-> ver]
  /\ upc[u] \in {"writing", "rename"} => new # NoFile
  /\ upc[u] = "writing" => fd[u] = new
  /\ upc[u] = "rename" => content[new] = target[u]

\* The file being written is never the one at the agent's path.  Without
\* overlapping calls the running version is that of the file at the path until
\* it is replaced, and one call at a time works on the files.
FileInv ==
  /\ new # exe
  /\ ppc # "run" => \A u \in Upgrades : upc[u] = "idle"
  /\ ~overlap =>
       /\ \A u, w \in Upgrades : OnFiles(u) /\ OnFiles(w) => u = w
       /\ \A u \in Upgrades : CallInv(u)
       /\ content[exe] # Torn
       /\ ~replaced => ver = content[exe]
  /\ RollbackUsable

IInv == TypeOK /\ KeyInv /\ ConfInv /\ FileInv

----------------------------------------------------------------------------
(* Types.                                                                  *)

LEMMA IInvInit == Init => IInv
<1> SUFFICES ASSUME Init PROVE IInv
  OBVIOUS
<1>1. TypeOK
  <2>1. ver \in Versions /\ exe \in 1..made /\ new \in 0..made /\ made \in Files
    BY UpgradeOK DEF Init, UpgradeInit, Versions, Files, NoFile
  <2>2. /\ target \in [Upgrades -> Versions] /\ fd \in [Upgrades -> 0..MaxFiles]
        /\ content \in [Files -> 0..MaxVersion]
    BY UpgradeOK DEF Init, UpgradeInit, Versions, Files, NoFile, Torn
  <2>3. marker \in [target : 0..MaxVersion, previous : 0..MaxVersion]
    BY UpgradeOK DEF Init, UpgradeInit, NoMarker
  <2>4. UpgradeTypeOK
    BY <2>1, <2>2, <2>3, Zenon DEF Init, UpgradeInit, UpgradeTypeOK, UpgradePC
  <2>5. starts \in 0..MaxStarts /\ routed \in 0..MaxUpgrades /\ edits \in 0..MaxEdits
    BY ProcessOK DEF Init
  <2>. QED
    BY <2>4, <2>5, Zenon DEF Init, TypeOK, Runtimes, Bad
<1>2. KeyInv /\ ConfInv
  BY DEF Init, KeyInv, KeyOrTokens, ConfInv, Up
<1>3. FileInv
  BY UpgradeOK DEF Init, UpgradeInit, FileInv, CallInv, OnFiles, RollbackUsable, Files, NoFile, Torn
<1>. QED
  BY <1>1, <1>2, <1>3 DEF IInv

\* vasal.new is the next file, or the one that is there already.
LEMMA NewFile ==
  ASSUME NEW N \in Nat, NEW m \in 1..N, NEW n \in 0..m, NEW k, NEW l,
         \/ n = 0 /\ m < N /\ k = m + 1 /\ l = k
         \/ n # 0 /\ k = m /\ l = n
  PROVE  k \in 1..N /\ m <= k /\ l \in 1..k
OBVIOUS

\* A step of a call keeps the types of the files.
LEMMA ExecuteType ==
  ASSUME UpgradeTypeOK, NEW u \in Upgrades, Execute(u)
  PROVE  UpgradeTypeOK'
<1> USE UpgradeOK DEF UpgradeTypeOK, UpgradePC, Versions, Files, Go, fileVars
<1>1. CASE (\E v \in Versions : Start(u, v)) \/ Fail(u)
  <2>1. CASE Fail(u)
    BY <2>1 DEF Fail
  <2>2. ASSUME NEW v \in Versions, Start(u, v) PROVE UpgradeTypeOK'
    <3>1. upc' \in [Upgrades -> UpgradePC]
      BY <2>2 DEF Start
    <3>2. target' \in [Upgrades -> Versions]
      BY <2>2, Zenon DEF Start
    <3>. QED
      BY <2>2, <3>1, <3>2, Zenon DEF Start
  <2>. QED
    BY <1>1, <2>1, <2>2, Zenon
<1>2. CASE Copy(u) \/ Copied(u)
  BY <1>2, Zenon DEF Copy, Copied
<1>3. CASE Mark(u) \/ Marked(u)
  <2>1. marker' \in [target : 0..MaxVersion, previous : 0..MaxVersion]
    BY <1>3 DEF Mark, Marked, NoMarker
  <2>. QED
    BY <1>3, <2>1, Zenon DEF Mark, Marked
<1>4. CASE Write(u)
  <2>1. made' \in Files /\ made <= made' /\ new' \in 1..made'
    <3>1. \/ new = 0 /\ made < MaxFiles /\ made' = made + 1 /\ new' = made'
          \/ new # 0 /\ made' = made /\ new' = new
      BY <1>4, Zenon DEF Write, NoFile
    <3>2. MaxFiles \in Nat /\ made \in 1..MaxFiles /\ new \in 0..made
      BY Zenon
    <3>. QED
      BY <3>1, <3>2, NewFile
  <2>2. content' \in [Files -> 0..MaxVersion] /\ fd' \in [Upgrades -> 0..MaxFiles]
    BY <1>4, <2>1 DEF Write, Torn
  <2>3. exe' \in 1..made' /\ new' \in 0..made'
    BY <1>4, <2>1 DEF Write
  <2>4. upc' \in [Upgrades -> UpgradePC]
    BY <1>4 DEF Write
  <2>. QED
    BY <1>4, <2>1, <2>2, <2>3, <2>4, Zenon DEF Write
<1>5. CASE Written(u)
  <2>1. target[u] \in 0..MaxVersion /\ Torn \in 0..MaxVersion
    BY DEF Torn
  <2>2. content' \in [Files -> 0..MaxVersion]
    BY <1>5, <2>1, Zenon DEF Written
  <2>. QED
    BY <1>5, <2>2 DEF Written
<1>6. CASE Rename(u)
  BY <1>6 DEF Rename, NoFile
<1>. QED
  BY <1>1, <1>2, <1>3, <1>4, <1>5, <1>6, Zenon DEF Execute

LEMMA TypeNext == TypeOK /\ [Next]_vars => TypeOK'
<1> SUFFICES ASSUME TypeOK, [Next]_vars PROVE TypeOK'
  OBVIOUS
<1> USE UpgradeOK, ProcessOK DEF TypeOK, At, confVars, authVars
<1>0. ASSUME UNCHANGED upgradeVars PROVE UpgradeTypeOK'
  BY <1>0 DEF UpgradeTypeOK, upgradeVars, procVars, fileVars
<1>1. CASE Starts
  <2>1. ver' \in Versions
    BY <1>1 DEF Starts, Exec, UpgradeTypeOK, Versions, Files, Torn
  <2>2. UpgradeTypeOK'
    BY <1>1, <2>1, Zenon DEF Starts, Exec, UpgradeTypeOK, fileVars
  <2>3. starts' \in 0..MaxStarts
    BY <1>1 DEF Starts
  <2>. QED
    BY <1>1, <2>2, <2>3, Zenon DEF Starts
<1>2. CASE Loads \/ LoadFails
  BY <1>0, <1>2 DEF Loads, LoadFails, Bad
<1>3. CASE Dies
  <2>1. UpgradeTypeOK'
    BY <1>3 DEF Dies, Vanish, UpgradeTypeOK, fileVars, UpgradePC
  <2>. QED
    BY <1>3, <2>1 DEF Dies
<1>4. CASE Auth
  BY <1>0, <1>4, Zenon DEF Auth, TokensLoaded, NoKey, KeyPosted, BootstrapFails, Saves, SaveFails,
     Saved, KeyRemoved
<1>5. CASE Edit \/ Sighup
  <2>1. edits' \in 0..MaxEdits
    BY <1>5 DEF Edit, Sighup
  <2>. QED
    BY <1>0, <1>5, <2>1, Zenon DEF Edit, Sighup
<1>6. CASE Reload
  BY <1>0, <1>6, Zenon DEF Reload, Bad
<1>7. CASE \E u \in Upgrades : Upgrade(u)
  BY <1>7, ExecuteType DEF Upgrade
<1>8. CASE UNCHANGED vars
  BY <1>0, <1>8 DEF vars
<1>. QED
  BY <1>1, <1>2, <1>3, <1>4, <1>5, <1>6, <1>7, <1>8 DEF Next, Idle

----------------------------------------------------------------------------
(* The key and the configuration.                                          *)

LEMMA KeyNext == KeyInv /\ [Next]_vars => KeyInv'
<1> SUFFICES ASSUME KeyInv, [Next]_vars PROVE KeyInv'
  OBVIOUS
<1> USE DEF KeyInv, KeyOrTokens, At, authVars
<1>1. CASE Starts \/ Loads \/ LoadFails \/ Dies
  BY <1>1 DEF Starts, Loads, LoadFails, Dies
<1>2. CASE Auth
  BY <1>2 DEF Auth, TokensLoaded, NoKey, KeyPosted, BootstrapFails, Saves, SaveFails, Saved,
     KeyRemoved
<1>3. CASE Edit \/ Sighup \/ Reload \/ \E u \in Upgrades : Upgrade(u)
  BY <1>3 DEF Edit, Sighup, Reload, Upgrade
<1>4. CASE UNCHANGED vars
  BY <1>4 DEF vars
<1>. QED
  BY <1>1, <1>2, <1>3, <1>4 DEF Next, Idle

LEMMA ConfNext == ConfInv /\ [Next]_vars => ConfInv'
<1> SUFFICES ASSUME ConfInv, [Next]_vars PROVE ConfInv'
  OBVIOUS
<1> USE DEF ConfInv, Up, At, confVars
<1>1. CASE Starts \/ Loads \/ LoadFails \/ Dies
  BY <1>1 DEF Starts, Loads, LoadFails, Dies
<1>2. CASE Auth
  BY <1>2 DEF Auth, TokensLoaded, NoKey, KeyPosted, BootstrapFails, Saves, SaveFails, Saved,
     KeyRemoved
<1>3. CASE Edit \/ Sighup \/ \E u \in Upgrades : Upgrade(u)
  BY <1>3 DEF Edit, Sighup, Upgrade
<1>4. CASE Reload
  BY <1>4 DEF Reload
<1>5. CASE UNCHANGED vars
  BY <1>5 DEF vars
<1>. QED
  BY <1>1, <1>2, <1>3, <1>4, <1>5 DEF Next, Idle

----------------------------------------------------------------------------
(* The files.                                                              *)

\* The invariant stays with the files, whatever else the process does.
LEMMA FilesUntouched ==
  ASSUME TypeOK, FileInv, UNCHANGED upgradeVars, ppc' = ppc \/ ppc # "run"
  PROVE  FileInv'
BY DEF FileInv, CallInv, OnFiles, RollbackUsable, upgradeVars, procVars, fileVars

\* A call that leaves the files as they are, or is not on them any more.
LEMMA CallOffFiles ==
  ASSUME TypeOK, FileInv, NEW u \in Upgrades, ppc = "run", ppc' = ppc,
         (\E v \in Versions : Start(u, v)) \/ Fail(u)
  PROVE  FileInv'
<1>1. /\ UNCHANGED <<ver, replaced, fd, exe, new, made, content, backup, marker, overlap>>
      /\ upc' \in {[upc EXCEPT ![u] = "idle"], [upc EXCEPT ![u] = "download"]}
      /\ \A w \in Upgrades \ {u} : target'[w] = target[w]
  BY DEF Start, Fail, Go, fileVars, TypeOK, UpgradeTypeOK
<1>2. /\ upc'[u] \in {"idle", "download"}
      /\ \A w \in Upgrades \ {u} : upc'[w] = upc[w]
  BY <1>1 DEF TypeOK, UpgradeTypeOK
<1>3. \A w \in Upgrades : OnFiles(w)' => OnFiles(w) /\ w # u
  BY <1>2 DEF OnFiles
<1>4. ASSUME ~overlap, NEW w \in Upgrades PROVE CallInv(w)'
  BY <1>1, <1>2, <1>4 DEF FileInv, CallInv, OnFiles
<1>5. RollbackUsable'
  BY <1>1 DEF FileInv, RollbackUsable
<1>. QED
  BY <1>1, <1>3, <1>4, <1>5 DEF FileInv

\* A call on the files is alone there when calls do not overlap, so that a step
\* of it has to be justified for that call only.
LEMMA AloneOnFiles ==
  ASSUME TypeOK, FileInv, NEW u \in Upgrades, ppc = "run", ppc' = ppc,
         Execute(u), OnFiles(u) \/ Copy(u), ~overlap'
  PROVE  /\ ~overlap
         /\ \A w \in Upgrades \ {u} : ~OnFiles(w) /\ ~OnFiles(w)'
<1>1. ~overlap
  BY DEF Execute, Start, Fail, Copy, Copied, Mark, Marked, Write, Written, Rename, TypeOK,
     UpgradeTypeOK
<1>2. ASSUME NEW w \in Upgrades \ {u} PROVE ~OnFiles(w)
  BY <1>1, Zenon DEF FileInv, Copy
<1>3. ASSUME NEW w \in Upgrades \ {u} PROVE upc'[w] = upc[w]
  BY DEF Execute, Start, Fail, Copy, Copied, Mark, Marked, Write, Written, Rename, Go, TypeOK,
     UpgradeTypeOK
<1>. QED
  BY <1>1, <1>2, <1>3 DEF OnFiles

LEMMA CallOnFiles ==
  ASSUME TypeOK, FileInv, NEW u \in Upgrades, ppc = "run", ppc' = ppc,
         Execute(u), OnFiles(u) \/ Copy(u),
         new' # exe', RollbackUsable',
         ~overlap' => /\ CallInv(u)'
                      /\ content'[exe'] # Torn
                      /\ ~replaced' => ver' = content'[exe']
  PROVE  FileInv'
<1>1. ASSUME ~overlap', NEW w \in Upgrades PROVE CallInv(w)'
  BY <1>1, AloneOnFiles DEF CallInv, OnFiles
<1>2. ASSUME ~overlap', NEW v \in Upgrades, NEW w \in Upgrades, OnFiles(v)', OnFiles(w)'
      PROVE  v = w
  BY <1>2, AloneOnFiles
<1>. QED
  BY <1>1, <1>2 DEF FileInv

\* One step per operation of execute on the files.
LEMMA ExecuteFiles ==
  ASSUME TypeOK, FileInv, NEW u \in Upgrades, ppc = "run", ppc' = ppc, Execute(u)
  PROVE  FileInv'
<1> USE DEF TypeOK, UpgradeTypeOK, Go
<1>0. ASSUME ~overlap
      PROVE  /\ CallInv(u) /\ content[exe] # Torn
             /\ ~replaced => ver = content[exe]
             /\ RollbackUsable
  BY <1>0 DEF FileInv
<1>n. new # exe
  BY DEF FileInv
<1>1. CASE (\E v \in Versions : Start(u, v)) \/ Fail(u)
  BY <1>1, CallOffFiles
<1>2. CASE Copy(u)
  <2>1. /\ UNCHANGED <<ver, replaced, target, fd, exe, new, made, content, marker>>
        /\ upc'[u] = "copy" /\ ~replaced
        /\ \A v \in Versions \ {ver} : backup'[v] = backup[v]
        /\ ~overlap' => ~overlap
    BY <1>2 DEF Copy
  <2>2. ASSUME ~overlap' PROVE CallInv(u)' /\ content'[exe'] # Torn /\ ver' = content'[exe']
    BY <1>0, <2>1, <2>2 DEF CallInv, OnFiles
  <2>3. RollbackUsable'
    <3> SUFFICES ASSUME ~overlap', marker # NoMarker, marker.previous # marker.target,
                        content[exe] = marker.target
                 PROVE  backup'[marker.previous] = "whole"
      BY <2>1 DEF RollbackUsable
    <3>1. ver = marker.target
      BY <1>0, <2>1
    <3>2. backup[marker.previous] = "whole"
      BY <1>0, <2>1 DEF RollbackUsable
    <3>3. marker.previous \in 0..MaxVersion
      OBVIOUS
    <3>. QED
      BY <1>2, <3>1, <3>2, <3>3 DEF Copy
  <2>. QED
    BY <1>2, <1>n, <2>1, <2>2, <2>3, CallOnFiles
<1>3. CASE Copied(u)
  <2>1. /\ UNCHANGED <<ver, replaced, target, fd, exe, new, made, content, marker, overlap>>
        /\ upc[u] = "copy" /\ upc'[u] = "mark"
        /\ backup'[ver] = "whole"
        /\ \A v : backup[v] = "whole" => backup'[v] = "whole"
    BY <1>3 DEF Copied
  <2>2. ASSUME ~overlap' PROVE CallInv(u)'
    BY <1>0, <2>1, <2>2 DEF CallInv, OnFiles
  <2>3. RollbackUsable'
    BY <1>0, <2>1 DEF RollbackUsable
  <2>. QED
    BY <1>0, <1>3, <1>n, <2>1, <2>2, <2>3, CallOnFiles DEF OnFiles
<1>4. CASE Mark(u) \/ Marked(u)
  <2>1. /\ UNCHANGED <<ver, replaced, target, fd, exe, new, made, content, backup, overlap>>
        /\ upc[u] \in {"mark", "marking"}
        /\ \/ upc'[u] = "marking" /\ marker' = NoMarker
           \/ upc'[u] = "write" /\ marker' = [target |-> target[u], previous |-> ver]
    BY <1>4 DEF Mark, Marked
  <2>2. ASSUME ~overlap' PROVE CallInv(u)'
    BY <1>0, <2>1, <2>2 DEF CallInv, OnFiles
  <2>3. RollbackUsable'
    BY <1>0, <2>1 DEF RollbackUsable, CallInv
  <2>. QED
    BY <1>0, <1>4, <1>n, <2>1, <2>2, <2>3, CallOnFiles DEF OnFiles
<1>5. CASE Write(u)
  <2>1. /\ UNCHANGED <<ver, replaced, target, exe, backup, marker, overlap>>
        /\ upc[u] = "write" /\ upc'[u] = "writing" /\ fd'[u] = new'
        /\ content' = [content EXCEPT ![new'] = Torn]
    BY <1>5 DEF Write
  <2>2. new' # exe /\ new' # NoFile
    BY <1>5, <1>n DEF Write, NoFile, Files
  <2>3. content'[exe] = content[exe]
    BY <2>1, <2>2
  <2>4. ASSUME ~overlap' PROVE CallInv(u)'
    BY <1>0, <2>1, <2>2, <2>4 DEF CallInv, OnFiles
  <2>5. RollbackUsable'
    BY <1>0, <2>1, <2>3 DEF RollbackUsable
  <2>. QED
    BY <1>0, <1>5, <2>1, <2>2, <2>3, <2>4, <2>5, CallOnFiles DEF OnFiles
<1>6. CASE Written(u)
  <2>1. /\ UNCHANGED <<ver, replaced, target, fd, exe, new, made, backup, marker, overlap>>
        /\ upc[u] = "writing" /\ upc'[u] = "rename"
    BY <1>6 DEF Written
  <2>2. ASSUME ~overlap
        PROVE  content'[new] = target[u] /\ content'[exe] = content[exe]
    <3>1. fd[u] = new /\ new # NoFile
      BY <1>0, <2>1, <2>2 DEF CallInv
    <3>2. new \in Files
      BY <3>1 DEF NoFile, Files
    <3>3. content' = [content EXCEPT ![new] = target[u]]
      BY <1>6, <2>2, <3>1 DEF Written
    <3>. QED
      BY <1>n, <3>2, <3>3
  <2>3. ASSUME ~overlap' PROVE CallInv(u)'
    BY <1>0, <2>1, <2>2, <2>3 DEF CallInv, OnFiles
  <2>4. RollbackUsable'
    BY <1>0, <2>1, <2>2 DEF RollbackUsable
  <2>. QED
    BY <1>0, <1>6, <1>n, <2>1, <2>2, <2>3, <2>4, CallOnFiles DEF OnFiles
<1>7. CASE Rename(u)
  <2>1. /\ UNCHANGED <<ver, target, fd, made, content, backup, marker, overlap>>
        /\ upc[u] = "rename" /\ upc'[u] = "idle"
        /\ exe' = new /\ new' = NoFile /\ new # NoFile /\ replaced'
    BY <1>7 DEF Rename
  <2>2. ASSUME ~overlap'
        PROVE  /\ content[new] = target[u]
               /\ marker = [target |-> target[u], previous |-> ver]
               /\ backup[ver] = "whole"
    BY <1>0, <2>1, <2>2 DEF CallInv
  <2>3. ASSUME ~overlap' PROVE CallInv(u)' /\ content'[exe'] # Torn
    BY <2>1, <2>2, <2>3 DEF CallInv, OnFiles, Versions, Torn
  <2>4. RollbackUsable'
    BY <2>1, <2>2 DEF RollbackUsable
  <2>. QED
    BY <1>7, <2>1, <2>3, <2>4, CallOnFiles DEF OnFiles
<1>. QED
  BY <1>1, <1>2, <1>3, <1>4, <1>5, <1>6, <1>7 DEF Execute

LEMMA FileNext == TypeOK /\ FileInv /\ [Next]_vars => FileInv'
<1> SUFFICES ASSUME TypeOK, FileInv, [Next]_vars PROVE FileInv'
  OBVIOUS
<1> USE DEF At
<1>1. CASE Starts
  BY <1>1, Zenon DEF Starts, Exec, FileInv, CallInv, OnFiles, RollbackUsable, fileVars
<1>2. CASE Dies
  BY <1>2, Zenon DEF Dies, Vanish, FileInv, CallInv, OnFiles, RollbackUsable, fileVars
<1>3. CASE Loads \/ LoadFails \/ Auth
  BY <1>3, FilesUntouched DEF Loads, LoadFails, Auth, TokensLoaded, NoKey, KeyPosted,
     BootstrapFails, Saves, SaveFails, Saved, KeyRemoved
<1>4. CASE Edit \/ Sighup \/ Reload
  BY <1>4, FilesUntouched DEF Edit, Sighup, Reload
<1>5. CASE \E u \in Upgrades : Upgrade(u)
  BY <1>5, ExecuteFiles DEF Upgrade
<1>6. CASE UNCHANGED vars
  BY <1>6, FilesUntouched DEF vars
<1>. QED
  BY <1>1, <1>2, <1>3, <1>4, <1>5, <1>6 DEF Next, Idle

----------------------------------------------------------------------------
(* Theorems.                                                               *)

LEMMA Invariance == Spec => []IInv
<1>1. IInv /\ [Next]_vars => IInv'
  BY TypeNext, KeyNext, ConfNext, FileNext DEF IInv
<1>. QED
  BY IInvInit, <1>1, PTL DEF Spec

\* Type correctness.
THEOREM TypeCorrect == Spec => []TypeOK
<1>1. IInv => TypeOK
  BY DEF IInv
<1>. QED
  BY Invariance, <1>1, PTL

\* However many calls of execute there are and wherever the process dies, the file
\* at its path is whole unless two calls worked on the files at once.
THEOREM BinaryWhole == Spec => []BinaryIsWhole
<1>1. IInv => BinaryIsWhole
  BY DEF IInv, FileInv, BinaryIsWhole
<1>. QED
  BY Invariance, <1>1, PTL

\* After any number of upgrades, failures and deaths of the process,
\* pending-upgrade.json leads to a whole backup of the version that was replaced.
THEOREM BackupUsable == Spec => []RollbackUsable
<1>1. IInv => RollbackUsable
  BY DEF IInv, FileInv
<1>. QED
  BY Invariance, <1>1, PTL

\* AuthManager::init removes the one-time key file only when the token file is
\* completely written, and it stays so.
THEOREM KeyKept == Spec => []KeyOrTokens
<1>1. IInv => KeyOrTokens
  BY DEF IInv, KeyInv
<1>. QED
  BY Invariance, <1>1, PTL

\* Once the agent is up, the channel of the background tasks holds the
\* configuration that the last successful load read.
THEOREM RuntimeCurrent == Spec => []RuntimeIsLastLoaded
<1>1. IInv => RuntimeIsLastLoaded
  BY DEF IInv, ConfInv, RuntimeIsLastLoaded
<1>. QED
  BY Invariance, <1>1, PTL

============================================================================
