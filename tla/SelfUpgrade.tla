---------------------------- MODULE SelfUpgrade ----------------------------
(***************************************************************************)
(* self_upgrade::execute and the files it works on: the agent's binary,    *)
(* vasal.new, the backups and pending-upgrade.json.  A file is written in  *)
(* two steps, truncated and complete, and may be cut off between them.     *)
(* SelfUpgrade tasks take no permit, so two calls may overlap: they share  *)
(* vasal.new, and a writer keeps its file when it is renamed.              *)
(***************************************************************************)
EXTENDS Naturals, FiniteSets

CONSTANTS
  Upgrades,    \* names for concurrent calls of execute
  MaxVersion,  \* versions of the agent
  MaxFiles     \* bound: files made at data_dir/vasal.new, and the first binary

ASSUME UpgradeOK == MaxVersion \in Nat \ {0} /\ MaxFiles \in Nat \ {0}

Versions == 1..MaxVersion
Files == 1..MaxFiles
Torn == 0        \* contents of a file that is not written to its end
NoFile == 0
NoMarker == [target |-> 0, previous |-> 0]

VARIABLES
  ver,      \* version of the running process
  replaced, \* its binary was renamed over: current_exe() is "... (deleted)"
  upc,      \* upc[u]: where the call is
  target,   \* target[u]
  fd,       \* fd[u]: the file the call is writing

  exe,      \* the file at the agent's path
  new,      \* the file at data_dir/vasal.new
  made,     \* files made so far
  content,  \* content[f]: version it holds, or Torn
  backup,   \* backup[v]: "none", "torn" or "whole": data_dir/vasal.v.bak
  marker,   \* pending-upgrade.json, NoMarker when absent or torn
  overlap   \* history: two calls worked on the files at the same time

procVars == <<ver, replaced, upc, target, fd>>
fileVars == <<exe, new, made, content, backup, marker>>
upgradeVars == <<procVars, fileVars, overlap>>

UpgradePC == {"idle", "download", "copy", "mark", "marking", "write", "writing", "rename"}
OnFiles(u) == upc[u] \notin {"idle", "download"}

UpgradeInit ==
  /\ ver = 1 /\ replaced = FALSE
  /\ upc = [u \in Upgrades |-> "idle"]
  /\ target = [u \in Upgrades |-> 1]
  /\ fd = [u \in Upgrades |-> NoFile]
  /\ exe = 1 /\ new = NoFile /\ made = 1
  /\ content = [f \in Files |-> IF f = 1 THEN 1 ELSE Torn]
  /\ backup = [v \in Versions |-> "none"]
  /\ marker = NoMarker
  /\ overlap = FALSE

Go(u, p) == upc' = [upc EXCEPT ![u] = p]

\* A SelfUpgrade task is routed.
Start(u, v) ==
  /\ upc[u] = "idle"
  /\ Go(u, "download")
  /\ target' = [target EXCEPT ![u] = v]
  /\ UNCHANGED <<ver, replaced, fd, fileVars, overlap>>

\* The download or the digest fails, or a later step returns an error: the
\* files stay as they are.
Fail(u) ==
  /\ upc[u] # "idle"
  /\ Go(u, "idle")
  /\ UNCHANGED <<ver, replaced, target, fd, fileVars, overlap>>

\* Mutant: the path of the binary is taken from the configuration, so that it is
\* found again after it was replaced.
CopyAgain(u) ==
  /\ upc[u] = "download"
  /\ Go(u, "copy")
  /\ backup' = [backup EXCEPT ![ver] = "torn"]
  /\ overlap' = (overlap \/ \E w \in Upgrades \ {u} : OnFiles(w))
  /\ UNCHANGED <<ver, replaced, target, fd, exe, new, made, content, marker>>

\* The digest is right and fs::copy begins.  Once the binary was replaced there
\* is no file at current_exe(), and fs::copy fails before it opens the backup.
Copy(u) ==
  /\ upc[u] = "download" /\ ~replaced
  /\ Go(u, "copy")
  /\ backup' = [backup EXCEPT ![ver] = "torn"]
  /\ overlap' = (overlap \/ \E w \in Upgrades \ {u} : OnFiles(w))
  /\ UNCHANGED <<ver, replaced, target, fd, exe, new, made, content, marker>>

Copied(u) ==
  /\ upc[u] = "copy"
  /\ Go(u, "mark")
  /\ backup' = [backup EXCEPT ![ver] = "whole"]
  /\ UNCHANGED <<ver, replaced, target, fd, exe, new, made, content, marker, overlap>>

\* fs::write of pending-upgrade.json.
Mark(u) ==
  /\ upc[u] = "mark"
  /\ Go(u, "marking")
  /\ marker' = NoMarker
  /\ UNCHANGED <<ver, replaced, target, fd, exe, new, made, content, backup, overlap>>

Marked(u) ==
  /\ upc[u] = "marking"
  /\ Go(u, "write")
  /\ marker' = [target |-> target[u], previous |-> ver]
  /\ UNCHANGED <<ver, replaced, target, fd, exe, new, made, content, backup, overlap>>

\* Mutant: the new binary is written over the old one.
WriteInPlace(u) ==
  /\ upc[u] = "write"
  /\ Go(u, "writing")
  /\ fd' = [fd EXCEPT ![u] = exe]
  /\ content' = [content EXCEPT ![exe] = Torn]
  /\ UNCHANGED <<ver, replaced, target, exe, new, made, backup, marker, overlap>>

\* fs::write of vasal.new: makes the file, or truncates the one that is there.
Write(u) ==
  /\ upc[u] = "write"
  /\ Go(u, "writing")
  /\ IF new = NoFile
     THEN made < MaxFiles /\ made' = made + 1 /\ new' = made'
     ELSE UNCHANGED <<made, new>>
  /\ fd' = [fd EXCEPT ![u] = new']
  /\ content' = [content EXCEPT ![new'] = Torn]
  /\ UNCHANGED <<ver, replaced, target, exe, backup, marker, overlap>>

\* With two writers the file may end up as a mixture of both.
Written(u) ==
  /\ upc[u] = "writing"
  /\ Go(u, "rename")
  /\ content' \in {[content EXCEPT ![fd[u]] = target[u]]}
                  \cup IF overlap THEN {[content EXCEPT ![fd[u]] = Torn]} ELSE {}
  /\ UNCHANGED <<ver, replaced, target, fd, exe, new, made, backup, marker, overlap>>

\* chmod and rename over the binary; another call may have renamed it away.
Rename(u) ==
  /\ upc[u] = "rename" /\ new # NoFile
  /\ Go(u, "idle")
  /\ exe' = new /\ new' = NoFile
  /\ replaced' = TRUE
  /\ UNCHANGED <<ver, target, fd, made, content, backup, marker, overlap>>

Execute(u) ==
  \/ (\E v \in Versions : Start(u, v)) \/ Fail(u)
  \/ Copy(u) \/ Copied(u) \/ Mark(u) \/ Marked(u)
  \/ Write(u) \/ Written(u) \/ Rename(u)

\* The process goes away with every call it was in.
Vanish ==
  /\ upc' = [u \in Upgrades |-> "idle"]
  /\ UNCHANGED <<ver, replaced, target, fd, fileVars, overlap>>

\* systemd starts what is at the agent's path.
Exec ==
  /\ content[exe] # Torn
  /\ ver' = content[exe]
  /\ replaced' = FALSE
  /\ UNCHANGED <<upc, target, fd, fileVars, overlap>>

----------------------------------------------------------------------------
(* Properties.                                                             *)

\* Type invariant of the files and the calls.
UpgradeTypeOK ==
  /\ ver \in Versions /\ replaced \in BOOLEAN /\ overlap \in BOOLEAN
  /\ upc \in [Upgrades -> UpgradePC]
  /\ target \in [Upgrades -> Versions]
  /\ fd \in [Upgrades -> 0..MaxFiles]
  /\ exe \in 1..made /\ new \in 0..made /\ made \in Files
  /\ content \in [Files -> 0..MaxVersion]
  /\ backup \in [Versions -> {"none", "torn", "whole"}]
  /\ marker \in [target : 0..MaxVersion, previous : 0..MaxVersion]

\* Wherever the process dies, at its path is a whole binary whose digest was
\* verified: no step of execute leaves it half written.  Nothing is said once two
\* calls worked at the same time, which can tear it, since they share vasal.new;
\* nor of a host that goes down, since vasal.new is renamed without a sync.
BinaryIsWhole == ~overlap => content[exe] # Torn

\* Once the binary has been replaced, and until the next upgrade is recorded,
\* pending-upgrade.json leads to a whole backup of the version before, wherever the
\* process died.  (Calls that overlap, and a host that goes down, are left out.)
RollbackUsable ==
  ~overlap /\ marker # NoMarker /\ marker.previous # marker.target
           /\ content[exe] = marker.target =>
    backup[marker.previous] = "whole"

============================================================================
