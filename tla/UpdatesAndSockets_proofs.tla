---------------------- MODULE UpdatesAndSockets_proofs -----------------------
(****************************************************************************)
(* Theorems about the updates of hub and connector (in HubServices), the    *)
(* presence a gateway keeps and the terminals of a connector (in            *)
(* ConnectorServices), for any number of machines, releases, sockets and    *)
(* channels: an executable is whole at any time, a worker is picked by what *)
(* one socket told, and input reaches the terminal it is for.               *)
(****************************************************************************)
EXTENDS HubServices, ConnectorServices, TLAPS

----------------------------------------------------------------------------
(* Updates.                                                                 *)

(* Every version anything holds, or is told of, has been published.         *)
Published == 1..update_latest
FileRow == [exe : Published, previous : 0..update_latest, rollback : 0..update_latest]

(* The stages of a replacement. What is staged for an installation is       *)
(* whole: it was validated.                                                 *)
Downloading == [at : {"download"}, version : Published]
Validating == [at : {"validate"}, staged : Published \cup {Update!Corrupt}, version : Published]
Installing == [at : {"remove", "backup", "swap"}, staged : Published]
Restoring == [at : {"roll back", "restore", "keep", "exit"}]
Operation == Downloading \cup Validating \cup Installing \cup Restoring

Manager == [checking : BOOLEAN, applying : BOOLEAN, known : 0..update_latest, auto : BOOLEAN,
            restorable : BOOLEAN]
Connector == [link : {"down", "welcome", "serving"}, open : BOOLEAN, told : 0..update_latest,
              budget : BOOLEAN, waiting : BOOLEAN, orphan : BOOLEAN, applied : BOOLEAN]

(* The inductive invariant. No path holds more than the releases so far,    *)
(* and the hub replaces itself only while its manager says so.              *)
VersionsOK ==
  /\ update_latest \in Update!Versions
  /\ update_running \in [Update!Processes -> Published]
FilesOK ==
  /\ update_file \in [UpdateMachines -> FileRow]
  /\ update_machine \in [Update!Processes -> UpdateMachines]
OpsOK == update_op \in [Update!Processes -> {Update!Idle} \cup Operation]
LoopsOK == update_manager \in Manager /\ update_connector \in Connector
ExecsOK ==
  /\ update_execs \in [started : 0..MaxExecs, running : 0..MaxExecs]
  /\ update_execs.running <= update_execs.started
ApplyingRuns == update_manager.applying <=> ~Update!At("hub", "idle")

UpdateInv == VersionsOK /\ FilesOK /\ OpsOK /\ LoopsOK /\ ExecsOK /\ ApplyingRuns

----------------------------------------------------------------------------
(* The two processes that replace themselves.                               *)
LEMMA Hub == "hub" \in Update!Processes /\ "connector" \in Update!Processes /\ "hub" # "connector"
BY DEF Update!Processes

(* The files beside the executable of a process.                            *)
LEMMA AtItsPath ==
  ASSUME UpdateInv, NEW p \in Update!Processes
  PROVE  /\ Update!Here(p) \in FileRow /\ update_machine[p] \in UpdateMachines
         /\ Update!Here(p).exe \in Published /\ Update!Here(p).previous \in 0..update_latest
         /\ Update!Here(p).rollback \in 0..update_latest
         /\ update_latest \in Nat \ {0}
BY DEF UpdateInv, FilesOK, Update!Here, FileRow, VersionsOK, Update!Versions

(* A row of files stays one when paths are written.                         *)
LEMMA TwoFiles ==
  ASSUME update_latest \in Nat, NEW row \in FileRow, NEW a \in Published, NEW b \in 0..update_latest
  PROVE  /\ [row EXCEPT !.exe = a, !.previous = b] \in FileRow
         /\ [row EXCEPT !.previous = b, !.rollback = 0] \in FileRow
<1>1. 0 \in 0..update_latest
  OBVIOUS
<1>2. [row EXCEPT !.exe = a, !.previous = b] \in FileRow
  BY DEF FileRow
<1>3. [row EXCEPT !.previous = b, !.rollback = 0] \in FileRow
  BY <1>1 DEF FileRow
<1> QED
  BY <1>2, <1>3

(* So does the state of the manager.                                        *)
LEMMA ManagerSet ==
  ASSUME NEW m \in Manager, NEW k \in 0..update_latest, NEW b \in BOOLEAN
  PROVE  LET n == [m EXCEPT !.checking = FALSE, !.known = k, !.applying = b]
             o == [m EXCEPT !.applying = b, !.known = k]
         IN  n \in Manager /\ n.applying = b /\ o \in Manager /\ o.applying = b
BY DEF Manager

(* And when a check ends.                                                   *)
LEMMA CheckedSet ==
  ASSUME NEW m \in Manager, NEW k \in 0..update_latest, NEW b \in BOOLEAN
  PROVE  /\ [m EXCEPT !.checking = FALSE, !.known = k, !.applying = b] \in Manager
         /\ [m EXCEPT !.checking = FALSE, !.known = k, !.applying = b].applying = b
BY DEF Manager

(* What a stage says of the replacement.                                    *)
LEMMA Working ==
  ASSUME UpdateInv, NEW p \in Update!Processes, ~Update!At(p, "idle")
  PROVE  /\ update_op[p] \in Operation
         /\ update_op[p].at = "download" => update_op[p] \in Downloading
         /\ update_op[p].at = "validate" => update_op[p] \in Validating
         /\ update_op[p].at \in {"remove", "backup", "swap"} => update_op[p] \in Installing
<1>1. update_op[p] \in {Update!Idle} \cup Operation /\ update_op[p] # Update!Idle
  BY DEF UpdateInv, OpsOK, Update!At, Update!Idle
<1> QED
  BY <1>1 DEF Operation, Downloading, Validating, Installing, Restoring

(* The files after a write.                                                 *)
LEMMA Written ==
  ASSUME UpdateInv, NEW p \in Update!Processes, NEW files \in FileRow, Update!Write(p, files),
         UNCHANGED <<update_machine, update_latest>>
  PROVE  FilesOK'
BY AtItsPath DEF UpdateInv, FilesOK, Update!Write, FileRow, Published

(* And after none.                                                          *)
LEMMA Kept ==
  ASSUME UpdateInv, UNCHANGED <<update_machine, update_file, update_latest>>
  PROVE  FilesOK'
BY DEF UpdateInv, FilesOK, FileRow, Published

(* A process that starts runs what is at its path.                          *)
LEMMA StartsKeeps ==
  ASSUME Update!Bounds, UpdateInv, NEW p \in Update!Processes, Update!Starts(p),
         UNCHANGED <<update_machine, update_file, update_latest>>
  PROVE  UpdateInv'
<1>1. VersionsOK'
  BY AtItsPath DEF Update!Starts, UpdateInv, VersionsOK, Published
<1>2. OpsOK'
  BY DEF Update!Starts, Update!Go, UpdateInv, OpsOK, Operation, Downloading, Validating, Installing,
     Published
<1>3. CASE p = "hub"
  <2>1. /\ update_manager' = Update!FreshManager(Update!Here(p))
        /\ update_connector' = [update_connector EXCEPT !.open = FALSE]
        /\ update_execs' = update_execs
    BY <1>3 DEF Update!Starts
  <2>2. update_manager' \in Manager /\ update_manager'.applying = FALSE
    BY <2>1, AtItsPath DEF Update!FreshManager, Manager, UpdateInv, LoopsOK
  <2>3. update_connector' \in Connector
    BY <2>1 DEF Connector, UpdateInv, LoopsOK
  <2>4. LoopsOK' /\ ExecsOK'
    BY <2>1, <2>2, <2>3 DEF LoopsOK, ExecsOK, UpdateInv, Manager, Connector
  <2>5. update_op'["hub"].at = "idle"
    BY <1>3, Hub DEF Update!Starts, Update!Go, Update!Idle, UpdateInv, OpsOK
  <2>6. ApplyingRuns'
    BY <2>2, <2>5 DEF ApplyingRuns, Update!At
  <2> QED
    BY <1>1, <1>2, <2>4, <2>6, Kept DEF UpdateInv
<1>4. CASE p # "hub"
  <2>1. /\ update_connector' = Update!FreshConnector
        /\ update_execs' = [update_execs EXCEPT !.running = 0]
        /\ update_manager' = update_manager
    BY <1>4 DEF Update!Starts
  <2>2. update_connector' \in Connector
    BY <2>1, AtItsPath DEF Update!FreshConnector, Connector
  <2>3. ExecsOK'
    BY <2>1 DEF ExecsOK, UpdateInv, Update!Bounds
  <2>4. update_op'["hub"] = update_op["hub"]
    BY <1>4 DEF Update!Starts, Update!Go, UpdateInv, OpsOK, Update!Processes
  <2>5. LoopsOK' /\ ApplyingRuns'
    BY <2>1, <2>2, <2>4 DEF LoopsOK, UpdateInv, ApplyingRuns, Manager, Connector, Update!At
  <2> QED
    BY <1>1, <1>2, <2>3, <2>5, Kept DEF UpdateInv
<1> QED
  BY <1>3, <1>4

(* A replacement is given up.                                               *)
LEMMA GiveUpKeeps ==
  ASSUME Update!Bounds, UpdateInv, NEW p \in Update!Processes, Update!GiveUp(p), FilesOK'
  PROVE  UpdateInv'
<1>1. /\ update_op' = [update_op EXCEPT ![p] = Update!Idle]
      /\ UNCHANGED <<update_machine, update_running, update_execs, update_latest, update_moves>>
  BY DEF Update!GiveUp, Update!Go
<1>2. VersionsOK' /\ ExecsOK'
  BY <1>1 DEF UpdateInv, VersionsOK, ExecsOK, Published
<1>3. OpsOK'
  BY <1>1 DEF UpdateInv, OpsOK, Operation, Downloading, Validating, Installing, Published
<1>4. CASE p = "hub"
  <2>1. /\ update_manager' = [update_manager EXCEPT !.applying = FALSE]
        /\ update_connector' = update_connector
    BY <1>4 DEF Update!GiveUp
  <2>2. update_manager' \in Manager /\ update_manager'.applying = FALSE
    BY <2>1 DEF UpdateInv, LoopsOK, Manager
  <2>3. update_op'["hub"].at = "idle"
    BY <1>1, <1>4, Hub DEF Update!Idle, UpdateInv, OpsOK
  <2>4. LoopsOK' /\ ApplyingRuns'
    BY <1>1, <2>1, <2>2, <2>3 DEF UpdateInv, LoopsOK, ApplyingRuns, Manager, Connector, Update!At
  <2> QED
    BY <1>2, <1>3, <2>4 DEF UpdateInv
<1>5. CASE p # "hub"
  <2>1. update_manager' = update_manager /\ update_op'["hub"] = update_op["hub"]
    BY <1>1, <1>5 DEF Update!GiveUp, UpdateInv, OpsOK, Update!Processes
  <2>2. update_connector' \in Connector
    BY <1>5 DEF Update!GiveUp, UpdateInv, LoopsOK, Connector
  <2>3. LoopsOK' /\ ApplyingRuns'
    BY <1>1, <2>1, <2>2 DEF UpdateInv, LoopsOK, ApplyingRuns, Manager, Connector, Update!At
  <2> QED
    BY <1>2, <1>3, <2>3 DEF UpdateInv
<1> QED
  BY <1>4, <1>5

(* It goes on.                                                              *)
LEMMA ContinueKeeps ==
  ASSUME Update!Bounds, UpdateInv, NEW p \in Update!Processes, ~Update!At(p, "idle"),
         NEW next \in Operation, Update!Continue(p, next),
         FilesOK'
  PROVE  UpdateInv'
<1>1. /\ update_op' = [update_op EXCEPT ![p] = next]
      /\ UNCHANGED <<update_machine, update_running, update_manager, update_connector, update_execs,
                     update_latest, Update!bounds>>
  BY DEF Update!Continue, Update!Go
<1>2. VersionsOK' /\ ExecsOK' /\ LoopsOK'
  BY <1>1 DEF UpdateInv, VersionsOK, ExecsOK, LoopsOK, Manager, Connector, Published
<1>3. OpsOK'
  BY <1>1 DEF UpdateInv, OpsOK, Operation, Downloading, Validating, Installing, Published
<1>4. next.at # "idle"
  BY DEF Operation, Downloading, Validating, Installing, Restoring
<1>5. ApplyingRuns'
  <2>1. ~Update!At(p, "idle")'
    BY <1>1, <1>4 DEF Update!At, UpdateInv, OpsOK
  <2>2. \A q \in Update!Processes \ {p} : update_op'[q] = update_op[q]
    BY <1>1 DEF UpdateInv, OpsOK
  <2> QED
    BY <1>1, <2>1, <2>2, Hub DEF UpdateInv, ApplyingRuns, Update!At
<1> QED
  BY <1>2, <1>3, <1>5 DEF UpdateInv

(* It is done, and the process is to exit.                                  *)
LEMMA ReplacedKeeps ==
  ASSUME Update!Bounds, UpdateInv, NEW p \in Update!Processes, ~Update!At(p, "idle"),
         Update!Replaced(p), FilesOK'
  PROVE  UpdateInv'
<1> DEFINE exit == [at |-> "exit"]
<1>0. UNCHANGED <<update_machine, update_running, update_execs, update_latest, Update!bounds>>
  BY DEF Update!Replaced
<1>1. CASE p = "connector" /\ ~Update!BeforeServing
  <2>1. /\ update_connector' = [update_connector EXCEPT !.waiting = TRUE]
        /\ update_op' = [update_op EXCEPT ![p] = Update!Idle]
        /\ update_manager' = update_manager
    BY <1>1 DEF Update!Replaced, Update!Go
  <2>2. VersionsOK' /\ ExecsOK'
    BY <1>0 DEF UpdateInv, VersionsOK, ExecsOK, Published
  <2>3. OpsOK' /\ update_op'["hub"] = update_op["hub"]
    BY <1>0, <1>1, <2>1
    DEF UpdateInv, OpsOK, Operation, Downloading, Validating, Installing, Published,
        Update!Processes
  <2>4. LoopsOK' /\ ApplyingRuns'
    BY <1>0, <2>1, <2>3 DEF UpdateInv, LoopsOK, Manager, Connector, ApplyingRuns, Update!At
  <2> QED
    BY <2>2, <2>3, <2>4 DEF UpdateInv
<1>2. CASE ~(p = "connector" /\ ~Update!BeforeServing)
  <2>1. exit \in Operation
    BY DEF Operation, Restoring
  <2>2. Update!Continue(p, exit)
    BY <1>0, <1>2 DEF Update!Replaced, Update!Continue
  <2> QED
    BY <2>1, <2>2, ContinueKeeps
<1> QED
  BY <1>1, <1>2

----------------------------------------------------------------------------
(* The steps of a replacement.                                              *)
LEMMA DownloadKeeps ==
  ASSUME Update!Bounds, UpdateInv, NEW p \in Update!Processes, Update!downloadStaged(p)
  PROVE  UpdateInv'
<1>1. PICK staged \in {update_op[p].version, Update!Corrupt} :
        Update!Go(p, [at |-> "validate", staged |-> staged, version |-> update_op[p].version])
  BY DEF Update!downloadStaged
<1> DEFINE next == [at |-> "validate", staged |-> staged, version |-> update_op[p].version]
<1>2. update_op[p] \in Downloading
  BY Working DEF Update!downloadStaged, Update!At
<1>3. next \in Validating
  BY <1>2 DEF Downloading, Validating
<1>4. UNCHANGED <<update_machine, update_file, update_running, update_manager, update_connector,
                  update_execs, update_latest, update_moves>>
  BY DEF Update!downloadStaged
<1>5. VersionsOK' /\ ExecsOK' /\ LoopsOK' /\ FilesOK'
  BY <1>4, Kept DEF UpdateInv, VersionsOK, ExecsOK, LoopsOK, Manager, Connector, Published
<1>6. next \in Operation /\ next.at = "validate"
  BY <1>3 DEF Operation
<1> HIDE DEF next
<1>7. OpsOK'
  BY <1>1, <1>4, <1>6
  DEF next, Update!Go, UpdateInv, OpsOK, Operation, Downloading, Validating, Installing, Published
<1>8. update_op' = [update_op EXCEPT ![p] = next]
  BY <1>1 DEF Update!Go, next
<1>9. ApplyingRuns'
  <2>1. ~Update!At(p, "idle") /\ ~Update!At(p, "idle")'
    BY <1>2, <1>6, <1>8 DEF Downloading, Update!At, UpdateInv, OpsOK
  <2>2. \A q \in Update!Processes \ {p} : update_op'[q] = update_op[q]
    BY <1>8 DEF UpdateInv, OpsOK
  <2> QED
    BY <1>4, <2>1, <2>2, Hub DEF UpdateInv, ApplyingRuns, Update!At
<1> QED
  BY <1>5, <1>7, <1>9 DEF UpdateInv

(* Only what was asked for is installed.                                    *)
LEMMA ValidateKeeps ==
  ASSUME Update!Bounds, UpdateInv, NEW p \in Update!Processes, Update!validateBinary(p)
  PROVE  UpdateInv'
<1>1. update_op[p] \in Validating /\ update_file' = update_file
  BY Working DEF Update!validateBinary, Update!At
<1>2. CASE update_op[p].staged = update_op[p].version
  <2>1. [at |-> "remove", staged |-> update_op[p].staged] \in Operation
    BY <1>1, <1>2 DEF Validating, Installing, Operation
  <2>2. /\ Update!Continue(p, [at |-> "remove", staged |-> update_op[p].staged])
        /\ ~Update!At(p, "idle")
    BY <1>2 DEF Update!validateBinary, Update!At
  <2>3. FilesOK'
    BY <1>1, <2>2, Kept DEF Update!Continue
  <2> QED
    BY <2>1, <2>2, <2>3, ContinueKeeps
<1>3. CASE update_op[p].staged # update_op[p].version
  <2>1. Update!GiveUp(p)
    BY <1>3 DEF Update!validateBinary
  <2>2. FilesOK'
    BY <1>1, <2>1, Kept DEF Update!GiveUp
  <2> QED
    BY <2>1, <2>2, GiveUpKeeps
<1> QED
  BY <1>2, <1>3

(* The stages of an installation.                                           *)
LEMMA InstallingGoes ==
  ASSUME UpdateInv, NEW p \in Update!Processes, update_op[p] \in Installing,
         NEW stage \in {"backup", "swap"}
  PROVE  [update_op[p] EXCEPT !.at = stage] \in Operation
BY DEF Installing, Operation

(* The previous executable is removed.                                      *)
LEMMA RemoveKeeps ==
  ASSUME Update!Bounds, UpdateInv, NEW p \in Update!Processes, Update!RemovePrevious(p)
  PROVE  UpdateInv'
<1>1. update_op[p] \in Installing
  BY Working DEF Update!RemovePrevious, Update!At
<1>2. [Update!Here(p) EXCEPT !.previous = 0] \in FileRow
  BY AtItsPath DEF FileRow
<1>3. FilesOK'
  BY <1>2, Written DEF Update!RemovePrevious, Update!Continue
<1> QED
  BY <1>1, <1>3, InstallingGoes, ContinueKeeps DEF Update!RemovePrevious, Update!At

(* The executable is kept as the previous one.                              *)
LEMMA BackupKeeps ==
  ASSUME Update!Bounds, UpdateInv, NEW p \in Update!Processes, Update!backupExecutable(p)
  PROVE  UpdateInv'
<1>1. update_op[p] \in Installing
  BY Working DEF Update!backupExecutable, Update!At
<1>2. CASE Update!Here(p).previous = 0
  <2>1. [Update!Here(p) EXCEPT !.previous = Update!Here(p).exe] \in FileRow
    BY AtItsPath DEF FileRow, Published
  <2>2. FilesOK'
    BY <1>2, <2>1, Written DEF Update!backupExecutable, Update!Continue
  <2> QED
    BY <1>1, <1>2, <2>2, InstallingGoes, ContinueKeeps DEF Update!backupExecutable, Update!At
<1>3. CASE Update!Here(p).previous # 0
  <2>1. FilesOK'
    BY <1>3, Kept DEF Update!backupExecutable, Update!GiveUp
  <2> QED
    BY <1>3, <2>1, GiveUpKeeps DEF Update!backupExecutable
<1> QED
  BY <1>2, <1>3

(* What was validated is what the path gets.                                *)
LEMMA SwapKeeps ==
  ASSUME Update!Bounds, UpdateInv, NEW p \in Update!Processes, Update!swapUnix(p) PROVE UpdateInv'
<1>1. update_op[p] \in Installing
  BY Working DEF Update!swapUnix, Update!At
<1>2. [Update!Here(p) EXCEPT !.exe = update_op[p].staged] \in FileRow
  BY <1>1, AtItsPath DEF FileRow, Installing
<1>3. FilesOK'
  BY <1>2, Written DEF Update!swapUnix, Update!Replaced
<1> QED
  BY <1>3, ReplacedKeeps DEF Update!swapUnix, Update!At

(* The staged executable cannot be moved to its path.                       *)
LEMMA SwapFailsKeeps ==
  ASSUME Update!Bounds, UpdateInv, NEW p \in Update!Processes, Update!SwapFails(p) PROVE UpdateInv'
<1>1. [Update!Here(p) EXCEPT !.previous = 0] \in FileRow
  BY AtItsPath DEF FileRow
<1>2. FilesOK'
  BY <1>1, Written DEF Update!SwapFails, Update!GiveUp
<1> QED
  BY <1>2, GiveUpKeeps DEF Update!SwapFails

(* The backup fails, on its way or after it.                                *)
LEMMA BackupFailedKeeps ==
  ASSUME Update!Bounds, UpdateInv, NEW p \in Update!Processes, Update!BackupFailed(p)
  PROVE  UpdateInv'
<1>1. CASE Update!Here(p).previous = 0
  <2>1. FilesOK'
    BY <1>1, Kept DEF Update!BackupFailed, Update!GiveUp
  <2> QED
    BY <1>1, <2>1, GiveUpKeeps DEF Update!BackupFailed
<1>2. CASE Update!Here(p).previous # 0
  <2>1. [Update!Here(p) EXCEPT !.rollback = Update!Here(p).exe] \in FileRow
    BY AtItsPath DEF FileRow, Published
  <2>2. FilesOK'
    BY <1>2, <2>1, Written DEF Update!BackupFailed, Update!Continue
  <2>3. [at |-> "restore"] \in Operation
    BY DEF Operation, Restoring
  <2> QED
    BY <1>2, <2>2, <2>3, ContinueKeeps DEF Update!BackupFailed, Update!At
<1> QED
  BY <1>1, <1>2

(* An executable is restored only while there is one to restore.            *)
LEMMA RestoreKeeps ==
  ASSUME Update!Bounds, UpdateInv, NEW p \in Update!Processes, Update!Restore(p) PROVE UpdateInv'
<1>1. CASE Update!Here(p).previous = 0
  <2>1. [Update!Here(p) EXCEPT !.rollback = 0] \in FileRow
    BY AtItsPath DEF FileRow
  <2>2. FilesOK'
    BY <1>1, <2>1, Written DEF Update!Restore, Update!GiveUp
  <2> QED
    BY <1>1, <2>2, GiveUpKeeps DEF Update!Restore
<1>2. CASE Update!Here(p).previous # 0
  <2>1. [Update!Here(p) EXCEPT !.exe = Update!Here(p).previous, !.previous = 0] \in FileRow
    <3>1. /\ Update!Here(p) \in FileRow /\ Update!Here(p).previous \in Published
          /\ 0 \in 0..update_latest /\ update_latest \in Nat
      BY <1>2, AtItsPath DEF Published
    <3> QED
      BY <3>1, TwoFiles
  <2>2. FilesOK'
    BY <1>2, <2>1, Written DEF Update!Restore, Update!Continue
  <2>3. [at |-> "keep"] \in Operation
    BY DEF Operation, Restoring
  <2> QED
    BY <1>2, <2>2, <2>3, ContinueKeeps DEF Update!Restore, Update!At
<1> QED
  BY <1>1, <1>2

(* The replaced executable cannot be kept for a rollback.                   *)
LEMMA KeepKeeps ==
  ASSUME Update!Bounds, UpdateInv, NEW p \in Update!Processes, Update!KeepFailed(p) PROVE UpdateInv'
<1>1. [Update!Here(p) EXCEPT !.previous = Update!Here(p).rollback, !.rollback = 0] \in FileRow
  <2>1. /\ Update!Here(p) \in FileRow /\ Update!Here(p).rollback \in 0..update_latest
        /\ Update!Here(p).exe \in Published /\ update_latest \in Nat
    BY AtItsPath
  <2> QED
    BY <2>1, TwoFiles
<1>2. FilesOK'
  BY <1>1, Written DEF Update!KeepFailed, Update!Replaced
<1> QED
  BY <1>2, ReplacedKeeps DEF Update!KeepFailed, Update!At

(* Every step of a replacement keeps the invariant.                         *)
LEMMA ReplaceKeeps ==
  ASSUME Update!Bounds, UpdateInv, NEW p \in Update!Processes,
         Update!Replace(p) \/ Update!SwapFails(p) \/ Update!Crash(p)
  PROVE  UpdateInv'
<1>1. CASE Update!Exit(p)
  BY <1>1, StartsKeeps DEF Update!Exit
<1>2. CASE Update!Crash(p)
  BY <1>2, StartsKeeps DEF Update!Crash
<1> QED
  BY <1>1, <1>2, DownloadKeeps, ValidateKeeps, RemoveKeeps, BackupKeeps, SwapKeeps, SwapFailsKeeps,
     BackupFailedKeeps, RestoreKeeps, KeepKeeps DEF Update!Replace

----------------------------------------------------------------------------
(* The manager and the connector.                                           *)

(* A step that leaves the files and the processes.                          *)
LEMMA LoopKeeps ==
  ASSUME UpdateInv, update_manager' \in Manager, update_connector' \in Connector,
         UNCHANGED <<update_machine, update_file, update_running, update_latest>>, OpsOK', ExecsOK',
         ApplyingRuns'
  PROVE  UpdateInv'
<1>1. VersionsOK' /\ FilesOK'
  BY Kept DEF UpdateInv, VersionsOK, Published
<1>2. LoopsOK'
  BY DEF LoopsOK, Manager, Connector
<1> QED
  BY <1>1, <1>2 DEF UpdateInv

(* The replacements stand.                                                  *)
LEMMA SameOps == ASSUME UpdateInv, UNCHANGED <<update_op, update_latest>> PROVE OpsOK'
BY DEF UpdateInv, OpsOK, Operation, Downloading, Validating, Installing, Published

(* The commands stand.                                                      *)
LEMMA SameExecs == ASSUME UpdateInv, update_execs' = update_execs PROVE ExecsOK'
BY DEF UpdateInv, ExecsOK

(* A replacement begins with a download.                                    *)
LEMMA BeginKeeps ==
  ASSUME UpdateInv, NEW version \in Published, NEW p \in Update!Processes,
         Update!Go(p, [at |-> "download", version |-> version]), update_latest' = update_latest
  PROVE  /\ OpsOK' /\ ~Update!At(p, "idle")'
         /\ \A q \in Update!Processes \ {p} : update_op'[q] = update_op[q]
<1> DEFINE next == [at |-> "download", version |-> version]
<1>1. next \in Operation /\ next.at = "download"
  BY DEF Operation, Downloading
<1>2. update_op' = [update_op EXCEPT ![p] = next]
  BY DEF Update!Go
<1> HIDE DEF next
<1>3. update_op'[p] = next /\ \A q \in Update!Processes \ {p} : update_op'[q] = update_op[q]
  BY <1>2 DEF UpdateInv, OpsOK
<1>4. OpsOK'
  BY <1>1, <1>2 DEF UpdateInv, OpsOK, Operation, Downloading, Validating, Installing, Published
<1> QED
  BY <1>1, <1>3, <1>4 DEF Update!At

(* The steps of the manager of the hub.                                     *)
LEMMA ManageKeeps ==
  ASSUME Update!Bounds, UpdateInv, Update!Manage PROVE UpdateInv'
<1>0. /\ update_manager \in Manager /\ update_connector \in Connector /\ update_latest \in Nat \ {0}
      /\ update_running["hub"] \in Published
  BY Hub DEF UpdateInv, LoopsOK, VersionsOK, Update!Versions
<1>1. CASE Update!check \/ Update!CheckFails \/ \E enabled \in BOOLEAN : Update!setAuto(enabled)
  <2>1. /\ UNCHANGED <<update_machine, update_file, update_running, update_op, update_connector,
                       update_execs, update_latest>>
        /\ update_manager'.applying = update_manager.applying /\ update_manager' \in Manager
    BY <1>0, <1>1 DEF Update!check, Update!CheckFails, Update!setAuto, Manager
  <2>2. ApplyingRuns'
    BY <2>1 DEF UpdateInv, ApplyingRuns, Update!At
  <2> QED
    BY <1>0, <2>1, <2>2, SameOps, SameExecs, LoopKeeps
<1>2. ASSUME NEW automatically \in BOOLEAN, Update!Checked(automatically) PROVE UpdateInv'
  <2> DEFINE apply == /\ automatically /\ update_manager.auto
                      /\ Update!IsNewer(update_latest, update_running["hub"])
                      /\ ~update_manager.applying
  <2>1. /\ UNCHANGED <<update_machine, update_file, update_running, update_connector, update_execs,
                       update_latest>>
        /\ update_manager' = [update_manager EXCEPT !.checking = FALSE, !.known = update_latest,
                                      !.applying = update_manager.applying \/ apply]
        /\ IF apply THEN Update!Begin(update_latest) ELSE UNCHANGED update_op
    BY <1>2 DEF Update!Checked
  <2>2. update_latest \in 0..update_latest /\ update_manager.applying \in BOOLEAN
    BY <1>0 DEF Manager
  <2>3. CASE apply
    <3>1. Update!Begin(update_latest) /\ update_latest \in Published
      BY <1>0, <2>1, <2>3 DEF Published
    <3>2. OpsOK' /\ ~Update!At("hub", "idle")'
      BY <2>1, <3>1, BeginKeeps, Hub DEF Update!Begin
    <3>3. (update_manager.applying \/ apply) = TRUE
      BY <2>3
    <3> HIDE DEF apply
    <3>4. update_manager' = [update_manager EXCEPT !.checking = FALSE, !.known = update_latest,
                             !.applying = TRUE]
      BY <2>1, <3>3
    <3>5. update_manager' \in Manager /\ update_manager'.applying = TRUE
      BY <1>0, <2>2, <3>4, ManagerSet
    <3>6. ApplyingRuns'
      BY <3>2, <3>5 DEF ApplyingRuns
    <3> QED
      BY <1>0, <2>1, <3>2, <3>5, <3>6, SameExecs, LoopKeeps
  <2>4. CASE ~apply
    <3>1. update_op' = update_op
      BY <2>1, <2>4
    <3>2. PICK b \in BOOLEAN : b = update_manager.applying
      BY <2>2
    <3>3. (update_manager.applying \/ apply) = b
      BY <2>4, <3>2
    <3> HIDE DEF apply
    <3>4. update_manager' \in Manager /\ update_manager'.applying = b
      <4>1. update_manager' = [update_manager EXCEPT !.checking = FALSE, !.known = update_latest,
                               !.applying = b]
        BY <2>1, <3>3
      <4>2. /\ [update_manager EXCEPT !.checking = FALSE, !.known = update_latest,
                !.applying = b] \in Manager
            /\ [update_manager EXCEPT !.checking = FALSE, !.known = update_latest,
                !.applying = b].applying = b
        <5>1. update_manager \in Manager /\ update_latest \in 0..update_latest /\ b \in BOOLEAN
          BY <1>0, <2>2, <3>2
        <5> QED
          BY <5>1, CheckedSet
      <4> QED
        BY <4>1, <4>2
    <3>5. ApplyingRuns'
      BY <3>1, <3>2, <3>4 DEF UpdateInv, ApplyingRuns, Update!At
    <3> QED
      BY <1>0, <2>1, <3>1, <3>4, <3>5, SameOps, SameExecs, LoopKeeps
  <2> HIDE DEF apply
  <2> QED
    BY <2>3, <2>4
<1>3. CASE Update!install
  <2> DEFINE release == IF update_manager.known = 0 THEN update_latest ELSE update_manager.known
  <2>1. release \in Published
    BY <1>0 DEF Manager, Published
  <2>2. /\ update_manager' = [update_manager EXCEPT !.applying = TRUE, !.known = release]
        /\ Update!Begin(release)
        /\ UNCHANGED <<update_machine, update_file, update_running, update_connector, update_execs,
                       update_latest>>
    BY <1>3 DEF Update!install
  <2>3. update_manager' \in Manager /\ update_manager'.applying = TRUE
    <3>1. release \in 0..update_latest
      BY <1>0, <2>1 DEF Published
    <3> HIDE DEF release
    <3> QED
      BY <1>0, <2>2, <3>1, ManagerSet
  <2>4. OpsOK' /\ ~Update!At("hub", "idle")'
    BY <2>1, <2>2, BeginKeeps, Hub DEF Update!Begin
  <2> QED
    BY <1>0, <2>2, <2>3, <2>4, SameExecs, LoopKeeps DEF ApplyingRuns
<1>4. CASE Update!rollback
  <2>1. /\ update_manager' = [update_manager EXCEPT !.applying = TRUE]
        /\ update_op' = [update_op EXCEPT !["hub"] = [at |-> "roll back"]]
        /\ UNCHANGED <<update_machine, update_file, update_running, update_connector, update_execs,
                       update_latest>>
    BY <1>4 DEF Update!rollback, Update!Go
  <2>2. /\ update_manager' \in Manager /\ update_manager'.applying = TRUE
        /\ [at |-> "roll back"] \in Restoring
    BY <1>0, <2>1 DEF Manager, Restoring
  <2>3. OpsOK' /\ ~Update!At("hub", "idle")'
    BY <2>1, <2>2, Hub
       DEF UpdateInv, OpsOK, Update!At, Operation, Downloading, Validating, Installing, Published
  <2> QED
    BY <1>0, <2>1, <2>2, <2>3, SameExecs, LoopKeeps DEF ApplyingRuns
<1> QED
  BY <1>1, <1>2, <1>3, <1>4 DEF Update!Manage

(* The steps of the connector, its socket and its commands.                 *)
LEMMA FollowKeeps ==
  ASSUME Update!Bounds, UpdateInv,
         Update!Follow \/ Update!Drop \/ Update!execStarted \/ Update!execDone
  PROVE  UpdateInv'
<1>0. /\ update_manager \in Manager /\ update_connector \in Connector /\ update_latest \in Nat \ {0}
      /\ update_running["hub"] \in Published /\ update_running["connector"] \in Published
  BY Hub DEF UpdateInv, LoopsOK, VersionsOK, Update!Versions
<1>1. CASE \/ Update!Connect \/ Update!Serve \/ Update!HourPasses \/ Update!restartWhenIdle
           \/ Update!Drop
  <2>1. UNCHANGED <<update_machine, update_file, update_running, update_op, update_manager,
                    update_execs, update_latest>>
    BY <1>1 DEF Update!Connect, Update!Serve, Update!HourPasses, Update!restartWhenIdle, Update!Drop
  <2>2. update_connector' \in Connector
    <3>1. CASE Update!Connect
      <4>1. update_running["hub"] \in 0..update_latest
        BY <1>0 DEF Published
      <4>2. update_connector' = [update_connector EXCEPT !.link = "welcome", !.open = TRUE,
                                 !.told = update_running["hub"]]
        BY <3>1 DEF Update!Connect
      <4> QED
        BY <1>0, <4>1, <4>2 DEF Connector
    <3>2. CASE Update!Serve \/ Update!HourPasses \/ Update!Drop
      BY <1>0, <3>2 DEF Update!Serve, Update!HourPasses, Update!Drop, Connector
    <3>3. CASE Update!restartWhenIdle
      BY <1>0, <3>3 DEF Update!restartWhenIdle, Connector
    <3> QED
      BY <1>1, <3>1, <3>2, <3>3
  <2>3. ApplyingRuns'
    BY <2>1 DEF UpdateInv, ApplyingRuns, Update!At
  <2> QED
    BY <1>0, <2>1, <2>2, <2>3, SameOps, SameExecs, LoopKeeps
<1>2. CASE Update!StartUpdate
  <2>1. update_connector.told \in Published
    BY <1>0, <1>2
    DEF Update!StartUpdate, Update!maybeSelfUpdate, Update!IsNewer, Connector, Published
  <2>2. /\ update_connector' = [update_connector EXCEPT !.budget = FALSE]
        /\ Update!Go("connector", [at |-> "download", version |-> update_connector.told])
        /\ UNCHANGED <<update_machine, update_file, update_running, update_manager, update_execs,
                       update_latest>>
    BY <1>2 DEF Update!StartUpdate
  <2>3. update_connector' \in Connector
    BY <1>0, <2>2 DEF Connector
  <2>4. OpsOK' /\ update_op'["hub"] = update_op["hub"]
    BY <2>1, <2>2, BeginKeeps, Hub
  <2>5. ApplyingRuns'
    BY <2>2, <2>4 DEF UpdateInv, ApplyingRuns, Update!At
  <2> QED
    BY <1>0, <2>2, <2>3, <2>4, <2>5, SameExecs, LoopKeeps
<1>3. CASE Update!ReadFails
  <2>1. CASE update_connector.applied
    BY <1>3, <2>1, StartsKeeps, Hub DEF Update!ReadFails
  <2>2. CASE ~update_connector.applied
    <3>1. /\ update_connector' = [update_connector EXCEPT !.link = "down",
                 !.orphan = update_connector.waiting \/ ~Update!At("connector", "idle")]
          /\ UNCHANGED <<update_machine, update_file, update_running, update_op, update_manager,
                         update_execs, update_latest>>
      BY <1>3, <2>2 DEF Update!ReadFails
    <3>2. update_connector' \in Connector
      BY <1>0, <3>1 DEF Connector
    <3>3. ApplyingRuns'
      BY <3>1 DEF UpdateInv, ApplyingRuns, Update!At
    <3> QED
      BY <1>0, <3>1, <3>2, <3>3, SameOps, SameExecs, LoopKeeps
  <2> QED
    BY <2>1, <2>2
<1>4. CASE Update!DownloadCancelled
  <2>1. FilesOK'
    BY <1>4, Kept DEF Update!DownloadCancelled, Update!GiveUp
  <2> QED
    BY <1>4, <2>1, GiveUpKeeps, Hub DEF Update!DownloadCancelled
<1>5. CASE Update!execStarted \/ Update!execDone
  <2>1. UNCHANGED <<update_machine, update_file, update_running, update_op, update_manager,
                    update_connector, update_latest>>
    BY <1>5 DEF Update!execStarted, Update!execDone
  <2>2. ExecsOK'
    BY <1>5 DEF Update!execStarted, Update!execDone, UpdateInv, ExecsOK, Update!Bounds
  <2>3. ApplyingRuns'
    BY <2>1 DEF UpdateInv, ApplyingRuns, Update!At
  <2> QED
    BY <1>0, <2>1, <2>2, <2>3, SameOps, LoopKeeps
<1> QED
  BY <1>1, <1>2, <1>3, <1>4, <1>5 DEF Update!Follow

(* A new release takes nothing away.                                        *)
LEMMA ReleasedKeeps ==
  ASSUME Update!Bounds, UpdateInv, Update!Released PROVE UpdateInv'
<1>1. /\ update_latest \in Nat \ {0} /\ update_latest' = update_latest + 1
      /\ update_latest' \in Update!Versions
      /\ Published \subseteq Published' /\ 0..update_latest \subseteq 0..update_latest'
      /\ UNCHANGED <<update_machine, update_file, update_running, update_op, update_manager,
                     update_connector, update_execs, Update!bounds>>
  BY DEF Update!Released, UpdateInv, VersionsOK, Update!Versions, Update!Bounds, Published
<1>2. VersionsOK'
  BY <1>1 DEF UpdateInv, VersionsOK
<1>3. FileRow \subseteq FileRow'
  BY <1>1 DEF FileRow
<1>4. FilesOK'
  BY <1>1, <1>3 DEF UpdateInv, FilesOK
<1>5. Operation \subseteq Operation'
  BY <1>1 DEF Operation, Downloading, Validating, Installing
<1>6. OpsOK'
  BY <1>1, <1>5 DEF UpdateInv, OpsOK
<1>7. Manager \subseteq Manager' /\ Connector \subseteq Connector'
  BY <1>1 DEF Manager, Connector
<1>8. LoopsOK' /\ ExecsOK' /\ ApplyingRuns'
  BY <1>1, <1>7 DEF UpdateInv, LoopsOK, ExecsOK, ApplyingRuns, Update!At
<1> QED
  BY <1>2, <1>4, <1>6, <1>8 DEF UpdateInv

(* Every behaviour begins in the invariant.                                 *)
LEMMA UpdateInitially == ASSUME Update!Bounds PROVE Update!Init => UpdateInv
<1> SUFFICES ASSUME Update!Init PROVE UpdateInv
  OBVIOUS
<1>1. VersionsOK
  BY DEF Update!Init, VersionsOK, Update!Versions, Published, Update!Bounds
<1>2. FilesOK
  BY DEF Update!Init, FilesOK, FileRow, Published
<1>3. OpsOK /\ ExecsOK
  BY DEF Update!Init, OpsOK, ExecsOK, Update!Bounds
<1>4. LoopsOK /\ ApplyingRuns
  BY Hub
  DEF Update!Init, LoopsOK, Manager, Connector, Update!FreshConnector, ApplyingRuns, Update!At,
      Update!Idle
<1> QED
  BY <1>1, <1>2, <1>3, <1>4 DEF UpdateInv

(* Every step keeps it.                                                     *)
LEMMA UpdateStepKeeps ==
  ASSUME Update!Bounds
  PROVE  UpdateInv /\ [Update!Next]_(Update!vars) => UpdateInv'
<1> SUFFICES ASSUME UpdateInv, [Update!Next]_(Update!vars) PROVE UpdateInv'
  OBVIOUS
<1>1. ASSUME NEW p \in Update!Processes, Update!Replace(p) \/ Update!SwapFails(p) \/ Update!Crash(p)
      PROVE  UpdateInv'
  BY <1>1, ReplaceKeeps
<1>2. CASE UNCHANGED Update!vars
  <2>1. /\ UNCHANGED <<update_machine, update_file, update_running, update_latest, update_op,
                       update_execs>>
        /\ update_manager' \in Manager /\ update_connector' \in Connector
    BY <1>2 DEF Update!vars, UpdateInv, LoopsOK
  <2>2. ApplyingRuns'
    BY <1>2 DEF Update!vars, UpdateInv, ApplyingRuns, Update!At
  <2> QED
    BY <2>1, <2>2, SameOps, SameExecs, LoopKeeps
<1> QED
  BY <1>1, <1>2, ManageKeeps, FollowKeeps, ReleasedKeeps DEF Update!Next

(* So it holds throughout.                                                  *)
LEMMA UpdateInvariant == ASSUME Update!Bounds PROVE Update!Spec => []UpdateInv
BY UpdateInitially, UpdateStepKeeps, PTL DEF Update!Spec

(* What it says of the types is what the module asks.                       *)
LEMMA RightTypes == ASSUME Update!Bounds PROVE UpdateInv => Update!TypeOK
<1> SUFFICES ASSUME UpdateInv PROVE Update!TypeOK
  OBVIOUS
<1>1. update_latest \in Nat \ {0} /\ update_latest <= MaxVersion /\ MaxVersion \in Nat
  BY DEF UpdateInv, VersionsOK, Update!Versions, Update!Bounds
<1>2. FileRow \subseteq Update!Files
  BY <1>1 DEF FileRow, Update!Files, Published, Update!Corrupt
<1>3. /\ update_running \in [Update!Processes -> Update!Versions]
      /\ \A p \in Update!Processes : update_running[p] <= update_latest
  BY <1>1 DEF UpdateInv, VersionsOK, Update!Versions, Published
<1>4. update_file \in [UpdateMachines -> Update!Files]
  BY <1>2 DEF UpdateInv, FilesOK
<1>5. update_execs.running \in 0..MaxExecs
  BY DEF UpdateInv, ExecsOK
<1>6. update_manager.applying <=> ~Update!At("hub", "idle")
  BY DEF UpdateInv, ApplyingRuns
<1> QED
  BY <1>3, <1>4, <1>5, <1>6 DEF Update!TypeOK

(* The files, the replacements and both loops keep their types              *)
(* (updater.go, manager.go, agent/update.go).                               *)
THEOREM UpdatesTyped == Update!Spec => []Update!TypeOK
<1> USE UpdateAssumption
<1> QED
  BY RightTypes, UpdateInvariant, PTL

(* At any step, of an installation, of a rollback, of a crash between two   *)
(* of them, a released executable is at the path a process is started       *)
(* from, and what is kept beside it is none that failed its validation      *)
(* (updater.Install, updater.Rollback).                                     *)
THEOREM WholeExecutable == Update!Spec => []ExecutableIsWhole
<1> USE UpdateAssumption
<1>1. UpdateInv => ExecutableIsWhole
  <2> SUFFICES ASSUME UpdateInv, NEW m \in UpdateMachines
               PROVE  /\ update_file[m].exe \in Update!Versions
                      /\ update_file[m].previous # Update!Corrupt
    BY DEF ExecutableIsWhole, Update!ExecutableIsWhole
  <2>1. update_latest \in Nat \ {0} /\ update_latest <= MaxVersion /\ MaxVersion \in Nat
    BY DEF UpdateInv, VersionsOK, Update!Versions, Update!Bounds
  <2>2. update_file[m].exe \in 1..update_latest /\ update_file[m].previous \in 0..update_latest
    BY DEF UpdateInv, FilesOK, FileRow, Published
  <2> QED
    BY <2>1, <2>2 DEF Update!Versions, Update!Corrupt
<1> QED
  BY <1>1, UpdateInvariant, PTL

----------------------------------------------------------------------------
(* Terminals.                                                               *)

(* A stream whose PTY is being started is of the socket there is, and of    *)
(* the channel opened last: nothing else is read from the socket meanwhile. *)
StartsOnSocket ==
  \A s \in Ptys!Streams : pty_stream[s].stage = "starting" =>
    pty_linked /\ s = <<pty_sock, pty_opened>>

(* A channel is taken out of the table before its stream is gone.           *)
ReapedIsUnlisted ==
  \A s \in Ptys!Streams : pty_stream[s].stage = "reaped" => pty_terms[s[2]] # s[1]

(* The inductive invariant.                                                 *)
PtyInv ==
  /\ Ptys!TypeOK
  /\ pty_linked => pty_sock # 0
  /\ Ptys!InputReachesItsTerminal
  /\ StartsOnSocket
  /\ ReapedIsUnlisted

(* A stream is named by its socket and its channel.                         *)
LEMMA Pairs ==
  ASSUME NEW s \in Ptys!Streams
  PROVE  s[1] \in Ptys!Sockets /\ s[2] \in Ptys!Channels /\ s = <<s[1], s[2]>>
BY DEF Ptys!Streams

(* The streams after some are closed.                                       *)
LEMMA Closed ==
  ASSUME Ptys!TypeOK, NEW S, pty_stream' = Ptys!Closing(S)
  PROVE  /\ pty_stream' \in [Ptys!Streams -> [stage : Ptys!Stages, session : PtyNames \cup {Absent}]]
         /\ \A s \in Ptys!Streams : \/ pty_stream'[s] = pty_stream[s]
                                    \/ pty_stream[s].stage = "open" /\ pty_stream'[s].stage =
                                           "closed"
BY DEF Ptys!TypeOK, Ptys!Closing, Ptys!Stages

(* The streams after one goes on to another stage.                          *)
LEMMA Staged ==
  ASSUME Ptys!TypeOK, NEW s \in Ptys!Streams, NEW stage \in Ptys!Stages,
         pty_stream' = [pty_stream EXCEPT ![s].stage = stage]
  PROVE  /\ pty_stream' \in [Ptys!Streams -> [stage : Ptys!Stages, session : PtyNames \cup {Absent}]]
         /\ pty_stream'[s].stage = stage
         /\ \A t \in Ptys!Streams \ {s} : pty_stream'[t] = pty_stream[t]
BY DEF Ptys!TypeOK, Ptys!Stages

(* Every behaviour begins in the invariant.                                 *)
LEMMA PtyInitially == ASSUME Ptys!Bounds, Ptys!Init PROVE PtyInv
<1>1. pty_stream \in [Ptys!Streams -> [stage : Ptys!Stages, session : PtyNames \cup {Absent}]]
  <2>1. [stage |-> "none", session |-> Absent] \in [stage : Ptys!Stages,
                                                  session : PtyNames \cup {Absent}]
    BY DEF Ptys!Stages
  <2> QED
    BY <2>1 DEF Ptys!Init
<1>2. Ptys!TypeOK
  <2>1. pty_terms \in [Ptys!Channels -> Ptys!Sockets \cup {Ptys!NoSocket}]
    BY DEF Ptys!Init, Ptys!NoTerms
  <2>2. pty_sessions \in [PtyNames -> Ptys!Streams \cup {Ptys!Detached, Absent}]
    BY DEF Ptys!Init
  <2>3. pty_tmux \in BOOLEAN /\ pty_linked \in BOOLEAN
    BY DEF Ptys!Init
  <2>4. pty_sock \in 0..MaxSockets /\ pty_opened \in 0..MaxChannels
    BY DEF Ptys!Init, Ptys!Bounds
  <2> QED
    BY <1>1, <2>1, <2>2, <2>3, <2>4 DEF Ptys!TypeOK
<1>3. \A c \in Ptys!Channels : pty_terms[c] = Ptys!NoSocket
  BY DEF Ptys!Init, Ptys!NoTerms
<1>4. \A s \in Ptys!Streams : pty_stream[s].stage = "none"
  BY DEF Ptys!Init
<1> QED
  BY <1>2, <1>3, <1>4
  DEF Ptys!Init, PtyInv, Ptys!InputReachesItsTerminal, StartsOnSocket, ReapedIsUnlisted

(* A step that changes nothing keeps it.                                    *)
LEMMA PtyStutterKeeps == ASSUME PtyInv, UNCHANGED Ptys!vars PROVE PtyInv'
BY DEF PtyInv, Ptys!vars, Ptys!TypeOK, Ptys!InputReachesItsTerminal, StartsOnSocket,
   ReapedIsUnlisted, Ptys!Streams,
       Ptys!Sockets, Ptys!Channels

(* A step that opens no stream and lists none: streams go on to later       *)
(* stages, and channels leave the table.                                    *)
LEMMA WindingDown ==
  ASSUME PtyInv, UNCHANGED <<pty_tmux, pty_sock, pty_linked, pty_opened>>,
         pty_terms' \in [Ptys!Channels -> Ptys!Sockets \cup {Ptys!NoSocket}],
         \A c \in Ptys!Channels : pty_terms'[c] \in {pty_terms[c], Ptys!NoSocket},
         pty_stream' \in [Ptys!Streams -> [stage : Ptys!Stages, session : PtyNames \cup {Absent}]],
         pty_sessions' \in [PtyNames -> Ptys!Streams \cup {Ptys!Detached, Absent}],
         \A s \in Ptys!Streams : \/ pty_stream'[s] = pty_stream[s]
                                 \/ /\ pty_stream'[s].stage \in {"closed", "ending"}
                                    /\ pty_stream[s].stage # "starting"
                                 \/ /\ pty_stream'[s].stage \in {"reaped", "gone"}
                                    /\ pty_terms'[s[2]] # s[1]
  PROVE  PtyInv'
<1> USE DEF PtyInv
<1>1. Ptys!TypeOK'
  BY DEF Ptys!TypeOK, Ptys!Streams, Ptys!Sockets, Ptys!Channels
<1>2. Ptys!InputReachesItsTerminal'
  <2> SUFFICES ASSUME NEW c \in Ptys!Channels, pty_terms'[c] # Ptys!NoSocket
               PROVE  /\ pty_linked /\ pty_terms'[c] = pty_sock /\ c <= pty_opened
                      /\ pty_stream'[<<pty_sock, c>>].stage \notin {"none", "starting", "gone"}
    BY DEF Ptys!InputReachesItsTerminal
  <2>1. /\ pty_linked /\ pty_terms[c] = pty_sock /\ pty_terms'[c] = pty_sock /\ c <= pty_opened
        /\ pty_stream[<<pty_sock, c>>].stage \notin {"none", "starting", "gone"}
    BY DEF Ptys!InputReachesItsTerminal
  <2>2. <<pty_sock, c>> \in Ptys!Streams /\ <<pty_sock, c>>[1] = pty_sock /\ <<pty_sock, c>>[2] = c
    BY <2>1 DEF Ptys!TypeOK, Ptys!Streams, Ptys!NoSocket
  <2> QED
    BY <2>1, <2>2
<1>3. StartsOnSocket'
  BY DEF StartsOnSocket
<1>4. ReapedIsUnlisted'
  <2> SUFFICES ASSUME NEW s \in Ptys!Streams, pty_stream'[s].stage = "reaped"
               PROVE  pty_terms'[s[2]] # s[1]
    BY DEF ReapedIsUnlisted
  <2>1. s[2] \in Ptys!Channels /\ s[1] # Ptys!NoSocket
    <3>1. s[1] \in Ptys!Sockets /\ s[2] \in Ptys!Channels
      BY Pairs
    <3> QED
      BY <3>1 DEF Ptys!Sockets, Ptys!NoSocket
  <2> QED
    BY <2>1 DEF ReapedIsUnlisted
<1> QED
  BY <1>1, <1>2, <1>3, <1>4

(* So does every other.                                                     *)
LEMMA PtyStepKeeps == ASSUME Ptys!Bounds, PtyInv, Ptys!Next PROVE PtyInv'
<1>t. Ptys!TypeOK
  BY DEF PtyInv
<1>0. /\ pty_sessions \in [PtyNames -> Ptys!Streams \cup {Ptys!Detached, Absent}]
      /\ pty_terms \in [Ptys!Channels -> Ptys!Sockets \cup {Ptys!NoSocket}]
  BY <1>t DEF Ptys!TypeOK
<1>1. CASE Ptys!Dial
  <2>1. \A c \in Ptys!Channels : pty_terms[c] = Ptys!NoSocket
    BY <1>1 DEF PtyInv, Ptys!Dial, Ptys!InputReachesItsTerminal
  <2>2. Ptys!TypeOK' /\ (pty_linked => pty_sock # 0)'
    BY <1>1, <1>t DEF Ptys!Dial, Ptys!TypeOK, Ptys!Bounds
  <2>3. Ptys!InputReachesItsTerminal' /\ StartsOnSocket' /\ ReapedIsUnlisted'
    BY <1>1, <2>1, Pairs
    DEF PtyInv, Ptys!Dial, Ptys!InputReachesItsTerminal, StartsOnSocket, ReapedIsUnlisted
  <2> QED
    BY <2>2, <2>3 DEF PtyInv
<1>2. CASE Ptys!teardown
  <2>1. /\ pty_terms' = Ptys!NoTerms /\ pty_linked' = FALSE
        /\ UNCHANGED <<pty_tmux, pty_sock, pty_opened, pty_sessions>>
    BY <1>2 DEF Ptys!teardown
  <2>2. /\ pty_stream' \in [Ptys!Streams -> [stage : Ptys!Stages, session : PtyNames \cup {Absent}]]
        /\ \A s \in Ptys!Streams : pty_stream'[s].stage # "starting"
    <3>1. PICK S : pty_stream' = Ptys!Closing(S)
      BY <1>2 DEF Ptys!teardown
    <3> QED
      BY <1>2, <1>t, <3>1, Closed DEF Ptys!teardown, Ptys!Busy
  <2>3. Ptys!TypeOK'
    BY <1>t, <2>1, <2>2 DEF Ptys!TypeOK, Ptys!NoTerms
  <2>4. Ptys!InputReachesItsTerminal' /\ StartsOnSocket' /\ ReapedIsUnlisted'
    BY <2>1, <2>2, Pairs
    DEF Ptys!NoTerms, Ptys!NoSocket, Ptys!Sockets, Ptys!InputReachesItsTerminal, StartsOnSocket,
        ReapedIsUnlisted
  <2> QED
    BY <2>1, <2>3, <2>4 DEF PtyInv
<1>3. ASSUME NEW n \in PtyNames, Ptys!termOpen(n) PROVE PtyInv'
  <2> DEFINE c == pty_opened + 1
             s == <<pty_sock, c>>
  <2>1. /\ pty_linked /\ ~Ptys!Busy /\ pty_opened < MaxChannels /\ pty_opened' = c
        /\ UNCHANGED <<pty_tmux, pty_sock, pty_linked>>
    BY <1>3 DEF Ptys!termOpen
  <2>2. c \in Ptys!Channels /\ s \in Ptys!Streams /\ pty_sock \in Ptys!Sockets /\ pty_opened \in Nat
    BY <1>t, <2>1 DEF PtyInv, Ptys!TypeOK, Ptys!Bounds, Ptys!Channels, Ptys!Sockets, Ptys!Streams
  <2>3. pty_terms[c] = Ptys!NoSocket
    BY <2>2 DEF PtyInv, Ptys!InputReachesItsTerminal
  <2>4. \A t \in Ptys!Streams : pty_stream[t].stage # "starting"
    BY <2>1 DEF Ptys!Busy
  <2>5. pty_opened' \in 0..MaxChannels
    BY <2>1, <2>2 DEF Ptys!Bounds
  <2>6. CASE /\ pty_terms' = [pty_terms EXCEPT ![c] = pty_sock]
             /\ pty_stream' = [pty_stream EXCEPT ![s] = [stage |-> "open", session |-> Absent]]
             /\ UNCHANGED pty_sessions
    <3>1. Ptys!TypeOK'
      BY <1>t, <2>1, <2>2, <2>5, <2>6 DEF Ptys!TypeOK, Ptys!Stages
    <3>2. Ptys!InputReachesItsTerminal'
      <4> SUFFICES ASSUME NEW d \in Ptys!Channels, pty_terms'[d] # Ptys!NoSocket
                   PROVE  /\ pty_terms'[d] = pty_sock /\ d <= c
                          /\ pty_stream'[<<pty_sock, d>>].stage \notin {"none", "starting", "gone"}
        BY <2>1 DEF Ptys!InputReachesItsTerminal
      <4>1. CASE d = c
        BY <1>t, <2>2, <2>6, <4>1 DEF Ptys!TypeOK, Ptys!Channels
      <4>2. CASE d # c
        <5>1. /\ pty_terms'[d] = pty_terms[d] /\ <<pty_sock, d>> \in Ptys!Streams
              /\ <<pty_sock, d>> # s
          BY <1>0, <2>2, <2>6, <4>2 DEF Ptys!Streams
        <5>2. pty_stream'[<<pty_sock, d>>] = pty_stream[<<pty_sock, d>>]
          BY <1>t, <2>6, <5>1 DEF Ptys!TypeOK
        <5>3. /\ pty_terms[d] = pty_sock /\ d <= pty_opened
              /\ pty_stream[<<pty_sock, d>>].stage \notin {"none", "starting", "gone"}
          BY <5>1 DEF PtyInv, Ptys!InputReachesItsTerminal
        <5> QED
          BY <2>2, <5>1, <5>2, <5>3 DEF Ptys!Channels
      <4> QED
        BY <4>1, <4>2
    <3>3. StartsOnSocket'
      BY <1>t, <2>2, <2>4, <2>6 DEF StartsOnSocket, Ptys!TypeOK
    <3>4. ReapedIsUnlisted'
      <4> SUFFICES ASSUME NEW t \in Ptys!Streams, pty_stream'[t].stage = "reaped"
                   PROVE  pty_terms'[t[2]] # t[1]
        BY DEF ReapedIsUnlisted
      <4>1. t # s /\ pty_stream'[t] = pty_stream[t]
        BY <1>t, <2>2, <2>6 DEF Ptys!TypeOK
      <4>2. pty_terms[t[2]] # t[1] /\ t[2] \in Ptys!Channels /\ ~(t[2] = c /\ t[1] = pty_sock)
        BY <4>1, Pairs DEF PtyInv, ReapedIsUnlisted
      <4> QED
        BY <1>0, <2>2, <2>6, <4>2
    <3> QED
      BY <2>1, <3>1, <3>2, <3>3, <3>4 DEF PtyInv
  <2>7. CASE /\ pty_sessions' = [pty_sessions EXCEPT ![n] = s]
             /\ pty_stream' = [pty_stream EXCEPT ![s] = [stage |-> "starting", session |-> n]]
             /\ UNCHANGED pty_terms
    <3>1. Ptys!TypeOK'
      BY <1>t, <2>1, <2>2, <2>5, <2>7 DEF Ptys!TypeOK, Ptys!Stages
    <3>2. Ptys!InputReachesItsTerminal'
      <4> SUFFICES ASSUME NEW d \in Ptys!Channels, pty_terms[d] # Ptys!NoSocket
                   PROVE  /\ pty_terms[d] = pty_sock /\ d <= c
                          /\ pty_stream'[<<pty_sock, d>>].stage \notin {"none", "starting", "gone"}
        BY <2>1, <2>7 DEF Ptys!InputReachesItsTerminal
      <4>1. /\ pty_terms[d] = pty_sock /\ d <= pty_opened /\ d # c
            /\ pty_stream[<<pty_sock, d>>].stage \notin {"none", "starting", "gone"}
        BY <2>3 DEF PtyInv, Ptys!InputReachesItsTerminal
      <4>2. <<pty_sock, d>> \in Ptys!Streams /\ <<pty_sock, d>> # s
        BY <2>2, <4>1 DEF Ptys!Streams
      <4> QED
        BY <1>t, <2>2, <2>7, <4>1, <4>2 DEF Ptys!TypeOK, Ptys!Channels
    <3>3. StartsOnSocket'
      BY <1>t, <2>1, <2>2, <2>4, <2>7 DEF StartsOnSocket, Ptys!TypeOK
    <3>4. ReapedIsUnlisted'
      BY <1>t, <2>2, <2>7 DEF PtyInv, ReapedIsUnlisted, Ptys!TypeOK
    <3> QED
      BY <2>1, <3>1, <3>2, <3>3, <3>4 DEF PtyInv
  <2>8. CASE UNCHANGED <<pty_terms, pty_stream, pty_sessions>>
    <3>1. Ptys!TypeOK'
      BY <1>t, <2>1, <2>5, <2>8 DEF Ptys!TypeOK
    <3>2. Ptys!InputReachesItsTerminal'
      BY <2>1, <2>2, <2>8 DEF PtyInv, Ptys!InputReachesItsTerminal, Ptys!Channels
    <3>3. StartsOnSocket' /\ ReapedIsUnlisted'
      BY <2>4, <2>8 DEF PtyInv, StartsOnSocket, ReapedIsUnlisted
    <3> QED
      BY <2>1, <3>1, <3>2, <3>3 DEF PtyInv
  <2> QED
    BY <1>3, <2>6, <2>7, <2>8 DEF Ptys!termOpen
<1>4. ASSUME NEW n \in PtyNames, Ptys!createEphemeral(n) PROVE PtyInv'
  <2>1. Ptys!TypeOK'
    BY <1>t, <1>4 DEF Ptys!createEphemeral, Ptys!TypeOK
  <2> QED
    BY <1>4, <2>1
    DEF PtyInv, Ptys!createEphemeral, Ptys!InputReachesItsTerminal, StartsOnSocket, ReapedIsUnlisted
<1>5. ASSUME NEW n \in PtyNames, Ptys!killEphemeral(n) PROVE PtyInv'
  <2>1. PICK S : pty_stream' = Ptys!Closing(S)
    BY <1>5 DEF Ptys!killEphemeral
  <2>2. pty_sessions' \in [PtyNames -> Ptys!Streams \cup {Ptys!Detached, Absent}]
    BY <1>0, <1>5 DEF Ptys!killEphemeral
  <2> QED
    BY <1>0, <1>t, <1>5, <2>1, <2>2, Closed, WindingDown DEF Ptys!killEphemeral
<1>6. ASSUME NEW c \in Ptys!Channels, Ptys!termClose(c) PROVE PtyInv'
  <2>1. PICK S : pty_stream' = Ptys!Closing(S)
    BY <1>6 DEF Ptys!termClose
  <2>2. /\ pty_terms' \in [Ptys!Channels -> Ptys!Sockets \cup {Ptys!NoSocket}]
        /\ \A d \in Ptys!Channels : pty_terms'[d] \in {pty_terms[d], Ptys!NoSocket}
    BY <1>0, <1>6 DEF Ptys!termClose
  <2> QED
    BY <1>0, <1>t, <1>6, <2>1, <2>2, Closed, WindingDown DEF Ptys!termClose
<1>7. ASSUME NEW s \in Ptys!Streams, Ptys!Started(s) PROVE PtyInv'
  <2>0. /\ pty_stream[s].stage = "starting" /\ pty_terms' = [pty_terms EXCEPT ![s[2]] = s[1]]
        /\ pty_stream' = [pty_stream EXCEPT ![s].stage = "open"]
        /\ UNCHANGED <<pty_tmux, pty_sock, pty_linked, pty_opened, pty_sessions>>
    BY <1>7 DEF Ptys!Started
  <2>1. /\ pty_linked /\ s = <<pty_sock, pty_opened>> /\ s[1] = pty_sock /\ s[2] = pty_opened
        /\ pty_opened \in Ptys!Channels /\ pty_sock \in Ptys!Sockets
    BY <2>0, Pairs DEF PtyInv, StartsOnSocket
  <2>2. /\ pty_stream' \in [Ptys!Streams -> [stage : Ptys!Stages, session : PtyNames \cup {Absent}]]
        /\ pty_stream'[s].stage = "open"
        /\ \A t \in Ptys!Streams \ {s} : pty_stream'[t] = pty_stream[t]
    BY <1>t, <2>0, Staged DEF Ptys!Stages
  <2>3. Ptys!TypeOK'
    BY <1>t, <2>0, <2>1, <2>2 DEF Ptys!TypeOK
  <2>4. Ptys!InputReachesItsTerminal'
    <3> SUFFICES ASSUME NEW d \in Ptys!Channels, pty_terms'[d] # Ptys!NoSocket
                 PROVE  /\ pty_terms'[d] = pty_sock /\ d <= pty_opened
                        /\ pty_stream'[<<pty_sock, d>>].stage \notin {"none", "starting", "gone"}
      BY <2>0, <2>1 DEF Ptys!InputReachesItsTerminal
    <3>1. CASE d = pty_opened
      BY <1>0, <2>0, <2>1, <2>2, <3>1 DEF Ptys!Channels
    <3>2. CASE d # pty_opened
      <4>1. pty_terms'[d] = pty_terms[d] /\ <<pty_sock, d>> \in Ptys!Streams \ {s}
        BY <1>0, <2>0, <2>1, <3>2 DEF Ptys!Streams
      <4> QED
        BY <2>2, <4>1 DEF PtyInv, Ptys!InputReachesItsTerminal
    <3> QED
      BY <3>1, <3>2
  <2>5. StartsOnSocket'
    BY <2>0, <2>2 DEF PtyInv, StartsOnSocket
  <2>6. ReapedIsUnlisted'
    <3> SUFFICES ASSUME NEW t \in Ptys!Streams, pty_stream'[t].stage = "reaped"
                 PROVE  pty_terms'[t[2]] # t[1]
      BY DEF ReapedIsUnlisted
    <3>1. t # s /\ pty_stream'[t] = pty_stream[t]
      BY <2>2
    <3>2. pty_terms[t[2]] # t[1] /\ t[2] \in Ptys!Channels /\ ~(t[2] = s[2] /\ t[1] = s[1])
      BY <3>1, Pairs DEF PtyInv, ReapedIsUnlisted
    <3> QED
      BY <1>0, <2>0, <3>2
  <2> QED
    BY <2>0, <2>1, <2>3, <2>4, <2>5, <2>6 DEF PtyInv
<1>8. ASSUME NEW s \in Ptys!Streams, Ptys!StartFails(s) PROVE PtyInv'
  <2>1. /\ pty_stream' \in [Ptys!Streams -> [stage : Ptys!Stages, session : PtyNames \cup {Absent}]]
        /\ pty_stream'[s].stage = "gone"
        /\ \A t \in Ptys!Streams \ {s} : pty_stream'[t] = pty_stream[t]
    BY <1>t, <1>8, Staged DEF Ptys!StartFails, Ptys!Stages
  <2>2. pty_terms'[s[2]] # s[1]
    <3>1. /\ s[1] \in Ptys!Sockets /\ s[2] \in Ptys!Channels /\ s = <<s[1], s[2]>>
          /\ s[1] # Ptys!NoSocket
      BY Pairs DEF Ptys!Sockets, Ptys!NoSocket
    <3> QED
      BY <1>8, <3>1 DEF PtyInv, Ptys!InputReachesItsTerminal, Ptys!StartFails
  <2>3. pty_sessions' \in [PtyNames -> Ptys!Streams \cup {Ptys!Detached, Absent}]
    BY <1>0, <1>8 DEF Ptys!StartFails
  <2> QED
    BY <1>0, <1>8, <2>1, <2>2, <2>3, WindingDown DEF Ptys!StartFails
<1>9. ASSUME NEW s \in Ptys!Streams, Ptys!ProcessExits(s) \/ Ptys!PumpEnds(s) PROVE PtyInv'
  <2>1. /\ pty_stream[s].stage # "starting"
        /\ pty_stream' = [pty_stream EXCEPT ![s].stage = "ending"]
        /\ UNCHANGED <<pty_tmux, pty_sock, pty_linked, pty_opened, pty_terms, pty_sessions>>
    BY <1>9 DEF Ptys!ProcessExits, Ptys!PumpEnds
  <2>2. /\ pty_stream' \in [Ptys!Streams -> [stage : Ptys!Stages, session : PtyNames \cup {Absent}]]
        /\ pty_stream'[s].stage = "ending"
        /\ \A t \in Ptys!Streams \ {s} : pty_stream'[t] = pty_stream[t]
    BY <1>t, <2>1, Staged DEF Ptys!Stages
  <2> QED
    BY <1>0, <2>1, <2>2, WindingDown
<1>10. ASSUME NEW s \in Ptys!Streams, Ptys!Reap(s) PROVE PtyInv'
  <2>1. /\ pty_stream' \in [Ptys!Streams -> [stage : Ptys!Stages, session : PtyNames \cup {Absent}]]
        /\ pty_stream'[s].stage = "reaped"
        /\ \A t \in Ptys!Streams \ {s} : pty_stream'[t] = pty_stream[t]
    BY <1>t, <1>10, Staged DEF Ptys!Reap, Ptys!Stages
  <2>2. /\ pty_terms' \in [Ptys!Channels -> Ptys!Sockets \cup {Ptys!NoSocket}]
        /\ \A c \in Ptys!Channels : pty_terms'[c] \in {pty_terms[c], Ptys!NoSocket}
        /\ pty_terms'[s[2]] # s[1]
    BY <1>0, <1>10, Pairs DEF Ptys!Reap, Ptys!Sockets, Ptys!NoSocket
  <2> QED
    BY <1>0, <1>10, <2>1, <2>2, WindingDown DEF Ptys!Reap
<1>11. ASSUME NEW s \in Ptys!Streams, Ptys!Exit(s) PROVE PtyInv'
  <2>1. /\ pty_stream' \in [Ptys!Streams -> [stage : Ptys!Stages, session : PtyNames \cup {Absent}]]
        /\ pty_stream'[s].stage = "gone"
        /\ \A t \in Ptys!Streams \ {s} : pty_stream'[t] = pty_stream[t]
    BY <1>t, <1>11, Staged DEF Ptys!Exit, Ptys!Stages
  <2>2. pty_terms'[s[2]] # s[1]
    BY <1>11 DEF PtyInv, ReapedIsUnlisted, Ptys!Exit
  <2>3. pty_sessions' \in [PtyNames -> Ptys!Streams \cup {Ptys!Detached, Absent}]
    BY <1>0, <1>11 DEF Ptys!Exit
  <2> QED
    BY <1>0, <1>11, <2>1, <2>2, <2>3, WindingDown DEF Ptys!Exit
<1> QED
  BY <1>1, <1>2, <1>3, <1>4, <1>5, <1>6, <1>7, <1>8, <1>9, <1>10, <1>11 DEF Ptys!Next

(* So it holds throughout.                                                  *)
LEMMA PtyInvariant == ASSUME Ptys!Bounds PROVE Ptys!Spec => []PtyInv
BY PtyInitially, PtyStepKeeps, PtyStutterKeeps, PTL DEF Ptys!Spec

(* The channels, the streams and the sessions keep their types              *)
(* (agent/terminal.go, agent/sessions.go).                                  *)
THEOREM StreamsTyped == Ptys!Spec => []Ptys!TypeOK
<1> USE PtyAssumption
<1>1. PtyInv => Ptys!TypeOK
  BY DEF PtyInv
<1> QED
  BY <1>1, PtyInvariant, PTL

(* What a browser types on a channel goes to the stream opened for that     *)
(* channel on this socket, however old streams wind down meanwhile          *)
(* (Agent.terms).                                                           *)
THEOREM TerminalInput == Ptys!Spec => []InputReachesItsTerminal
<1> USE PtyAssumption
<1>1. PtyInv => InputReachesItsTerminal
  BY DEF InputReachesItsTerminal, Ptys!InputReachesItsTerminal, PtyInv
<1> QED
  BY <1>1, PtyInvariant, PTL

----------------------------------------------------------------------------
(* Presence.                                                                *)

PresenceInv == Sockets!TypeOK /\ Sockets!SelectionMatchesSocket

LEMMA PresenceInitially == Sockets!Init => PresenceInv
BY SMTT(30) DEF Sockets!Init, PresenceInv, Sockets!TypeOK, Sockets!Presence, Sockets!NotListed,
   Sockets!SelectionMatchesSocket

-----------------------------------------------------------------------------
\* A step that changes one entry at most: the others keep their socket, which is
\* of their own connector and so not the one that moved.
LEMMA EntryKeeps ==
    ASSUME Sockets!Dialled, PresenceInv, NEW c \in PresenceConns, NEW p \in Sockets!Presence,
           NEW stage,
           stage \in {"serving", "leaving", "gone"},
           presence_online' = [presence_online EXCEPT ![PresenceConnectorOf[c]] = p],
           presence_handler' = [presence_handler EXCEPT ![c] = stage],
           UNCHANGED presence_sock,
           IF p.conn = Absent THEN p.project = Absent
           ELSE /\ p.conn \in PresenceConns /\ PresenceConnectorOf[p.conn] = PresenceConnectorOf[c]
                /\ presence_handler'[p.conn] \in {"serving", "leaving"}
                /\ p.project = PresenceProjectOf[PresenceConnectorOf[c]]
                /\ p.draining <=> p.conn \in Outdated
    PROVE  PresenceInv'
<1>1. Sockets!TypeOK'
  BY DEF PresenceInv, Sockets!TypeOK, Sockets!Dialled
<1>2. ASSUME NEW k \in PresenceConnectors
      PROVE  (LET q == presence_online[k] IN
              IF q.conn = Absent THEN q.project = Absent
              ELSE /\ PresenceConnectorOf[q.conn] = k
                   /\ presence_handler[q.conn] \in {"serving", "leaving"}
                   /\ q.project = PresenceProjectOf[k]
                   /\ q.draining <=> q.conn \in Outdated)'
  <2>1. CASE k = PresenceConnectorOf[c]
    <3>1. presence_online'[k] = p
      BY <2>1 DEF PresenceInv, Sockets!TypeOK
    <3> QED
      BY <2>1, <3>1
  <2>2. CASE k # PresenceConnectorOf[c]
    <3>1. presence_online'[k] = presence_online[k] /\ presence_online[k] \in Sockets!Presence
      BY <2>2 DEF PresenceInv, Sockets!TypeOK
    <3>2. presence_online[k].conn # Absent =>
            presence_online[k].conn \in PresenceConns /\ presence_online[k].conn # c
      BY <2>2, <3>1 DEF PresenceInv, Sockets!SelectionMatchesSocket, Sockets!Presence
    <3>3. presence_online[k].conn # Absent =>
            presence_handler'[presence_online[k].conn] = presence_handler[presence_online[k].conn]
      BY <3>2 DEF PresenceInv, Sockets!TypeOK
    <3> QED
      BY <3>1, <3>3 DEF PresenceInv, Sockets!SelectionMatchesSocket
  <2> QED
    BY <2>1, <2>2
<1> QED
  BY <1>1, <1>2 DEF PresenceInv, Sockets!SelectionMatchesSocket

\* The entry of c's connector.
LEMMA Entry ==
    ASSUME Sockets!Dialled, PresenceInv, NEW c \in PresenceConns
    PROVE  /\ PresenceConnectorOf[c] \in PresenceConnectors
           /\ presence_online[PresenceConnectorOf[c]] \in Sockets!Presence
BY DEF Sockets!Dialled, PresenceInv, Sockets!TypeOK

LEMMA AttachKeeps ==
  ASSUME Sockets!Dialled, PresenceInv, NEW c \in PresenceConns, Sockets!Attach(c)
  PROVE  PresenceInv'
<1> DEFINE q == presence_online[PresenceConnectorOf[c]]
           pr == PresenceProjectOf[PresenceConnectorOf[c]]
           b == c \in Outdated
           p == Sockets!Attached(c, q)
<1>0. /\ q \in Sockets!Presence /\ b \in BOOLEAN
      /\ pr \in {PresenceProjectOf[k] : k \in PresenceConnectors} \cup {Absent}
  BY Entry
<1>1. p \in Sockets!Presence /\ p.conn = c /\ p.project = pr /\ p.draining = b
  <2>1. p = [q EXCEPT !.listed = TRUE, !.project = pr, !.conn = c, !.draining = b]
    BY Zenon DEF Sockets!Attached
  <2> HIDE DEF q, pr, b, p
  <2> QED
    BY <1>0, <2>1 DEF Sockets!Presence
<1>2. presence_handler'[c] = "serving"
  BY DEF Sockets!Attach, PresenceInv, Sockets!TypeOK
<1> HIDE DEF p
<1>3. /\ presence_online' = [presence_online EXCEPT ![PresenceConnectorOf[c]] = p]
      /\ UNCHANGED presence_sock
      /\ presence_handler' = [presence_handler EXCEPT ![c] = "serving"]
  BY DEF Sockets!Attach, p
<1> QED
  BY <1>1, <1>2, <1>3, EntryKeeps DEF Sockets!Dialled

LEMMA StatsKeeps ==
  ASSUME Sockets!Dialled, PresenceInv, NEW c \in PresenceConns, Sockets!Stats(c)
  PROVE  PresenceInv'
<1> DEFINE q == presence_online[PresenceConnectorOf[c]]
           p == [q EXCEPT !.listed = TRUE, !.stats = TRUE]
<1>1. /\ p \in Sockets!Presence /\ p.conn = q.conn /\ p.project = q.project
      /\ p.draining = q.draining /\ q.conn \in PresenceConns \cup {Absent}
  BY Entry DEF Sockets!Presence
<1>2. /\ presence_handler' = [presence_handler EXCEPT ![c] = "serving"]
      /\ presence_handler' = presence_handler
      /\ UNCHANGED presence_sock
  BY DEF Sockets!Stats, PresenceInv, Sockets!TypeOK
<1>3. presence_online' = [presence_online EXCEPT ![PresenceConnectorOf[c]] = p]
  BY Entry DEF Sockets!Stats, PresenceInv, Sockets!TypeOK
<1>4. IF q.conn = Absent THEN q.project = Absent
      ELSE /\ PresenceConnectorOf[q.conn] = PresenceConnectorOf[c]
           /\ presence_handler[q.conn] \in {"serving", "leaving"}
           /\ q.project = PresenceProjectOf[PresenceConnectorOf[c]]
           /\ q.draining <=> q.conn \in Outdated
  BY Entry DEF PresenceInv, Sockets!SelectionMatchesSocket
<1> HIDE DEF p, q
<1> QED
  BY <1>1, <1>2, <1>3, <1>4, EntryKeeps

LEMMA OfflineKeeps ==
  ASSUME Sockets!Dialled, PresenceInv, NEW c \in PresenceConns, Sockets!MarkOffline(c)
  PROVE  PresenceInv'
<1>1. /\ Sockets!NotListed \in Sockets!Presence /\ Sockets!NotListed.conn = Absent
      /\ Sockets!NotListed.project = Absent
  BY DEF Sockets!NotListed, Sockets!Presence
<1> QED
  BY <1>1, EntryKeeps DEF Sockets!MarkOffline, Sockets!Without

\* A socket that is not listed moves on, or one that is goes on to leave.
LEMMA SocketKeeps ==
    ASSUME Sockets!Dialled, PresenceInv, NEW c \in PresenceConns,
           Sockets!Accept(c) \/ Sockets!Break(c) \/ Sockets!ReadFails(c)
    PROVE  PresenceInv'
<1>1. Sockets!TypeOK' /\ presence_online' = presence_online
  BY DEF Sockets!Accept, Sockets!Break, Sockets!ReadFails, PresenceInv, Sockets!TypeOK
<1>2. \A d \in PresenceConns : presence_handler[d] \in {"serving", "leaving"}
                        => presence_handler'[d] \in {"serving", "leaving"}
  BY DEF Sockets!Accept, Sockets!Break, Sockets!ReadFails, PresenceInv, Sockets!TypeOK
<1>3. \A k \in PresenceConnectors : presence_online[k].conn \in PresenceConns \cup {Absent}
  BY DEF PresenceInv, Sockets!TypeOK, Sockets!Presence
<1> QED
  BY <1>1, <1>2, <1>3 DEF PresenceInv, Sockets!SelectionMatchesSocket

LEMMA PresenceStepKeeps ==
  ASSUME Sockets!Dialled
  PROVE  PresenceInv /\ [Sockets!Next]_(Sockets!vars) => PresenceInv'
<1> SUFFICES ASSUME PresenceInv, [Sockets!Next]_(Sockets!vars) PROVE PresenceInv'
  OBVIOUS
<1>1. ASSUME NEW c \in PresenceConns,
             \/ Sockets!Accept(c) \/ Sockets!Attach(c) \/ Sockets!Stats(c) \/ Sockets!Break(c)
             \/ Sockets!ReadFails(c) \/ Sockets!MarkOffline(c)
      PROVE  PresenceInv'
  BY <1>1, AttachKeeps, StatsKeeps, OfflineKeeps, SocketKeeps
<1>2. CASE UNCHANGED Sockets!vars
  BY <1>2 DEF Sockets!vars, PresenceInv, Sockets!TypeOK, Sockets!SelectionMatchesSocket
<1> QED
  BY <1>1, <1>2 DEF Sockets!Next

-----------------------------------------------------------------------------
\* So they hold throughout.
LEMMA PresenceInvariant == ASSUME Sockets!Dialled PROVE Sockets!Spec => []PresenceInv
BY PresenceInitially, PresenceStepKeeps, PTL DEF Sockets!Spec

\* The presence map and the goroutines of the sockets keep their types (ws.go).
THEOREM PresenceTyped == Sockets!Spec => []Sockets!TypeOK
<1> USE PresenceAssumption
<1>1. PresenceInv => Sockets!TypeOK
  BY DEF PresenceInv
<1> QED
  BY <1>1, PresenceInvariant, PTL

-----------------------------------------------------------------------------
\* What worker selection reads of a connector (its socket, its project, whether
\* it is draining) is of one socket of that connector, whose goroutine is
\* serving it or about to leave (attachConn, setStats, markOffline).
THEOREM SelectionMatches == Sockets!Spec => []SelectionMatchesSocket
<1> USE PresenceAssumption
<1>1. PresenceInv => SelectionMatchesSocket
  BY DEF SelectionMatchesSocket, Sockets!SelectionMatchesSocket, PresenceInv
<1> QED
  BY <1>1, PresenceInvariant, PTL

==============================================================================
