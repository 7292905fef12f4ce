------------------------------- MODULE Updates -------------------------------
(***************************************************************************)
(* Releases reaching a hub and the connectors that follow it: the hub's    *)
(* update manager, a connector's own update loop, and the swap of the      *)
(* executable they share the code of (internal/hub/update.go,              *)
(* internal/agent/update.go, agent.go, internal/updater).                  *)
(*                                                                         *)
(* Hub and connector run on machines of their own or on one, from one      *)
(* executable; each is a managed service that restarts from the path of    *)
(* the executable when it exits or dies.  The swap is the Unix one, on a   *)
(* file system with hard links; a rename is atomic, the steps are not.     *)
(***************************************************************************)
EXTENDS Naturals

CONSTANTS
  Machines,
  MaxVersion,        \* bound: releases
  MaxExecs,          \* bound: commands the connector gets
  MaxFaults,         \* bound: failed steps, dropped sockets, crashes
  MaxMoves           \* bound: what people ask for

VARIABLES
  machine,           \* [Processes -> where it runs]
  file,              \* [Machines -> version at each path, 0 for no file]
  running,           \* [Processes -> version of its process]
  op,                \* [Processes -> the replacement under way]
  manager,           \* the hub's update manager
  connector,         \* the connector's connection and update loop
  execs,             \* [started, running] supervised commands
  latest,            \* the newest stable release
  faults, moves      \* so far (bounds only)

bounds == <<faults, moves>>
vars == <<machine, file, running, op, manager, connector, execs, latest, bounds>>

----------------------------------------------------------------------------
Processes == {"hub", "connector"}
Versions == 1..MaxVersion
Corrupt == MaxVersion + 1
Files == [exe : 0..Corrupt, previous : 0..Corrupt, rollback : 0..Corrupt]

(* Something is released to begin with.                                     *)
Bounds == MaxVersion \in Nat \ {0} /\ MaxExecs \in Nat

(* vMAJOR.MINOR.PATCH: releases come one after the other.                   *)
IsNewer(candidate, current) == candidate > current

Idle == [at |-> "idle"]
At(p, stage) == op[p].at = stage
Here(p) == file[machine[p]]

Go(p, next) == op' = [op EXCEPT ![p] = next]
Write(p, files) == file' = [file EXCEPT ![machine[p]] = files]

FreshManager(files) == [checking |-> FALSE, applying |-> FALSE, known |-> 0, auto |-> manager.auto,
                        restorable |-> files.previous # 0]
FreshConnector == [link |-> "down", open |-> FALSE, told |-> 0, budget |-> TRUE, waiting |-> FALSE,
                   orphan |-> FALSE, applied |-> FALSE]

(* The service manager starts what is at the path now; a hub that exits     *)
(* closes the connector's socket.                                           *)
Starts(p) ==
  /\ running' = [running EXCEPT ![p] = Here(p).exe]
  /\ Go(p, Idle)
  /\ IF p = "hub" THEN /\ manager' = FreshManager(Here(p))
                       /\ connector' = [connector EXCEPT !.open = FALSE]
                       /\ UNCHANGED execs
     ELSE /\ connector' = FreshConnector /\ execs' = [execs EXCEPT !.running = 0]
          /\ UNCHANGED manager

Fails == faults < MaxFaults /\ faults' = faults + 1

----------------------------------------------------------------------------
(* updater.Install and updater.Rollback.                                    *)

(* The connector's replacement is the one a new connection makes before it  *)
(* serves; any other is its loop's, or that of a connection which is gone.  *)
BeforeServing == connector.link = "welcome" /\ ~connector.orphan

(* finishApply, or the connector's log line: what was begun is left.        *)
GiveUp(p) ==
  /\ Go(p, Idle)
  /\ IF p = "hub" THEN manager' = [manager EXCEPT !.applying = FALSE] /\ UNCHANGED connector
     ELSE /\ connector' = IF BeforeServing THEN [connector EXCEPT !.link = "serving"]
                          ELSE [connector EXCEPT !.orphan = FALSE]
          /\ UNCHANGED manager
  /\ UNCHANGED <<machine, running, execs, latest, moves>>

Continue(p, next) ==
  /\ Go(p, next)
  /\ UNCHANGED <<machine, running, manager, connector, execs, latest, bounds>>

(* What was downloaded may be anything.                                     *)
downloadStaged(p) ==
  /\ At(p, "download")
  /\ \/ Go(p, [at |-> "validate", staged |-> op[p].version, version |-> op[p].version])
        /\ UNCHANGED faults
     \/ Go(p, [at |-> "validate", staged |-> Corrupt, version |-> op[p].version]) /\ Fails
  /\ UNCHANGED <<machine, file, running, manager, connector, execs, latest, moves>>

(* Slip: what was downloaded is installed unseen.                           *)
validateBinaryTrusting(p) ==
  /\ At(p, "validate")
  /\ Continue(p, [at |-> "remove", staged |-> op[p].staged]) /\ UNCHANGED file

(* Its checksum and the version it reports.                                 *)
validateBinary(p) ==
  /\ At(p, "validate")
  /\ IF op[p].staged = op[p].version
       THEN Continue(p, [at |-> "remove", staged |-> op[p].staged])
       ELSE GiveUp(p) /\ UNCHANGED faults
  /\ UNCHANGED file

RemovePrevious(p) ==
  /\ At(p, "remove")
  /\ Write(p, [Here(p) EXCEPT !.previous = 0])
  /\ Continue(p, [op[p] EXCEPT !.at = "backup"])

(* A link; where another process made a file meanwhile there is an error.   *)
backupExecutable(p) ==
  /\ At(p, "backup")
  /\ IF Here(p).previous = 0
       THEN /\ Write(p, [Here(p) EXCEPT !.previous = Here(p).exe])
            /\ Continue(p, [op[p] EXCEPT !.at = "swap"])
       ELSE GiveUp(p) /\ UNCHANGED <<file, faults>>

(* What follows a replacement that was done.                                *)
Replaced(p) ==
  /\ IF p = "connector" /\ ~BeforeServing
       THEN /\ connector' = [connector EXCEPT !.waiting = TRUE]
            /\ Go(p, Idle) /\ UNCHANGED manager
       ELSE Go(p, [at |-> "exit"]) /\ UNCHANGED <<manager, connector>>
  /\ UNCHANGED <<machine, running, execs, latest, bounds>>

swapUnix(p) ==
  /\ At(p, "swap")
  /\ Write(p, [Here(p) EXCEPT !.exe = op[p].staged])
  /\ Replaced(p)

SwapFails(p) ==
  /\ At(p, "swap") /\ Fails
  /\ Write(p, [Here(p) EXCEPT !.previous = 0])
  /\ GiveUp(p)

(* Only the hub rolls back.                                                 *)
BackupFailed(p) ==
  /\ At(p, "roll back")
  /\ IF Here(p).previous = 0 THEN GiveUp(p) /\ UNCHANGED <<file, faults>>
     ELSE /\ Write(p, [Here(p) EXCEPT !.rollback = Here(p).exe])
          /\ Continue(p, [at |-> "restore"])

Restore(p) ==
  /\ At(p, "restore")
  /\ IF Here(p).previous = 0
       THEN Write(p, [Here(p) EXCEPT !.rollback = 0]) /\ GiveUp(p) /\ UNCHANGED faults
       ELSE /\ Write(p, [Here(p) EXCEPT !.exe = Here(p).previous, !.previous = 0])
            /\ Continue(p, [at |-> "keep"])

KeepFailed(p) ==
  /\ At(p, "keep")
  /\ Write(p, [Here(p) EXCEPT !.previous = Here(p).rollback, !.rollback = 0])
  /\ Replaced(p)

Exit(p) ==
  /\ At(p, "exit")
  /\ Starts(p)
  /\ UNCHANGED <<machine, file, latest, bounds>>

----------------------------------------------------------------------------
(* The hub's manager.                                                       *)

Asked == moves < MaxMoves /\ moves' = moves + 1

check ==
  /\ ~manager.checking /\ ~manager.applying
  /\ manager' = [manager EXCEPT !.checking = TRUE]
  /\ UNCHANGED <<machine, file, running, op, connector, execs, latest, bounds>>

Begin(version) == Go("hub", [at |-> "download", version |-> version])

(* The timer's check installs what it found; a person's does not.           *)
Checked(applyAutomatically) ==
  LET apply == /\ applyAutomatically /\ manager.auto /\ IsNewer(latest, running["hub"])
               /\ ~manager.applying
  IN  /\ manager.checking
      /\ manager' = [manager EXCEPT !.checking = FALSE, !.known = latest,
                                    !.applying = manager.applying \/ apply]
      /\ IF apply THEN Begin(latest) ELSE UNCHANGED op
      /\ UNCHANGED <<machine, file, running, connector, execs, latest, bounds>>

(* No answer, or no release for this platform: the next check may do.       *)
CheckFails ==
  /\ manager.checking
  /\ manager' = [manager EXCEPT !.checking = FALSE]
  /\ UNCHANGED <<machine, file, running, op, connector, execs, latest, bounds>>

(* By hand: what the last check found, or what is latest without one.       *)
install ==
  LET release == IF manager.known = 0 THEN latest ELSE manager.known
  IN  /\ Asked /\ ~manager.applying
      /\ IsNewer(release, running["hub"])
      /\ manager' = [manager EXCEPT !.applying = TRUE, !.known = release]
      /\ Begin(release)
      /\ UNCHANGED <<machine, file, running, connector, execs, latest, faults>>

rollback ==
  /\ Asked /\ ~manager.applying /\ manager.restorable
  /\ manager' = [manager EXCEPT !.applying = TRUE]
  /\ Go("hub", [at |-> "roll back"])
  /\ UNCHANGED <<machine, file, running, connector, execs, latest, faults>>

setAuto(enabled) ==
  /\ Asked /\ manager.auto # enabled
  /\ manager' = [manager EXCEPT !.auto = enabled]
  /\ UNCHANGED <<machine, file, running, op, connector, execs, latest, faults>>

(* Somebody publishes a release (external).                                 *)
Released ==
  /\ latest < MaxVersion /\ latest' = latest + 1
  /\ UNCHANGED <<machine, file, running, op, manager, connector, execs, bounds>>

----------------------------------------------------------------------------
(* The connector.                                                           *)

Connect ==
  /\ connector.link = "down"
  /\ connector' = [connector EXCEPT !.link = "welcome", !.open = TRUE, !.told = running["hub"]]
  /\ UNCHANGED <<machine, file, running, op, manager, execs, latest, bounds>>

(* Never a downgrade, never during a command, once an hour; a replacement   *)
(* lasts minutes at most, so one is over when the next hour begins.         *)
maybeSelfUpdate ==
  /\ At("connector", "idle") /\ ~connector.waiting
  /\ IsNewer(connector.told, running["connector"])
  /\ execs.running = 0 /\ connector.budget

StartUpdate ==
  /\ maybeSelfUpdate
  /\ connector.link \in {"welcome", "serving"}
  /\ connector' = [connector EXCEPT !.budget = FALSE]
  /\ Go("connector", [at |-> "download", version |-> connector.told])
  /\ UNCHANGED <<machine, file, running, manager, execs, latest, bounds>>

Serve ==
  /\ connector.link = "welcome" /\ ~maybeSelfUpdate
  /\ At("connector", "idle") \/ connector.orphan
  /\ connector' = [connector EXCEPT !.link = "serving"]
  /\ UNCHANGED <<machine, file, running, op, manager, execs, latest, bounds>>

(* Slip: an attempt that failed is the last one.                            *)
HourPassesOnce ==
  /\ ~connector.budget /\ At("connector", "idle") /\ connector.told <= running["connector"]
  /\ connector' = [connector EXCEPT !.budget = TRUE]
  /\ UNCHANGED <<machine, file, running, op, manager, execs, latest, bounds>>

HourPasses ==
  /\ ~connector.budget /\ At("connector", "idle")
  /\ connector' = [connector EXCEPT !.budget = TRUE]
  /\ UNCHANGED <<machine, file, running, op, manager, execs, latest, bounds>>

(* A replacement is on disk: between two commands the socket is closed.     *)
(* The loop of a connection that is gone looks once and gives up.           *)
restartWhenIdle ==
  /\ connector.waiting
  /\ IF execs.running = 0
       THEN connector' = [connector EXCEPT !.waiting = FALSE, !.orphan = FALSE, !.applied = TRUE,
              !.open = connector.open /\ connector.link # "serving"]
       ELSE /\ connector.orphan
            /\ connector' = [connector EXCEPT !.waiting = FALSE, !.orphan = FALSE]
  /\ UNCHANGED <<machine, file, running, op, manager, execs, latest, bounds>>

(* The read loop ends; commands go on, the download of the loop does not.   *)
ReadFails ==
  /\ connector.link = "serving" /\ ~connector.open
  /\ IF connector.applied THEN Starts("connector")
     ELSE /\ connector' = [connector EXCEPT !.link = "down",
                 !.orphan = connector.waiting \/ ~At("connector", "idle")]
          /\ UNCHANGED <<running, op, manager, execs>>
  /\ UNCHANGED <<machine, file, latest, bounds>>

DownloadCancelled ==
  /\ connector.orphan /\ op["connector"].at \in {"download", "validate"}
  /\ GiveUp("connector")
  /\ UNCHANGED <<file, faults>>

Drop ==
  /\ connector.open /\ Fails
  /\ connector' = [connector EXCEPT !.open = FALSE]
  /\ UNCHANGED <<machine, file, running, op, manager, execs, latest, moves>>

execStarted ==
  /\ connector.link = "serving" /\ connector.open /\ execs.started < MaxExecs
  /\ execs' = [started |-> execs.started + 1, running |-> execs.running + 1]
  /\ UNCHANGED <<machine, file, running, op, manager, connector, latest, bounds>>

execDone ==
  /\ execs.running > 0
  /\ execs' = [execs EXCEPT !.running = @ - 1]
  /\ UNCHANGED <<machine, file, running, op, manager, connector, latest, bounds>>

----------------------------------------------------------------------------
(* The process dies between any two steps.                                  *)
Crash(p) ==
  /\ ~At(p, "idle") /\ Fails
  /\ Starts(p)
  /\ UNCHANGED <<machine, file, latest, moves>>

Replace(p) ==
  \/ downloadStaged(p) \/ validateBinary(p)
  \/ RemovePrevious(p) \/ backupExecutable(p) \/ swapUnix(p)
  \/ BackupFailed(p) \/ Restore(p) \/ KeepFailed(p)
  \/ Exit(p)

Manage ==
  \/ check \/ \E applyAutomatically \in BOOLEAN : Checked(applyAutomatically)
  \/ CheckFails
  \/ install \/ rollback \/ \E enabled \in BOOLEAN : setAuto(enabled)

Follow ==
  Connect \/ StartUpdate \/ Serve \/ HourPasses \/ restartWhenIdle \/ ReadFails \/ DownloadCancelled

Next ==
  \/ \E p \in Processes : Replace(p) \/ SwapFails(p) \/ Crash(p)
  \/ Manage \/ Released
  \/ Follow \/ Drop \/ execStarted \/ execDone

Init ==
  /\ machine \in [Processes -> Machines]
  /\ file = [m \in Machines |-> [exe |-> 1, previous |-> 0, rollback |-> 0]]
  /\ running = [p \in Processes |-> 1]
  /\ op = [p \in Processes |-> Idle]
  /\ manager = [checking |-> FALSE, applying |-> FALSE, known |-> 0, auto |-> TRUE, restorable |-> FALSE]
  /\ connector = FreshConnector
  /\ execs = [started |-> 0, running |-> 0]
  /\ latest = 1 /\ faults = 0 /\ moves = 0

(* Timers tick, dials are repeated, downloads end and commands do.          *)
Fairness ==
  /\ \A p \in Processes : WF_vars(Replace(p))
  /\ WF_vars(Connect) /\ WF_vars(StartUpdate) /\ WF_vars(Serve)
  /\ WF_vars(HourPasses) /\ WF_vars(restartWhenIdle) /\ WF_vars(ReadFails)
  /\ WF_vars(DownloadCancelled) /\ WF_vars(execDone)

Spec == Init /\ [][Next]_vars /\ Fairness

----------------------------------------------------------------------------
(* Properties.                                                              *)

TypeOK ==
  /\ file \in [Machines -> Files]
  /\ running \in [Processes -> Versions]
  /\ \A p \in Processes : running[p] <= latest
  /\ manager.applying <=> ~At("hub", "idle")
  /\ execs.running \in 0..MaxExecs

(* Whatever fails or dies between two steps, and with hub and connector     *)
(* replacing one executable at the same time, a whole verified binary is at *)
(* its path, and one that is kept for a rollback is whole too (Rollback,    *)
(* updater.go: "the service never observes a missing executable").          *)
ExecutableIsWhole ==
  \A m \in Machines : file[m].exe \in Versions /\ file[m].previous # Corrupt

(* A managed connector ends up on the release of its hub or a newer one:    *)
(* through failed downloads, dropped sockets, commands that make it wait    *)
(* and a hub that is rolled back meanwhile (README.md, "Managed connector   *)
(* agents follow the hub's stable version automatically").                  *)
ConnectorFollowsHub == <>[](running["connector"] >= running["hub"])

=============================================================================
