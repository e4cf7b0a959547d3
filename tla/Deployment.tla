----------------------------- MODULE Deployment -----------------------------
(***************************************************************************)
(* DeploymentOrchestrator::deploy (src/src/deployment.cpp) as run by       *)
(* several deployers against the Quadlet files of several users, the       *)
(* users' systemd managers and their Podman services.                      *)
(*                                                                         *)
(* A deployer is one thread of control calling deploy(); pc[d] is the call *)
(* it is about to make, or, between two calls, how the last one ended.     *)
(* Every external call of deploy() (flock, image load, snapshot, install,  *)
(* daemon-reload, restart, status) is a step of its own, so that deployers *)
(* interleave between any two of them, and each may fail.  Installing a    *)
(* file is one step here; module QuadletInstaller opens it up.             *)
(***************************************************************************)
EXTENDS Naturals, FiniteSets

CONSTANTS
    Deployers,  \* concurrent callers of deploy()
    Uids,       \* uids a bundle may name
    Root,       \* uid 0
    Known,      \* uids the passwd database resolves
    Units,      \* unit names a Quadlet file name can stand for
    NoUnit,     \* an empty service name, or a file name that yields no unit
    Contents,   \* Quadlet texts (a text stands for the revision it describes)
    Accepted,   \* texts that pass the size limit and the Quadlet policy
    Absent,     \* no file, no such unit, or nothing running
    Free,       \* nobody holds the lock
    Requests    \* bundles, each with the options of the orchestrator called

OptionNames == {"load_image_archive", "validate_socket", "restart_unit", "dry_run"}

ArchiveStates == {"none", "empty_path", "unusable", "staged"}

Bundles == [uid : Uids, service : Units \cup {NoUnit}, unit : Units \cup {NoUnit},
            contents : Contents, archive : ArchiveStates, options : SUBSET OptionNames]

ASSUME ConstantsAssumption ==
    /\ Root \in Uids /\ Known \subseteq Uids
    /\ NoUnit \notin Units
    /\ Accepted \subseteq Contents
    /\ Absent \notin Contents
    /\ Free \notin Deployers
    /\ Requests \subseteq Bundles

\* A slot is one Quadlet of one user: the path <root>/<uid>/<name>.container,
\* the unit <name>.service of that user and the lock <uid>-<unit>.lock.
Slots == (Known \ {Root}) \X Units

Revisions == Contents \cup {Absent}

\* The calls deploy() and rollback_error() make, in the order of the code.
Steps == {"lock", "socket", "image", "snapshot", "install", "reload", "restart",
          "verify", "status", "restore", "rbReload", "rbRestart", "rbVerify"}

\* How a call ended: "idle" before the first one, the result deploy() returned,
\* or "crashed".  The rollback outcomes are the suffixes rollback_error appends.
Outcomes == {"idle", "rejected", "dry_run", "ok", "failed", "install_failed",
             "rollback_failed", "rollback_reload_failed", "rolled_back",
             "rollback_restart_failed", "rollback_unhealthy", "restored", "crashed"}

\* Steps between the installation of the new text and the end of its restore.
Installed == {"reload", "restart", "verify", "status", "restore"}

VARIABLES
    pc,         \* next call of each deployer, or its last outcome
    req,        \* the request each deployer is serving
    snapshot,   \* QuadletSnapshot taken by each deployer; Absent: existed = false
    failedAt,   \* the call whose failure started the rollback
    holder,     \* owner of the flock of each slot
    file,       \* the text installed for each slot
    loaded,     \* the revision the user's manager has loaded for each unit
    running,    \* the revision each unit is running
    images      \* revisions whose image archive each user's Podman has imported

\* History variables: they record what happened and never enable a step.
VARIABLES
    committed,  \* the text of the last deployment that returned success
    suspect,    \* slots whose file was left behind by a crash, a failed install
                \* or a failed restore since that deployment
    stale       \* slots left with an unloaded change since their user's last reload

codeVars == <<pc, req, snapshot, failedAt>>
unitVars == <<loaded, running, images>>
history  == <<committed, suspect, stale>>
vars     == <<codeVars, holder, file, unitVars, history>>

-----------------------------------------------------------------------------
\* What deploy() decides before it takes the lock; none of it has a side effect.

Slot(d) == <<req[d].uid, req[d].unit>>

UsesArchive(r) == "load_image_archive" \in r.options /\ r.archive # "none"

\* validate_deployment_bundle
ValidBundle(r) ==
    /\ r.uid # Root
    /\ r.service # NoUnit
    /\ r.unit = r.service
    /\ r.archive # "empty_path"

\* Mutant: the policy is not applied to the supplied text.
Admissible_NoPolicy(r) ==
    /\ ValidBundle(r)
    /\ r.uid \in Known
    /\ UsesArchive(r) => r.archive = "staged"

\* validate_deployment_bundle, resolve_uid, expected_install and
\* open_staged_image_archive all succeed
Admissible(r) ==
    /\ ValidBundle(r)
    /\ r.uid \in Known
    /\ r.contents \in Accepted
    /\ UsesArchive(r) => r.archive = "staged"

Idle(d) == pc[d] \in Outcomes

Goto(d, step) == pc' = [pc EXCEPT ![d] = step]

\* deploy() returns: the destructor of DeploymentLock closes the lock file.
Return(d, outcome) ==
    /\ Goto(d, outcome)
    /\ holder' = [holder EXCEPT ![Slot(d)] = Free]
    /\ snapshot' = [snapshot EXCEPT ![d] = Absent]
    /\ failedAt' = [failedAt EXCEPT ![d] = "none"]
    /\ UNCHANGED req

\* What daemon-reload does to the units of one user.
ReloadManager(u) ==
    loaded' = [s \in Slots |-> IF s[1] = u THEN file[s] ELSE loaded[s]]

OfUser(u) == {s \in Slots : s[1] = u}
-----------------------------------------------------------------------------
Init ==
    /\ pc = [d \in Deployers |-> "idle"]
    /\ req \in [Deployers -> Requests]
    /\ snapshot = [d \in Deployers |-> Absent]
    /\ failedAt = [d \in Deployers |-> "none"]
    /\ holder = [s \in Slots |-> Free]
    /\ file \in [Slots -> Revisions]
    /\ loaded = file
    /\ running \in [Slots -> Revisions]
    /\ \A s \in Slots : running[s] \in {file[s], Absent}
    /\ images = {}
    /\ committed = file
    /\ suspect = {}
    /\ stale = {}

Reject(d, r) ==
    /\ Idle(d)
    /\ ~Admissible(r)
    /\ Goto(d, "rejected")
    /\ req' = [req EXCEPT ![d] = r]
    /\ UNCHANGED <<snapshot, failedAt, holder, file, unitVars, history>>

DryRun(d, r) ==
    /\ Idle(d)
    /\ Admissible(r)
    /\ "dry_run" \in r.options
    /\ Goto(d, "dry_run")
    /\ req' = [req EXCEPT ![d] = r]
    /\ UNCHANGED <<snapshot, failedAt, holder, file, unitVars, history>>

Admit(d, r) ==
    /\ Idle(d)
    /\ Admissible(r)
    /\ "dry_run" \notin r.options
    /\ Goto(d, "lock")
    /\ req' = [req EXCEPT ![d] = r]
    /\ UNCHANGED <<snapshot, failedAt, holder, file, unitVars, history>>

\* Mutant: the lock records the user instead of the deployer.
AcquireLock_User(d) ==
    /\ pc[d] = "lock"
    /\ holder[Slot(d)] = Free
    /\ holder' = [holder EXCEPT ![Slot(d)] = req[d].uid]
    /\ Goto(d, "snapshot")
    /\ UNCHANGED <<req, snapshot, failedAt, file, unitVars, history>>

\* flock(LOCK_EX) blocks until the lock is free.
AcquireLock(d) ==
    /\ pc[d] = "lock"
    /\ holder[Slot(d)] = Free
    /\ holder' = [holder EXCEPT ![Slot(d)] = d]
    /\ Goto(d, CASE ~UsesArchive(req[d]) -> "snapshot"
                 [] UsesArchive(req[d]) /\ "validate_socket" \in req[d].options -> "socket"
                 [] OTHER -> "image")
    /\ UNCHANGED <<req, snapshot, failedAt, file, unitVars, history>>

\* The lock directory or the lock file cannot be opened or has the wrong owner.
LockFails(d) ==
    /\ pc[d] = "lock"
    /\ Goto(d, "failed")
    /\ UNCHANGED <<req, snapshot, failedAt, holder, file, unitVars, history>>

ValidateSocket(d) ==
    /\ pc[d] = "socket"
    /\ \/ Goto(d, "image") /\ UNCHANGED <<req, snapshot, failedAt, holder>>
       \/ Return(d, "failed")
    /\ UNCHANGED <<file, unitVars, history>>

\* ping and load_image_archive_fd.
LoadImage(d) ==
    /\ pc[d] = "image"
    /\ Goto(d, "snapshot")
    /\ images' = images \cup {<<req[d].uid, req[d].contents>>}
    /\ UNCHANGED <<req, snapshot, failedAt, holder, file, loaded, running, history>>

\* Mutant: the result of the load is ignored.
LoadImageFails_Ignored(d) ==
    /\ pc[d] = "image"
    /\ Goto(d, "snapshot")
    /\ UNCHANGED <<req, snapshot, failedAt, holder, images>>
    /\ UNCHANGED <<file, loaded, running, history>>

\* The request may fail, or time out, after Podman has imported the archive.
LoadImageFails(d) ==
    /\ pc[d] = "image"
    /\ Return(d, "failed")
    /\ images' \in {images, images \cup {<<req[d].uid, req[d].contents>>}}
    /\ UNCHANGED <<file, loaded, running, history>>

\* Mutant: the lock's scope ends with the snapshot.
TakeSnapshot_Unlocks(d) ==
    /\ pc[d] = "snapshot"
    /\ Goto(d, "install")
    /\ snapshot' = [snapshot EXCEPT ![d] = file[Slot(d)]]
    /\ holder' = [holder EXCEPT ![Slot(d)] = Free]
    /\ UNCHANGED <<req, failedAt, file, unitVars, history>>

TakeSnapshot(d) ==
    /\ pc[d] = "snapshot"
    /\ Goto(d, "install")
    /\ snapshot' = [snapshot EXCEPT ![d] = file[Slot(d)]]
    /\ UNCHANGED <<req, failedAt, holder, file, unitVars, history>>

SnapshotFails(d) ==
    /\ pc[d] = "snapshot"
    /\ Return(d, "failed")
    /\ UNCHANGED <<file, unitVars, history>>

Install(d) ==
    /\ pc[d] = "install"
    /\ Goto(d, "reload")
    /\ file' = [file EXCEPT ![Slot(d)] = req[d].contents]
    /\ UNCHANGED <<req, snapshot, failedAt, holder, unitVars, history>>

\* install_for_user returns an error: atomic_write_file either gave up before
\* the rename or failed to fsync the directory after it.  No rollback follows.
InstallFails(d) ==
    /\ pc[d] = "install"
    /\ Return(d, "install_failed")
    /\ \E text \in {file[Slot(d)], req[d].contents} :
           file' = [file EXCEPT ![Slot(d)] = text]
    /\ suspect' = suspect \cup {Slot(d)}
    /\ stale' = stale \cup {Slot(d)}
    /\ UNCHANGED <<unitVars, committed>>

\* Mutant: the unit is restarted without daemon-reload.
Reload_Skipped(d) ==
    /\ pc[d] = "reload"
    /\ Goto(d, IF "restart_unit" \in req[d].options THEN "restart" ELSE "status")
    /\ UNCHANGED <<req, snapshot, failedAt, holder, file, unitVars, history>>

Reload(d) ==
    /\ pc[d] = "reload"
    /\ Goto(d, IF "restart_unit" \in req[d].options THEN "restart" ELSE "status")
    /\ ReloadManager(req[d].uid)
    /\ stale' = stale \ OfUser(req[d].uid)
    /\ UNCHANGED <<req, snapshot, failedAt, holder, file, running, images, committed, suspect>>

\* The command may fail, or time out, with or without having reloaded.
ReloadFails(d) ==
    /\ pc[d] = "reload"
    /\ Goto(d, "restore")
    /\ failedAt' = [failedAt EXCEPT ![d] = "reload"]
    /\ ReloadManager(req[d].uid) \/ UNCHANGED loaded
    /\ UNCHANGED <<req, snapshot, holder, file, running, images, history>>

Restart(d) ==
    /\ pc[d] = "restart"
    /\ Goto(d, "verify")
    /\ running' = [running EXCEPT ![Slot(d)] = loaded[Slot(d)]]
    /\ UNCHANGED <<req, snapshot, failedAt, holder, file, loaded, images, history>>

\* The job fails or times out: the old instance may still be there, the new one
\* may have come up, or neither runs.
RestartFails(d) ==
    /\ pc[d] = "restart"
    /\ Goto(d, "restore")
    /\ failedAt' = [failedAt EXCEPT ![d] = "restart"]
    /\ \E now \in {running[Slot(d)], loaded[Slot(d)], Absent} :
           running' = [running EXCEPT ![Slot(d)] = now]
    /\ UNCHANGED <<req, snapshot, holder, file, loaded, images, history>>

\* deployed_status_is_healthy on the status read after the job: the unit is
\* loaded and active.
Healthy(s) == loaded[s] # Absent /\ running[s] # Absent

VerifyHealthy(d) ==
    /\ pc[d] = "verify"
    /\ Healthy(Slot(d))
    /\ Return(d, "ok")
    /\ committed' = [committed EXCEPT ![Slot(d)] = req[d].contents]
    /\ suspect' = suspect \ {Slot(d)}
    /\ UNCHANGED <<file, unitVars, stale>>

\* Mutant: an unhealthy unit is reported without a rollback.
VerifyFails_NoRollback(d) ==
    /\ pc[d] = "verify"
    /\ Return(d, "failed")
    /\ UNCHANGED <<file, unitVars, history>>

\* The unit is unhealthy, or its status cannot be read.
VerifyFails(d) ==
    /\ pc[d] = "verify"
    /\ Goto(d, "restore")
    /\ failedAt' = [failedAt EXCEPT ![d] = "restart"]
    /\ UNCHANGED <<req, snapshot, holder, file, unitVars, history>>

\* restart_unit is off: the status is only reported, whatever it is.
QueryStatus(d) ==
    /\ pc[d] = "status"
    /\ Return(d, "ok")
    /\ committed' = [committed EXCEPT ![Slot(d)] = req[d].contents]
    /\ suspect' = suspect \ {Slot(d)}
    /\ UNCHANGED <<file, unitVars, stale>>
-----------------------------------------------------------------------------
\* rollback_error

\* Mutant: a Quadlet that did not exist before is not removed.
Restore_OnlyExisting(d) ==
    /\ pc[d] = "restore"
    /\ Goto(d, "rbReload")
    /\ file' = [file EXCEPT ![Slot(d)] = IF snapshot[d] = Absent THEN @ ELSE snapshot[d]]
    /\ UNCHANGED <<req, snapshot, failedAt, holder, unitVars, history>>

\* Mutant: no daemon-reload after the restore.
Restore_NoReload(d) ==
    /\ pc[d] = "restore"
    /\ Return(d, "rolled_back")
    /\ file' = [file EXCEPT ![Slot(d)] = snapshot[d]]
    /\ UNCHANGED <<unitVars, history>>

Restore(d) ==
    /\ pc[d] = "restore"
    /\ Goto(d, "rbReload")
    /\ file' = [file EXCEPT ![Slot(d)] = snapshot[d]]
    /\ UNCHANGED <<req, snapshot, failedAt, holder, unitVars, history>>

RestoreFails(d) ==
    /\ pc[d] = "restore"
    /\ Return(d, "rollback_failed")
    /\ \E text \in {file[Slot(d)], snapshot[d]} :
           file' = [file EXCEPT ![Slot(d)] = text]
    /\ suspect' = suspect \cup {Slot(d)}
    /\ stale' = stale \cup {Slot(d)}
    /\ UNCHANGED <<unitVars, committed>>

RestartsRestored(d) == failedAt[d] = "restart" /\ snapshot[d] # Absent

RollbackReload(d) ==
    /\ pc[d] = "rbReload"
    /\ ReloadManager(req[d].uid)
    /\ stale' = stale \ OfUser(req[d].uid)
    /\ \/ /\ RestartsRestored(d)
          /\ Goto(d, "rbRestart")
          /\ UNCHANGED <<req, snapshot, failedAt, holder>>
       \/ /\ ~RestartsRestored(d)
          /\ Return(d, "rolled_back")
    /\ UNCHANGED <<file, running, images, committed, suspect>>

RollbackReloadFails(d) ==
    /\ pc[d] = "rbReload"
    /\ Return(d, "rollback_reload_failed")
    /\ ReloadManager(req[d].uid) \/ UNCHANGED loaded
    /\ stale' = stale \cup {Slot(d)}
    /\ UNCHANGED <<file, running, images, committed, suspect>>

RollbackRestart(d) ==
    /\ pc[d] = "rbRestart"
    /\ Goto(d, "rbVerify")
    /\ running' = [running EXCEPT ![Slot(d)] = loaded[Slot(d)]]
    /\ UNCHANGED <<req, snapshot, failedAt, holder, file, loaded, images, history>>

RollbackRestartFails(d) ==
    /\ pc[d] = "rbRestart"
    /\ Return(d, "rollback_restart_failed")
    /\ \E now \in {running[Slot(d)], loaded[Slot(d)], Absent} :
           running' = [running EXCEPT ![Slot(d)] = now]
    /\ UNCHANGED <<file, loaded, images, history>>

\* Mutant: an unhealthy restored unit is restarted until it is healthy.
RollbackVerify_Retries(d) ==
    /\ pc[d] = "rbVerify"
    /\ \/ Healthy(Slot(d)) /\ Return(d, "restored")
       \/ /\ ~Healthy(Slot(d))
          /\ Goto(d, "rbRestart")
          /\ UNCHANGED <<req, snapshot, failedAt, holder>>
    /\ UNCHANGED <<file, unitVars, history>>

RollbackVerify(d) ==
    /\ pc[d] = "rbVerify"
    /\ \/ Healthy(Slot(d)) /\ Return(d, "restored")
       \/ ~Healthy(Slot(d)) /\ Return(d, "rollback_unhealthy")
       \/ Return(d, "rollback_restart_failed")  \* the status cannot be read
    /\ UNCHANGED <<file, unitVars, history>>
-----------------------------------------------------------------------------
\* The environment.

\* d has changed the file and no reload has picked the change up for sure.
Unloaded(d) ==
    \/ pc[d] \in {"reload", "rbReload"}
    \/ pc[d] = "restore" /\ failedAt[d] = "reload"

\* The process of d dies: the kernel drops its flock, nothing else is undone,
\* and no journal tells the next process what was going on.
Crash(d) ==
    /\ pc[d] \in Steps
    /\ Goto(d, "crashed")
    /\ holder' = IF pc[d] = "lock" THEN holder
                 ELSE [holder EXCEPT ![Slot(d)] = Free]
    /\ snapshot' = [snapshot EXCEPT ![d] = Absent]
    /\ failedAt' = [failedAt EXCEPT ![d] = "none"]
    /\ suspect' = IF pc[d] \in Installed THEN suspect \cup {Slot(d)} ELSE suspect
    /\ stale' = IF Unloaded(d) THEN stale \cup {Slot(d)} ELSE stale
    /\ UNCHANGED <<req, file, unitVars, committed>>

\* A unit ends, or the manager starts it (automatic restart, a late job).
UnitChanges(s) ==
    /\ \E now \in {loaded[s], Absent} : running' = [running EXCEPT ![s] = now]
    /\ UNCHANGED <<codeVars, holder, file, loaded, images, history>>

\* The user's manager reloads for a reason of its own.
ManagerReloads(u) ==
    /\ ReloadManager(u)
    /\ stale' = stale \ OfUser(u)
    /\ UNCHANGED <<codeVars, holder, file, running, images, committed, suspect>>
-----------------------------------------------------------------------------
\* One step of the code of deploy() once the request is admitted.
Proceed(d) ==
    \/ AcquireLock(d) \/ LockFails(d) \/ ValidateSocket(d)
    \/ LoadImage(d) \/ LoadImageFails(d)
    \/ TakeSnapshot(d) \/ SnapshotFails(d)
    \/ Install(d) \/ InstallFails(d)
    \/ Reload(d) \/ ReloadFails(d)
    \/ Restart(d) \/ RestartFails(d)
    \/ VerifyHealthy(d) \/ VerifyFails(d) \/ QueryStatus(d)
    \/ Restore(d) \/ RestoreFails(d)
    \/ RollbackReload(d) \/ RollbackReloadFails(d)
    \/ RollbackRestart(d) \/ RollbackRestartFails(d) \/ RollbackVerify(d)

Call(d, r) == Reject(d, r) \/ DryRun(d, r) \/ Admit(d, r)

Next ==
    \/ \E d \in Deployers, r \in Requests : Call(d, r)
    \/ \E d \in Deployers : Proceed(d) \/ Crash(d)
    \/ \E s \in Slots : UnitChanges(s)
    \/ \E u \in Known \ {Root} : ManagerReloads(u)

Spec == Init /\ [][Next]_vars

\* Every call deploy() makes comes back (systemctl, D-Bus and libcurl answer or
\* fail); nothing makes a caller call again, and flock promises no order.
FairSpec == Spec /\ \A d \in Deployers : WF_vars(Proceed(d))
-----------------------------------------------------------------------------
\* Properties.

\* Type invariant of the orchestrator's variables.
TypeOK ==
    /\ pc \in [Deployers -> Steps \cup Outcomes]
    /\ req \in [Deployers -> Requests]
    /\ snapshot \in [Deployers -> Revisions]
    /\ failedAt \in [Deployers -> {"none", "reload", "restart"}]
    /\ holder \in [Slots -> Deployers \cup {Free}]
    /\ file \in [Slots -> Revisions]
    /\ loaded \in [Slots -> Revisions]
    /\ running \in [Slots -> Revisions]
    /\ images \subseteq (Known \X Contents)
    /\ committed \in [Slots -> Revisions]
    /\ suspect \subseteq Slots
    /\ stale \subseteq Slots

\* d is inside the region deploy() protects with lock_deployment.
Critical(d) == pc[d] \in Steps \ {"lock"}

\* Deployments of one Quadlet exclude each other: a deployer past
\* lock_deployment owns the lock of the slot it works on, so no two of them are
\* between snapshot and rollback of the same file.
LockOwnership == \A d \in Deployers : Critical(d) => holder[Slot(d)] = d

\* The step is an install or a restore by the deployer that holds s.
WrittenByHolder(s) ==
    \E d \in Deployers : /\ holder[s] = d
                         /\ pc[d] \in {"install", "restore"}
                         /\ pc'[d] # pc[d]

\* A file changes only in the hands of the deployer that holds its lock: no
\* deployer's install or rollback ever lands on another one's deployment.
OnlyHolderWrites ==
    [][\A s \in Slots : file'[s] # file[s] => WrittenByHolder(s)]_vars

\* Nobody deploying, the Quadlet on disk is the one of the last successful
\* deployment: failures before, in and after the restart all lead back to it,
\* however deployments of the unit interleave.  Only a crash, a failed install
\* and a failed restore (the errors that say so) leave anything else behind.
RestingFileIsCommitted ==
    \A s \in Slots : holder[s] = Free /\ s \notin suspect => file[s] = committed[s]

\* Nobody deploying, the user's manager has loaded what is on disk: rollback
\* reloads what it restored, and the reloads of one unit's deployment, which
\* load every file of the user, do not leave another unit's withdrawn text
\* loaded.
RestingUnitIsLoaded ==
    \A s \in Slots : holder[s] = Free /\ s \notin stale => loaded[s] = file[s]

\* The status deploy() judges after a restart is that of the revision it
\* installed, and after the rollback's restart that of the snapshot: no other
\* deployer's reload, or the manager's own, changes what the restart started.
JudgedRevision ==
    \A d \in Deployers :
        /\ pc[d] = "verify" => running[Slot(d)] \in {req[d].contents, Absent}
        /\ pc[d] = "rbVerify" => running[Slot(d)] \in {snapshot[d], Absent}

\* A deployment with restart_unit reports success only when its own text is
\* installed, loaded and running and, if it came with an archive, imported.
SuccessIsVerified ==
    [][\A d \in Deployers :
          pc[d] \in Steps /\ pc'[d] = "ok" =>
              /\ file[Slot(d)] = req[d].contents
              /\ loaded[Slot(d)] = req[d].contents
              /\ "restart_unit" \in req[d].options => running[Slot(d)] = req[d].contents
              /\ UsesArchive(req[d]) => <<req[d].uid, req[d].contents>> \in images]_vars

\* Rollback never installs what no policy check saw: a text on disk that was not
\* there before is an accepted one, also after a rollback or a crash.
OnlyAcceptedTextsAppear ==
    [][\A s \in Slots : file'[s] # file[s] =>
          file'[s] \in Accepted \/ \E d \in Deployers : holder[s] = d /\ file'[s] = snapshot[d]]_vars

\* What the next deployment of s will find: while a deployer works on s and has
\* not committed, that is still the text it found itself.
Settled == [s \in Slots |->
    IF \E d \in Deployers : holder[s] = d /\ pc[d] \in Installed
    THEN snapshot[CHOOSE d \in Deployers : holder[s] = d]
    ELSE file[s]]

Transactions == INSTANCE DeploymentTransaction WITH settled <- Settled

\* Every behaviour of deploy() and its rollback, by any number of deployers, is
\* a sequence of transactions on single Quadlets: all of install, reload,
\* restart, verification, restore and the steps between them either amounts to
\* one commit of the deployer's own text or to nothing, unless the deployer
\* dies or says that install or restore failed.
Transaction == Transactions!Spec

\* The lock of a slot does not stay with one deployer: every path through
\* deploy() and rollback_error() ends and closes the lock file.
HeldLockIsReleased ==
    \A s \in Slots, d \in Deployers : (holder[s] = d) ~> (holder[s] # d)

\* What README.md says of a failed installation ("atomically install"): an
\* installation that reports an error has not changed the installed Quadlet.
FailedInstallChangesNothing ==
    [][\A d \in Deployers :
          pc[d] = "install" /\ pc'[d] = "install_failed" => file' = file]_vars

\* What README.md says of rollback ("systemd-aware"): a rolled back deployment
\* does not leave the revision it withdrew running.
RollbackWithdrawsRevision ==
    [][\A d \in Deployers :
          pc[d] = "rbReload" /\ pc'[d] = "rolled_back" =>
              running'[Slot(d)] \in {snapshot[d], Absent}]_vars
=============================================================================
