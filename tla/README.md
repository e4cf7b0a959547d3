# Verification of pod-installer

TLA+ models, TLC runs and TLAPS proofs for the library and the example service
in `src/`. Paths below are relative to the repository.

## The system

A root-owned orchestrator deploys one Quadlet (`.container`) file, optionally with
an image archive, for a rootless Podman user: it loads the archive through the
user's Podman socket, writes the file below
`/etc/containers/systemd/users/<uid>/`, reloads the user's systemd manager,
restarts the generated unit, looks at its status, and rolls the file back when
that fails.

| Component | Code | State it keeps | Operations | Talks to |
|---|---|---|---|---|
| Deployment orchestrator | `src/deployment.cpp` | none between calls; a lock file per user and unit, held during `deploy()` | `deploy`, `rollback_error`, `lock_deployment`, `validate_deployment_bundle` | all of the below |
| Quadlet installer | `src/quadlet.cpp` 256-426, 640-736 | the Quadlet files and temporary files of each user | install, snapshot, restore, remove, expected_install | file system |
| Quadlet policy | `src/quadlet.cpp` 50-254, 428-636 | none | parse, validate | - |
| Staged archive | `src/deployment.cpp` 15-177 | none | open a file below the staging root | file system |
| systemctl controllers | `src/systemd.cpp` | none | daemon_reload, start, restart, stop, status; slice properties | child processes |
| D-Bus controller | `src/systemd_sdbus.cpp` | a pending job per call | the same, waiting for `JobRemoved` | the user's manager |
| Podman client | `src/podman_client.cpp` | none | ping, load image, container calls | HTTP over AF_UNIX |
| HTTP helpers | `src/http.cpp` | none | url_encode, url_decode | - |
| Target, socket | `src/target.cpp`, `src/socket_validation.cpp` | none | resolve uid, validate socket | passwd, file system |
| Container spec | `src/container_spec.cpp` | none | validate, to_json | - |
| Example service | `examples/orchestrator_service.cpp` | the stop flag | accept, parse, deploy, answer | a TCP client, the orchestrator |

Components interact by direct calls; what they share between threads and
processes is outside the program: the file system (Quadlets, temporary files,
lock files), one systemd manager per user and one Podman service per user.

What makes each correct, and what is hard about it:

* **Orchestrator.** A deployment either commits (its text is installed, loaded,
  running and healthy) or leaves the previous Quadlet installed and loaded. Hard:
  deployments of one unit, or of two units that share a manager, interleave; every
  call may fail or time out with or without effect; the process may die anywhere
  and keeps no journal; rollback has its own failures.
* **Installer.** A Quadlet is replaced in one step, is never torn, and an
  acknowledged replacement survives a power failure. Hard: threads share the pid
  used in temporary names; write, fsync and rename fail separately; renames are
  persisted late.
* **Policy.** Accepts only the sections and keys it lists, and permits with a flag what
  the flag is for. Hard: what the parser does not record, the policy does not see; one
  thing can be asked for by a key and by an argument, in many spellings.
* **Staged archive.** Opens only regular files below the root, and reads them whole.
  Hard: lexical normalisation and the boundary cases of paths; entries and files
  that change between the steps of a walk, the check of a file and its use.
* **Podman client.** Success means that this request was performed as it was meant.
  Hard: answers that are lost or late, requests served after the caller has given
  up, names and texts that pass through two encodings, fields and bytes that Podman
  drops or replaces without an error.
* **Controllers.** Report the end of the job they started and the state after it.
  Hard: a signal that overtakes the reply, a late answer after a timeout, a status
  read in pieces, children that never end.
* **Service.** Acts on whole requests only, says what it did, and stops when told.
  Hard: one `recv` of any length, blocking calls without timeout, signals at any
  moment.

## Modules

| Module | What it is |
|---|---|
| `Deployment` | `deploy()` and `rollback_error()` by several deployers, one action per external call and outcome; the flock; the manager; crashes. |
| `DeploymentTransaction` | the abstract deployment `Deployment` implements: the Quadlet of a user changes in one step, or not at all. |
| `QuadletInstaller` | the installer's operations, one action per system call; directory, inodes, what is durable; process crashes and power failures. |
| `AtomicFile` | the abstract file the installer implements: replaced in one step, one whole text after a power failure. |
| `UnitJob` | the D-Bus controller: calls, replies, `JobRemoved` signals, timeouts and status reads of several callers, with the manager's job queue as environment. |
| `SystemctlProcess` | the systemctl controllers: fork, exec, pipe, read and wait of several threads, with systemctl as environment. |
| `QuadletPolicy` | the parser as a machine reading a line per step, the policy as a predicate on what it recorded. |
| `StagedPath` | the paths of requests: normal form, the part below the staging root, what the service and the orchestrator refuse. |
| `StagedFile` | opening and reading below the staging root, one action per system call, for the service, the orchestrator and the client, while others change the tree. |
| `ExampleService` | the main loop of the service, the parsing of what one `recv` returned, the bundle and the answer; clients and signals. |
| `TextCodecs` | percent encoding and JSON strings, byte by byte, in both directions. |
| `ContainerSpec` | the validation of a container specification, its JSON body, and what Podman reads from it. |
| `PodmanClient` | the calls of several threads to one Podman, which may serve them late or never, and its containers. |
| `DeploymentProofs`, `InstallerProofs`, `UnitJobProofs`, `SystemctlProofs`, `PolicyProofs`, `StagedFileProofs`, `ServiceProofs`, `PodmanProofs` | theorems about `Deployment`, `QuadletInstaller`, `UnitJob`, `SystemctlProcess`, `QuadletPolicy`, `StagedFile`, `ExampleService` and `PodmanClient`, for all values of their constants. |
| `MCDeployment`, `MCQuadletInstaller`, `MCUnitJob`, `MCQuadletPolicy`, `MCStagedFile`, `MCExampleService`, `MCPodmanClient` | values of the constants for TLC. |

`Deployment` stands on the others: one step of it for an installation is justified
by `AtomicFile`; its outcomes of a restart, with and without effect, are those
`UnitJob` and `SystemctlProcess` produce; its accepted texts are those `QuadletPolicy`
accepts; its archive is opened, and uploaded under the lock, as `StagedFile` has it,
through a client whose success means what `PodmanClient` says; that a call returns,
the fairness it assumes, is `CallReturns` of `UnitJob` and, if systemctl does its
work, of `SystemctlProcess`. `ExampleService` stands on `Deployment`, whose outcome it
leaves open, and on `StagedFile` for the Quadlet and the archive. `StagedFile` extends
`StagedPath`; `PodmanClient` extends `ContainerSpec`, which extends `TextCodecs`.

### Deployment

`pc[d]` is the next external call of the deployer `d`, in the order of the code:
`lock`, `socket`, `image`, `snapshot`, `install`, `reload`, then `restart` and
`verify`, or `status` when `restart_unit` is off; `restore`, `rbReload`, `rbRestart`,
`rbVerify` are the calls of `rollback_error`. Between calls of `deploy()` it is the
way the last one ended. Everything before the lock (null controller, verifier,
bundle, passwd, policy, archive) has no side effect and is one condition,
`Admissible`. `BundleVerifier::verify` accepts every bundle and does not
appear. A *slot* is a user and a unit: the file name determines the unit and
the lock file is named after both, so one slot is one Quadlet, one unit and one
lock. A text stands for the revision it describes, so `file`, `loaded` (by the
manager) and `running` can be compared.

Calls that fail may have had their effect: a failed reload may have reloaded, a
failed restart leaves the old revision, the new one or neither, a failed image load
may have imported, a failed install or restore may have renamed. The unit may stop
or be started at any time (`UnitChanges`: automatic restarts, jobs that outlive
their timeout), and the manager may reload for other reasons (`ManagerReloads`).
`Crash` ends a deployer anywhere; the kernel drops its flock and nothing else
happens.

The history variables say what is promised: `committed` is the text of the last
deployment that returned success; `suspect` has the slots where since then a
deployer died with its text installed, an install failed or a restore failed;
`stale` those where one of these, or a failed rollback reload, left a change that
no reload followed.

`DeploymentTransaction` is what a caller may rely on: the text of a slot changes in
one step to a committed one, or a deployment that failed in its install or its
restore, or died, leaves one text behind and the slot is suspect. It has no lock
and no rollback. `Deployment` implements it (property `Transaction`) with
`settled <- Settled`: a slot nobody is working on has its file; while a deployer is
between install and outcome it has the text that deployer would restore, because
that is the one to be found if it fails.

### QuadletInstaller

One Quadlet of one user. Names map to inodes (`dir`); `pending` has every value a
name may have on disk, `synced` the inodes whose data is there. `fsync` of the
directory makes `pending` exact. A power failure picks any pending value for each
name separately and drops any chunks of unsynced inodes; this is weaker than what
journaling file systems give. The user's directory is created by
`create_directories` (quadlet.cpp:258) and its entry is never fsynced in the parent:
`tree = "fresh"`, which a power failure may take away with everything in it, an
acknowledged Quadlet too. `treeLost` records that this has happened, and
`AcknowledgedSurvives` names it as its one exception: until the next acknowledged
operation the Quadlet may then be missing, though an older text never returns. The code
leaves this open; no document of the repository says what survives a power failure, so it
is a hazard and not a finding. The workers do not use the
deployment lock: the installer is a public interface, and what it promises should
not depend on its callers. Not in the model: the size limit on reading, files that
other programs edit in place, and the reopening of directories by path.

`AtomicFile` is the interface: with `text <- TextOf(dir[Final])` and `durable <-` the
texts that may be on disk, every behaviour of `QuadletInstaller` is one of
`AtomicFile` (run `installer`, property `AtomicReplacement`). This justifies
installing and restoring in one step in `Deployment`.

### UnitJob

`unit_job_and_wait` subscribes to `JobRemoved`, calls the manager, stores the job's
path from the reply in `*expected_job`, and only then starts the event loop, waits
for the signal of this path until a timeout and leaves the loop; the status is
then read property by property on further connections. `queued[c]` has the signals on
the connection that the loop has not dispatched: a job may end before the reply
is received, and its signal is kept until `Dispatch`. `expected` and `promise` are the
variables of the code, `out` the `UnitStatus` being gathered. The manager and its
other clients are environment, with systemd's rules for mode `replace`: a request
becomes a new job, is merged with a compatible one of the unit or cancels an
incompatible one; jobs end as done or failed, or never; units stop, start and lose
their definition; calls fail with or without having queued a job. `seenHealthy` is
the history of whether the unit was loaded and active at some moment of the
status read. There is no distinction between a property that cannot be read and
a unit that cannot be loaded.

### SystemctlProcess

Each operation is a script of one or two processes (`Script`): `run_process` for
reload, slice properties and the first half of start, stop and restart,
`run_process_capture` for the status. Between `fork` and `exec` a child holds a copy
of every write end in the process, those of other threads too; `writers[t]` has all
the holders of the pipe of `t`, and end of output is when it is empty. A read
error leaves the child unreaped (`zombies`), as in the code. `reading` has the threads
whose read end is open: a systemctl that writes to a pipe nobody can read ends. A systemctl prints
only into a pipe with room and succeeds only after printing everything; it can
fail at any time. The text of the answer is a number of chunks.

### QuadletPolicy

`text` is what was read so far, `entries` what `ParsedQuadlet::add` was given; each
reachable state is a text within `Bounds`, on which the verdict of
`validate_quadlet_policy` (`Accepts`, for each policy) is compared with the text
itself, by definitions that do not use the parser's record. A line stands for its
class and a value for what the searches in the code find in it; trimming, case
folding and the characters of file names are not modelled. The value of `PodmanArgs=` is
not a class but a sequence of pieces, options, words, quotes, backslashes, spaces and "=",
which `Split` takes apart as `split_podman_args` does.

`ArgumentsFollowKeys` compares what is asked for by an argument with the key for the same,
for every flag and every spelling `denied_podman_arg` knows. It does not know `--rootfs`,
which asks for what `Rootfs=` is refused for, nor `-v` with its value attached: a policy
with `allow_podman_args` and without `allow_root_mount` accepts both. The instance has
them; the property does not claim they are refused, and they are listed as a hazard. The
default policy refuses `PodmanArgs=` altogether. `PermissionsAreSeparate` says that each
flag decides about what it names and nothing else: a flag checked in the place of another
violates it.

### StagedPath and StagedFile

A path is its names, with an empty last one for a trailing slash. `Normal` is
`lexically_normal`; `Lookup`, which only properties use, is where the kernel's rule
would lead. Both are folds over the names; `Put` and `Go` are what one name does.
`IsPath` says what a path is. The root is compared with its trailing slash, if it has one, so that no
absolute path is below `/r/`: such requests are refused, as in the code.

`caller` is the kind of request and `opener` whose code runs. A Quadlet is opened,
measured and read by the service. An archive is opened and checked by the service,
closed (`HandOver`), and opened again by the orchestrator by the relative path, this
time with a look at the last name before it is opened (`StatFile`) and with
`O_NONBLOCK`. A FIFO opened without it waits for a writer (`OpenFifo`). `pc = "upload"`
is the wait for the lock; `StartUpload` compares the size of the archive with the file
as it is by then. A read returns any part of what was asked for. Between any two
calls `Replace` lets a name denote another inode, and `Resize` lets a file grow or
shrink. Not in the model: files overwritten in place, and owners and permissions.

### ExampleService

`pc` is the next call of the main loop. A request is a sequence of words, so that
`recv` can return any beginning of it up to the size of the buffer; what arrives later is
never read. `ParseRequest` is `parse_request_line` and `parse_query`. `Gather` has every
step of `handle_deploy_bundle` up to `deploy()` that may end in an error, and
`DeployReturns` every outcome of `deploy()`, a failure with or without effect.
`deployed` and `effects` are the history of its calls. A signal sets the flag and
interrupts `poll`, the only call of the loop that is not restarted. An error of
`poll` or `accept` ends the loop (`ListenerFails`).

### PodmanClient, ContainerSpec and TextCodecs

`Call` refuses what the code refuses or puts the request, encoded as the code does,
on the `wire`; `Serve` decodes it as Podman would and answers with the status its API
documents. `GiveUp` is every error of libcurl, the timeout among them: the request may be
lost or may still be served. `made` has the calls in the order in which they were made, a
call's number being its place in it; `performed` is the history of what Podman did, by
that number. The text of a query or body is not assembled; its fields are
encoded and decoded one by one, each byte by its rule.

What Podman reads is not the inverse of what the client writes (all of this is external
to the repository):

* Its JSON decoder, that of Go, replaces every byte that is not part of a character of
  UTF-8 by U+FFFD (`Utf8`). The client copies such bytes as they are, so an argument, label
  or filter that is not UTF-8 arrives changed and the call succeeds. The properties say of
  a text that it arrives if it is UTF-8 (`Kept`); of others nothing is promised anywhere.
* `SpecOf` reads the fields Podman's SpecGenerator has. It has no `security_opt`, which the
  client writes (container_spec.cpp:249), so this field is dropped without an error.
  `KeptSpec` leaves it out, by name; every other field has to arrive.
* A name in a path is percent-encoded, but dots are not: of the names "", "." and "..", alone or between
  slashes, libcurl and the router make another path (`Dissolves`), at which there is no
  container: the call fails.

`SuccessWasDone` and `CreatedAsAsked` compare what Podman did with the call that was made
(`made[n]`), not with what the client sent.

## Runs

| Run | Instance | What it shows |
|---|---|---|
| `contention` | 2 deployers, 1 user, 1 unit, 2 texts; with and without archive and restart | to its callers `deploy()` is a transaction; at rest the file is the committed one and loaded; health is judged on the deployer's own revision; success means installed, loaded, running and imported |
| `requests` | 1 deployer, every reason to refuse, both ways through `deploy()`, fairness | no text appears that the policy did not accept or that was not there before; every lock taken is released |
| `installer` | 2 threads with one pid, 3 calls, 1 power failure, 2 texts of 2 chunks, 2 temporary names | nothing torn is ever visible or on disk; temporary files are exclusive and cleaned up; snapshots are whole; acknowledged operations survive, but for the loss of a fresh directory; the installer implements `AtomicFile` |
| `jobs` | 1 caller, 1 unit, 3 jobs, all operations, fairness | the result and the status a caller gets are those of its own job, also when others merge with it or replace it; no signal is lost; a healthy status was real; every operation returns |
| `systemctl` | 2 threads, pipes of 1 chunk, answers of 2, fairness of threads | whole answers, neither end of a pipe leaked, no unreaped child but after a read error; a thread depends on the end of no child but its own; if the children do their work, no deadlock on a full pipe |
| `policy` | texts of up to 6 lines that vary sections, keys and labels, of up to 5 that vary values, and of up to 4 that vary arguments and their quoting; 19 policies | accepted texts have only allowed keys and exactly one managed label, and nothing of the host; arguments are judged as the keys for the same are; each permission decides about what it names and nothing else |
| `staging` | 2 roots, every path of up to 4 names, 9 inodes, 2 changes of the tree, files of up to 3 chunks, fairness | what is read is a staged regular file of acceptable size, and whole; the names opened are those the path means; service and orchestrator agree on them; opening an archive does not block |
| `service` | 2 clients, 6 requests of up to 7 words, a buffer of 6, fairness of the service | no part of a request is taken for the whole; the status sent is true; a signal ends the service |
| `podman` | 2 threads, 3 calls of every kind, names, texts and filters with the bytes that matter, in and outside UTF-8; threads are symmetric | a call that succeeds was performed, as the call that was made means it; every container is one that a call asked for, in all fields but `security_opt` |
| `empty_section` | violation | finding 3 |
| `failed_install` | violation | finding 1 |
| `withdrawn_revision` | violation | finding 2 |

Other deployments of the same user are part of `contention`: the reload of another
unit's deployment is `ManagerReloads`, and the theorems of `DeploymentProofs` hold for any
number of units that share a manager. Other callers on a unit are part of `jobs`: their
requests to the manager are `ForeignJob`.

Bounds. Two deployers suffice to interleave: the lock admits one per slot, and
further ones wait or work on other slots. One user: different users share nothing
in this code. Two texts tell a deployer's own from another's. Two chunks give a
partial file; two temporary names give a name that is taken, and the exhaustion of
all names. `MaxCalls` bounds the calls of the installer, `MaxPowerLosses` the power
failures, `Inodes` the file system. `MaxAttempts` is 100 in the code. `MaxJobs`
bounds the jobs of the manager: a caller's own, one before it and one that
replaces it. `Requested` restricts the operations of the callers; the jobs of others are of both kinds, those that replace and
those that merge. An answer longer than the pipe, and one chunk over, makes a
writer wait for its reader. `Bounds` has sets of lines with the length of a text
made of them: six lines admit a section that comes again after another, with keys
in each, and the values and policies reach each branch of the policy. A thread of
`SystemctlProcess` has at most one child it did not wait for. Two changes of the staging
tree (`MaxChanges`) fall into any two gaps between calls, so that what was moved away can be
put back; four names suffice to leave the root and come back. The limits `MaxQuadlet`
and `MaxArchive`, one and two chunks, and `MaxLength`, three, the bound on a file, let a file
be at a limit, beyond it, and pass it while it is open. Two
clients leave something behind for the next; `Buffer` is one word shorter than the
longest request. `MaxCalls` of `PodmanClient` bounds its calls: three are a container made, a
call given up and one that meets its late effect.

Fairness. `FairSpec` has weak fairness of each deployer's own steps: every external
call returns. For the D-Bus controller (job timeout) and libcurl (total timeout)
the code ensures this; for `systemctl`, whose `waitpid` has no timeout, it is an
assumption about systemctl. Nothing is assumed of the order in which flock serves
its waiters, so nothing is claimed for a deployer that waits while others come and
go. `FairSpec` of `UnitJob` has the caller's thread and the event loop proceed and
timers expire; nothing is assumed of the manager. `FairSpec` of `SystemctlProcess` has
each thread proceed and nothing of any child; `CallReturns` has as its premise
`ChildrenWork`, that each systemctl prints and ends when its pipe permits. `FairSpec` of
`StagedFile` has system calls on files and directories return, and nobody open the
other end of a FIFO. `FairSpec` of `ExampleService` has the service's steps go on: `poll` has
a timeout, `deploy()` returns as above; a `recv` returns only if its client sends or
closes, which is the premise `ClientsGoOn` of `StopEndsService`, and a FIFO among the staged
files, which would block the service, is excluded. `ListenerFails` is not fair.

## Proofs

Each component with behaviour of its own has a module of theorems. They hold for any
number of threads, deployers, clients, units, texts, inodes, jobs and changes, and for any
length of a text, a file, a request or an answer. Each model names what it assumes of
its constants (`ConstantsAssumption`, `InstallerAssumption`,
`UnitJobAssumption`, `ProcessAssumption`, `PolicyAssumption`, `StagedFileAssumption`,
`ServiceAssumption`, `ClientAssumption`): bounds are numbers, markers such as `Absent`, `Torn`
and the `None` of the service are none of the values they stand beside, the staging tree is a tree at the
start, roots and requests are paths, a policy is a set of the options the code has, a call
has the types of the client's header. TLC evaluates them in every run. The theorems have no other hypothesis.

| Module | Theorems |
|---|---|
| `DeploymentProofs` | `TypeOK` with `WorksOnSlots`, `LockOwnership`, `RestingFileIsCommitted`, `RestingUnitIsLoaded`, `JudgedRevision`, `OnlyHolderWrites`, `OnlyAcceptedTextsAppear`, `SuccessIsVerified`; `Deployment` implements `DeploymentTransaction` (`Transaction`) |
| `InstallerProofs` | `TypeOK`, `NeverTorn`, `AcknowledgedSurvives`, `TempsAreOwned`, `SnapshotsAreWhole`, `RenamePublishesOwnText`; `QuadletInstaller` implements `AtomicFile` (`AtomicReplacement`) |
| `UnitJobProofs` | `TypeOK`, `OwnResult`, `NoLostSignal`, `StatusAfterJob`, `HealthyWasReal` |
| `SystemctlProofs` | `TypeOK`, `CaptureIsWhole`, `NothingLeaks` |
| `PolicyProofs` | `TypeOK`, `OnlyAllowedKeys`, `OneManagedLabel`, `NothingOfTheHost`, `ArgumentsFollowKeys`, `PermissionsAreSeparate` |
| `StagedFileProofs` | `OnlyStagedFiles`, `ReadIsWhole`, `StagedPathsAgree` |
| `ServiceProofs` | `ActsOnWholeRequest`, `AnswerIsTrue` |
| `PodmanProofs` | `SuccessWasDone`, `CreatedAsAsked`; the codecs are faithful (`CodecsAgree`) |

These are all the safety properties the passing runs check.
Each module has an inductive invariant `IInv`, the theorem `Invariant` (`LockIsOwned` and
the others from the lemma of the same name in `DeploymentProofs`), and one lemma per
action; the properties follow from `IInv`. Few of them are inductive by themselves. What
`IInv` adds:

* **Deployment.** That a slot at rest has its committed file depends on what the
  deployer knew before it released the lock. `Mine` says for each deployer what it knows
  of its slot at each step: before the install the file is the committed one, then its own
  text with the snapshot committed, after the restore the snapshot. `Resting` says of
  each slot that its holder is at work on it, or that it is at rest. The frame lemmas
  (`ThreadFrame`, `SlotFrame`, `SlotStep`) reduce a step to the deployer that takes it
  and its slot; `ReturnStep` and `KeepsLockStep` are the two ways a step ends. A
  daemon-reload changes other slots too; a frame allows it because it only sets
  `loaded` to `file`. The refinement rests on two facts: what `Settled` is of a slot
  depends only on the deployer at work there (`SettledValue`), so a step changes it at
  its own slot only (`SettlesOwnSlot`).
  `LockOwnership` (two deployers never hold one lock) has a theorem and no run: what it
  is good for, that nobody else writes while a deployer is at work and that each
  deployment is a transaction, is what `contention` checks.
* **Installer.** What is renamed to the Quadlet must be whole, on disk, and written by
  nobody. `Writer` ties each temporary name to the call that writes it: its inode has no
  other name, pending or visible, and no reader; how much of the text is in it follows
  the step. `Ownership` gives each temporary name at most one owner. `Reader` keeps the
  inode of a snapshot whole while it is read. The refinement shows for each system call
  that `text` and `durable` of `AtomicFile` change as one of its steps or not at all; the
  rename and the directory fsync are the ones that do.
* **D-Bus controller.** `JobInv` follows one job from the manager's answer to the promise:
  until the caller has its result, the result is pending or its signal is queued on the
  caller's connection. `StatusInv` follows the three reads of a status, which is why a
  mixture of two moments can look healthy only if the unit was.
* **systemctl.** `ThreadInv` accounts for every chunk (`output + piped = printed`) and
  every holder of a write end: at the end of output all chunks a successful child has
  printed were read.
* **Policy.** The properties speak of the lines, the policy of what was recorded.
  `RecordInv` and `SectionInv` say that without an error the entries are exactly the
  lines with a key, each in the section of the last header before it. For the permissions,
  `KeyPermitted` and `DeniedNames` look at one line: what a key asks for is permitted by its
  flag, and a line is refused for the lack of a flag only if it names what that flag is for
  (`DeniedForLack`).
* **Staged archive.** `WalkInv` keeps the walk inside the tree, `FileInv` says that what was
  opened had been the entry to be opened, `TreeInv` that the history `been` is complete;
  `ReadInv` that the chunks read are the first ones, each once. `PathInv`, beside `IInv`,
  says which paths arrive at a check: any path at the first, and at the orchestrator's
  check of a bundle one that the service has found (`Found`).
* **Service.** `FreshInv` and `QueueInv` say that nothing is deployed for a client that has
  not been served and that none is served twice; the truth of an answer needs both.
  `ActsOnWholeRequest` rests on a lemma about the parser (`PieceIsWhole`): a beginning of a
  request that parses has the same first line. The smallest end of a line exists because
  the order of the numbers is well founded.
* **Podman client.** `NumberInv` gives every call a number of its own in `made`, `WireInv`
  says that what is on the wire is the request of the call of its number, `PerformedInv`
  that what Podman performed is what that call means, `AnswerInv` and `SuccessInv` that an
  answer of success, on its way or received, is to a request that was performed, and
  `ContainerInv` that each container has the specification of a create performed.

`CodecsAgree` says of each request that is not refused that Podman reads from it what its
caller means (`Means`, the relation of `SuccessWasDone`), or answers it with an error
(`Unread`); the successes and the containers of the protocol are
the ones their callers meant because of it. Its exceptions are those of `Means`: texts that
are not UTF-8, and `security_opt`. It is about Podman's reading as `TextCodecs` and `ContainerSpec` have it. No
state occurs in it: it is a theorem about
the codecs, for texts of any length. An encoder is a concatenation (`FlattenSeq`), a decoder
a fold (`FoldLeft`), both recursive functions of the library. `FoldRuns` and `EachIs` turn
them into sequences of states and of texts, one per byte; `RunsOnce` says that there
is only one such sequence of states, `RunsAlong` that two texts in a row are decoded one
after the other. What remains is the code of one byte: `UrlByte`, `JsonByte` and `FilterByte`
follow the decoder through each kind of it. The round trips (`UrlRoundTrip`,
`JsonEscapesUndone`, `FilterEscapesUndone`) put the bytes together (`EachRuns`); `Utf8Keeps`
says that the decoder replaces nothing in a text that is UTF-8, which a valid name always is
(`NameIsUtf8`), and `SpecRoundTrip`
the fields of a body: that the keys of a map stay apart follows from the round trip of the
keys. The induction is over numbers in a set (`Induction`, from the well-foundedness of
`<`), since a principle with an operator parameter cannot be instantiated by the provers.

`StagedPathsAgree` is proved the same way, by induction over the names of a path.
`KeptPasses` and `LookupPasses` turn the two folds, lexical normalisation and the lookup
of the kernel, into sequences of states, one per name; `PutStep` follows both through
one name of each kind and `KeptLeads` through a path: the names left so far have no ".."
in them or the lookup need not be where they lead, and once a ".." is left in a
relative path none of the later names takes it away, so an accepted path never had one.
`Agrees` adds what surrounds it: a trailing slash of the root or the request is not
accepted with the rest, and of an absolute path what follows the root is what is opened
below it. `NotRefused` is the other half: safe names are their own normal form.

Model-checked only:

* Liveness, which needs fairness and ENABLED: `HeldLockIsReleased`, `CallReturns` of
  `UnitJob` and of `SystemctlProcess`, `EndOfChildIsEnough`, `ArchiveOpenReturns`,
  `StopEndsService`.

## Findings

1. `failed_install`: when the directory fsync after the rename fails, `install_for_user`
   returns an error with the new Quadlet in place, and `deploy()` (deployment.cpp:378)
   returns it without the rollback it performs for every later failure, although
   it holds the snapshot. Next to the README's "atomically install" and "roll back
   after post-install failures".
2. `withdrawn_revision`: rollback restarts the unit only when a Quadlet existed before
   and the restart had failed, and never stops it. After a failed first deployment
   the withdrawn revision may keep running without a Quadlet; after a failed reload
   it may keep running beside the restored one.
3. `empty_section`: `parse_quadlet` records a section when it adds a key to it
   (quadlet.cpp:528), so the policy never sees an unsupported section without
   keys, next to the README's "rejects unsupported sections and keys". systemd
   ignores such a section.

## Plan

The parts of the program with behaviour of their own are modelled, and the safety
properties the runs check are proved. What is left is to keep models and proofs in step
with the code.

The suite keeps to twelve runs: nine that pass, with forty properties between them, and
three expected violations of one property each.

## Not modelled

* Wording of errors and answers, logging, the command line of the service and the
  set-up of its listener (it fails before there is anything to go wrong, or succeeds).
* The service's JSON answers, of which nothing in the repository makes use; the
  version in the paths of the Podman API and the bodies of Podman's answers, which the
  client hands through.
* `HttpResponse::header`, which nothing in the library calls.
* Podman and libcurl beyond what is said above of how they read a path, a query and a body.
* Resolving users (`src/target.cpp`) and validating the socket
  (`src/socket_validation.cpp`) beyond their outcome: they read and change nothing.
* The contents of images, in-place changes to files, and permissions and owners of
  directories beyond the checks that decide an operation.
* The agreement of a Quadlet and an archive staged separately: `BundleVerifier::verify` is a
  TODO in the code and accepts everything.
