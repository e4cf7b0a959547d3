-------------------------- MODULE QuadletInstaller --------------------------
(***************************************************************************)
(* QuadletInstaller (src/src/quadlet.cpp) at the level of its system calls *)
(* on one Quadlet of one user: install_for_user, restore_for_user,         *)
(* remove_for_user and snapshot_for_user, run by threads that need not     *)
(* hold the deployment lock, on a file system that loses what was not      *)
(* fsynced when the power fails.                                           *)
(*                                                                         *)
(* A text is Chunks chunks long: write and read return after any chunk.    *)
(* An inode holds, for every chunk, the text it was written from, or Hole. *)
(***************************************************************************)
EXTENDS Naturals, FiniteSets

CONSTANTS
    Workers,      \* threads calling the installer
    Pids,         \* process ids
    PidOf,        \* the process of each thread
    Texts,        \* Quadlet texts that pass expected_install
    Chunks,       \* chunks per text
    MaxAttempts,  \* temporary names tried per call (100 in the code)
    Inodes,       \* bound: inodes of the file system
    MaxPowerLosses, \* bound: times the power fails
    MaxCalls,     \* bound: calls of the installer
    Trees,        \* states of the user's directory to start from
    Absent,       \* no file
    Hole,         \* a chunk never written, or lost
    Torn          \* a file that is not one whole text

ASSUME InstallerAssumption ==
    /\ PidOf \in [Workers -> Pids]
    /\ Chunks \in Nat \ {0}
    /\ MaxAttempts \in Nat \ {0} /\ MaxPowerLosses \in Nat /\ MaxCalls \in Nat
    /\ Trees \subseteq {"absent", "safe", "loose", "foreign"}
    /\ Absent \notin Texts \cup Inodes /\ Hole \notin Texts
    /\ Torn \notin Texts \cup {Absent, "none"}

\* Names in the user's directory: the Quadlet itself and
\* ".<name>.tmp.<pid>.<attempt>".
Final == <<"final">>
Temp(p, n) == <<"tmp", p, n>>
Temps == {Temp(p, n) : p \in Pids, n \in 0..(MaxAttempts - 1)}
Names == {Final} \cup Temps

Writing == {"create", "write", "fsync", "rename", "fsyncDir"}
Removing == {"unlink", "fsyncDir"}
Reading == {"lstat", "open", "read"}
Busy == {"tree"} \cup Writing \cup Removing \cup Reading

VARIABLES
    pc,       \* next system call of each worker, or how its last call ended
    op,       \* the operation being run: install, restore, remove, snapshot
    text,     \* the text each worker writes, or has read so far
    attempt,  \* next temporary name to try
    fd,       \* the inode each worker has open, or Absent
    offset,   \* chunks written or read so far
    snap,     \* the last snapshot of each worker: Absent (existed = false),
              \* a text, or "none"
    dir,      \* the inode each name denotes, or Absent
    pending,  \* the values each name may have on disk
    data,     \* the chunks of each inode
    synced,   \* inodes whose chunks are on disk
    tree,     \* the user's directory
    calls,    \* calls so far
    losses    \* power losses so far

\* History variables.
VARIABLES
    allowed,  \* texts installed since the last acknowledged operation, and the
              \* one that operation left
    treeLost, \* a power loss took the user's directory, whose own entry nobody
              \* had fsynced, and no operation has been acknowledged since
    orphans   \* temporary names whose worker died or could not unlink them

threadVars == <<pc, op, text, attempt, fd, offset, snap>>
diskVars   == <<dir, pending, data, synced>>
vars       == <<threadVars, diskVars, tree, calls, losses, allowed, treeLost, orphans>>
-----------------------------------------------------------------------------
Whole(i, t) == \A k \in 1..Chunks : data[i][k] = t

TextOf(i) ==
    CASE i = Absent -> Absent
      [] i # Absent /\ (\E t \in Texts : Whole(i, t)) -> data[i][1]
      [] OTHER -> Torn

\* The directory entry n now denotes i; disk may still have the old one.
Link(n, i) ==
    /\ dir' = [dir EXCEPT ![n] = i]
    /\ pending' = [pending EXCEPT ![n] = @ \cup {i}]

Tmp(w) == Temp(PidOf[w], attempt[w])

InUse(i) == (\E n \in Names : i \in pending[n]) \/ (\E w \in Workers : fd[w] = i)

Goto(w, step) == pc' = [pc EXCEPT ![w] = step]

\* The call returns and its file descriptors are closed.
Return(w, outcome) ==
    /\ Goto(w, outcome)
    /\ fd' = [fd EXCEPT ![w] = Absent]
    /\ offset' = [offset EXCEPT ![w] = 0]
    /\ attempt' = [attempt EXCEPT ![w] = 0]
    /\ text' = [text EXCEPT ![w] = Absent]
    /\ op' = [op EXCEPT ![w] = "none"]
-----------------------------------------------------------------------------
Init ==
    /\ pc = [w \in Workers |-> "ok"]
    /\ op = [w \in Workers |-> "none"]
    /\ text = [w \in Workers |-> Absent]
    /\ attempt = [w \in Workers |-> 0]
    /\ fd = [w \in Workers |-> Absent]
    /\ offset = [w \in Workers |-> 0]
    /\ snap = [w \in Workers |-> "none"]
    /\ dir = [n \in Names |-> Absent]
    /\ pending = [n \in Names |-> {Absent}]
    /\ data = [i \in Inodes |-> [k \in 1..Chunks |-> Hole]]
    /\ synced = Inodes
    /\ tree \in Trees
    /\ calls = 0
    /\ losses = 0
    /\ allowed = {Absent}
    /\ treeLost = FALSE
    /\ orphans = {}

\* A worker calls the installer; restore_for_user gets back a snapshot the same
\* worker took.
Call(w, o, t) ==
    /\ pc[w] \notin Busy
    /\ calls < MaxCalls
    /\ calls' = calls + 1
    /\ Goto(w, "tree")
    /\ op' = [op EXCEPT ![w] = o]
    /\ text' = [text EXCEPT ![w] = t]
    /\ UNCHANGED <<attempt, fd, offset, snap, diskVars, tree, losses, allowed, treeLost, orphans>>

StartInstall(w) == \E t \in Texts : Call(w, "install", t)

StartRestore(w) == snap[w] # "none" /\ Call(w, "restore", snap[w])

StartRemove(w) == Call(w, "remove", Absent)

StartSnapshot(w) == Call(w, "snapshot", Absent)

\* What follows ensure_admin_tree in each operation.
FirstCall(w) ==
    CASE op[w] = "snapshot" -> "lstat"
      [] op[w] # "snapshot" /\ text[w] = Absent -> "unlink"
      [] OTHER -> "create"

\* ensure_admin_tree: the directory is created if it is missing and its mode is
\* set; a symbolic link or a directory of another owner is refused.
EnsureAdminTree(w) ==
    /\ pc[w] = "tree"
    /\ tree # "foreign"
    /\ tree' = IF tree = "absent" THEN "fresh" ELSE IF tree = "loose" THEN "safe" ELSE tree
    /\ Goto(w, FirstCall(w))
    /\ UNCHANGED <<op, text, attempt, fd, offset, snap, diskVars, calls, losses, allowed, treeLost, orphans>>

\* mkdir, chmod or stat fails, or the directory is not ours.
EnsureAdminTreeFails(w) ==
    /\ pc[w] = "tree"
    /\ Return(w, "error")
    /\ UNCHANGED <<snap, diskVars, tree, calls, losses, allowed, treeLost, orphans>>
-----------------------------------------------------------------------------
\* atomic_write_file

\* Mutant: O_TRUNC instead of O_EXCL.
CreateTemp_NotExclusive(w) ==
    /\ pc[w] = "create"
    /\ attempt[w] < MaxAttempts
    /\ \E i \in Inodes :
          /\ IF dir[Tmp(w)] = Absent THEN ~InUse(i) ELSE i = dir[Tmp(w)]
          /\ fd' = [fd EXCEPT ![w] = i]
          /\ Link(Tmp(w), i)
          /\ data' = [data EXCEPT ![i] = [k \in 1..Chunks |-> Hole]]
          /\ synced' = synced \ {i}
    /\ Goto(w, "write")
    /\ UNCHANGED <<op, text, attempt, offset, snap, tree, calls, losses, allowed, treeLost, orphans>>

\* openat(O_CREAT | O_EXCL) of the next candidate name.
CreateTemp(w) ==
    /\ pc[w] = "create"
    /\ attempt[w] < MaxAttempts
    /\ dir[Tmp(w)] = Absent
    /\ \E i \in Inodes :
          /\ ~InUse(i)
          /\ fd' = [fd EXCEPT ![w] = i]
          /\ Link(Tmp(w), i)
          /\ data' = [data EXCEPT ![i] = [k \in 1..Chunks |-> Hole]]
          /\ synced' = synced \ {i}
    /\ Goto(w, "write")
    /\ UNCHANGED <<op, text, attempt, offset, snap, tree, calls, losses, allowed, treeLost, orphans>>

\* EEXIST: the candidate is taken by another thread or left by a dead process.
NameTaken(w) ==
    /\ pc[w] = "create"
    /\ attempt[w] < MaxAttempts
    /\ dir[Tmp(w)] # Absent
    /\ attempt' = [attempt EXCEPT ![w] = @ + 1]
    /\ UNCHANGED <<pc, op, text, fd, offset, snap, diskVars, tree, calls, losses, allowed, treeLost, orphans>>

\* All candidates are taken, or openat fails otherwise.
CreateFails(w) ==
    /\ pc[w] = "create"
    /\ Return(w, "error")
    /\ UNCHANGED <<snap, diskVars, tree, calls, losses, allowed, treeLost, orphans>>

\* Mutant: a short write ends write_all.
WriteChunk_Short(w) ==
    /\ pc[w] = "write"
    /\ data' = [data EXCEPT ![fd[w]][offset[w] + 1] = text[w]]
    /\ synced' = synced \ {fd[w]}
    /\ offset' = [offset EXCEPT ![w] = @ + 1]
    /\ Goto(w, "fsync")
    /\ UNCHANGED <<op, text, attempt, fd, snap, dir, pending, tree, calls, losses, allowed, treeLost, orphans>>

\* Mutant: write_all counts one chunk too many.
WriteChunk_OffByOne(w) ==
    /\ pc[w] = "write"
    /\ data' = [data EXCEPT ![fd[w]] =
                  [k \in 1..Chunks |-> IF k = offset[w] + 1 THEN text[w] ELSE @[k]]]
    /\ synced' = synced \ {fd[w]}
    /\ offset' = [offset EXCEPT ![w] = @ + 1]
    /\ Goto(w, IF offset[w] = Chunks THEN "fsync" ELSE "write")
    /\ UNCHANGED <<op, text, attempt, fd, snap, dir, pending, tree, calls, losses, allowed, treeLost, orphans>>

\* write_all: one write() call.
WriteChunk(w) ==
    /\ pc[w] = "write"
    /\ data' = [data EXCEPT ![fd[w]][offset[w] + 1] = text[w]]
    /\ synced' = synced \ {fd[w]}
    /\ offset' = [offset EXCEPT ![w] = @ + 1]
    /\ Goto(w, IF offset[w] + 1 = Chunks THEN "fsync" ELSE "write")
    /\ UNCHANGED <<op, text, attempt, fd, snap, dir, pending, tree, calls, losses, allowed, treeLost, orphans>>

\* Mutant: the temporary file is closed without fsync.
FsyncTemp_Skipped(w) ==
    /\ pc[w] = "fsync"
    /\ fd' = [fd EXCEPT ![w] = Absent]
    /\ Goto(w, "rename")
    /\ UNCHANGED <<op, text, attempt, offset, snap, diskVars, tree, calls, losses, allowed, treeLost, orphans>>

FsyncTemp(w) ==
    /\ pc[w] = "fsync"
    /\ synced' = synced \cup {fd[w]}
    /\ fd' = [fd EXCEPT ![w] = Absent]
    /\ Goto(w, "rename")
    /\ UNCHANGED <<op, text, attempt, offset, snap, dir, pending, data, tree, calls, losses, allowed, treeLost, orphans>>

\* Mutant: the error path leaves the temporary file behind.
WriteFails_Leaks(w) ==
    /\ pc[w] \in {"write", "fsync", "rename"}
    /\ Return(w, "error")
    /\ UNCHANGED <<snap, diskVars, tree, calls, losses, allowed, treeLost, orphans>>

\* A failed write, fsync or rename: the temporary file is unlinked (a failure
\* of unlinkat is ignored) and the error returned.
WriteFails(w) ==
    /\ pc[w] \in {"write", "fsync", "rename"}
    /\ Return(w, "error")
    /\ \/ Link(Tmp(w), Absent) /\ UNCHANGED orphans
       \/ orphans' = orphans \cup {Tmp(w)} /\ UNCHANGED <<dir, pending>>
    /\ UNCHANGED <<snap, data, synced, tree, calls, losses, allowed, treeLost>>

RenameTemp(w) ==
    /\ pc[w] = "rename"
    /\ dir' = [dir EXCEPT ![Final] = dir[Tmp(w)], ![Tmp(w)] = Absent]
    /\ pending' = [pending EXCEPT ![Final] = @ \cup {dir[Tmp(w)]}, ![Tmp(w)] = @ \cup {Absent}]
    /\ allowed' = allowed \cup {text[w]}
    /\ Goto(w, "fsyncDir")
    /\ UNCHANGED <<op, text, attempt, fd, offset, snap, data, synced, tree, calls, losses, treeLost, orphans>>

\* Mutant: a removal returns without fsyncing the directory.
UnlinkFinal_NoFsync(w) ==
    /\ pc[w] = "unlink"
    /\ Link(Final, Absent)
    /\ allowed' = {Absent}
    /\ treeLost' = FALSE
    /\ Return(w, "ok")
    /\ UNCHANGED <<snap, data, synced, tree, calls, losses, orphans>>

\* unlink_quadlet_file; ENOENT is not an error.
UnlinkFinal(w) ==
    /\ pc[w] = "unlink"
    /\ Link(Final, Absent)
    /\ allowed' = allowed \cup {Absent}
    /\ Goto(w, "fsyncDir")
    /\ UNCHANGED <<op, text, attempt, fd, offset, snap, data, synced, tree, calls, losses, treeLost, orphans>>

UnlinkFails(w) ==
    /\ pc[w] = "unlink"
    /\ Return(w, "error")
    /\ UNCHANGED <<snap, diskVars, tree, calls, losses, allowed, treeLost, orphans>>

\* fsync_directory succeeds and the operation returns success.  The kernel
\* frees the inodes that no name can denote any more and nobody has open.
FsyncDirectory(w) ==
    /\ pc[w] = "fsyncDir"
    /\ pending' = [n \in Names |-> {dir[n]}]
    /\ LET freed == {i \in Inodes : /\ \A n \in Names : dir[n] # i
                                    /\ \A v \in Workers : fd[v] # i}
       IN  /\ data' = [i \in Inodes |-> IF i \in freed THEN [k \in 1..Chunks |-> Hole] ELSE data[i]]
           /\ synced' = synced \cup freed
    /\ allowed' = {TextOf(dir[Final])}
    /\ treeLost' = FALSE
    /\ Return(w, "ok")
    /\ UNCHANGED <<snap, dir, tree, calls, losses, orphans>>

\* The error is returned with the change already visible.
FsyncDirectoryFails(w) ==
    /\ pc[w] = "fsyncDir"
    /\ Return(w, "error")
    /\ UNCHANGED <<snap, diskVars, tree, calls, losses, allowed, treeLost, orphans>>
-----------------------------------------------------------------------------
\* snapshot_for_user

LstatFinal(w) ==
    /\ pc[w] = "lstat"
    /\ \/ /\ dir[Final] = Absent
          /\ snap' = [snap EXCEPT ![w] = Absent]
          /\ Return(w, "ok")
       \/ /\ dir[Final] # Absent
          /\ Goto(w, "open")
          /\ UNCHANGED <<op, text, attempt, fd, offset, snap>>
    /\ UNCHANGED <<diskVars, tree, calls, losses, allowed, treeLost, orphans>>

OpenFinal(w) ==
    /\ pc[w] = "open"
    /\ \/ /\ dir[Final] # Absent
          /\ fd' = [fd EXCEPT ![w] = dir[Final]]
          /\ Goto(w, "read")
          /\ UNCHANGED <<op, text, attempt, offset>>
       \/ /\ dir[Final] = Absent  \* removed since lstat: ENOENT
          /\ Return(w, "error")
    /\ UNCHANGED <<snap, diskVars, tree, calls, losses, allowed, treeLost, orphans>>

\* One read() call; text[w] gathers what has been read.  Reading nothing before
\* the size fstat reported is "Quadlet file changed while reading".
ReadChunk(w) ==
    LET chunk == data[fd[w]][offset[w] + 1]
        got   == IF offset[w] = 0 \/ text[w] = chunk THEN chunk ELSE Torn
        last  == chunk = Hole \/ offset[w] + 1 = Chunks
    IN  /\ pc[w] = "read"
        /\ \/ /\ last
              /\ Return(w, IF chunk = Hole THEN "changed" ELSE "ok")
              /\ snap' = [snap EXCEPT ![w] = IF chunk = Hole THEN @ ELSE got]
           \/ /\ ~last
              /\ text' = [text EXCEPT ![w] = got]
              /\ offset' = [offset EXCEPT ![w] = @ + 1]
              /\ UNCHANGED <<pc, op, attempt, fd, snap>>
        /\ UNCHANGED <<diskVars, tree, calls, losses, allowed, treeLost, orphans>>

SnapshotFails(w) ==
    /\ pc[w] \in Reading
    /\ Return(w, "error")
    /\ UNCHANGED <<snap, diskVars, tree, calls, losses, allowed, treeLost, orphans>>
-----------------------------------------------------------------------------
\* The environment.

\* Temporary names that lose their owner when the workers W stop.
Abandoned(W) == {Tmp(w) : w \in {v \in W : pc[v] \in {"write", "fsync", "rename"}}}

StopWorkers(W) ==
    /\ pc' = [w \in Workers |-> IF w \in W THEN "crashed" ELSE pc[w]]
    /\ fd' = [w \in Workers |-> IF w \in W THEN Absent ELSE fd[w]]
    /\ offset' = [w \in Workers |-> IF w \in W THEN 0 ELSE offset[w]]
    /\ attempt' = [w \in Workers |-> IF w \in W THEN 0 ELSE attempt[w]]
    /\ text' = [w \in Workers |-> IF w \in W THEN Absent ELSE text[w]]
    /\ snap' = [w \in Workers |-> IF w \in W THEN "none" ELSE snap[w]]
    /\ op' = [w \in Workers |-> IF w \in W THEN "none" ELSE op[w]]

\* A process dies with all its threads; its pid can be used again.
Crash(p) ==
    LET W == {w \in Workers : PidOf[w] = p}
    IN  /\ \E w \in W : pc[w] \in Busy
        /\ StopWorkers(W)
        /\ orphans' = orphans \cup Abandoned(W)
        /\ UNCHANGED <<diskVars, tree, calls, losses, allowed, treeLost>>

\* The power fails: every name has one of the values it may have on disk, an
\* inode not fsynced keeps any of its chunks, and a directory whose own entry was
\* never fsynced may be gone.
PowerLoss ==
    /\ losses < MaxPowerLosses
    /\ losses' = losses + 1
    /\ StopWorkers(Workers)
    /\ \E lost \in [Inodes \ synced -> SUBSET (1..Chunks)] :
          data' = [i \in Inodes |->
                     IF i \in synced THEN data[i]
                     ELSE [k \in 1..Chunks |-> IF k \in lost[i] THEN Hole ELSE data[i][k]]]
    /\ \/ /\ \E gone \in [Names -> Inodes \cup {Absent}] :
                /\ \A n \in Names : gone[n] \in pending[n]
                /\ dir' = gone
          /\ tree' = IF tree = "fresh" THEN "safe" ELSE tree
          /\ UNCHANGED treeLost
       \/ /\ tree = "fresh"
          /\ tree' = "absent"
          /\ dir' = [n \in Names |-> Absent]
          /\ treeLost' = TRUE
    /\ pending' = [n \in Names |-> {dir'[n]}]
    /\ synced' = Inodes
    /\ orphans' = {n \in Temps : dir'[n] # Absent}
    /\ UNCHANGED <<calls, allowed>>

\* The kernel writes the entry of a new directory back on its own.
WriteBackTree ==
    /\ tree = "fresh"
    /\ tree' = "safe"
    /\ UNCHANGED <<threadVars, diskVars, calls, losses, allowed, treeLost, orphans>>

\* Nobody calls the installer any more.
NoMoreCalls ==
    /\ calls = MaxCalls
    /\ \A w \in Workers : pc[w] \notin Busy
    /\ UNCHANGED vars
-----------------------------------------------------------------------------
Step(w) ==
    \/ EnsureAdminTree(w) \/ EnsureAdminTreeFails(w)
    \/ CreateTemp(w) \/ NameTaken(w) \/ CreateFails(w)
    \/ WriteChunk(w) \/ FsyncTemp(w) \/ WriteFails(w) \/ RenameTemp(w)
    \/ UnlinkFinal(w) \/ UnlinkFails(w)
    \/ FsyncDirectory(w) \/ FsyncDirectoryFails(w)
    \/ LstatFinal(w) \/ OpenFinal(w) \/ ReadChunk(w) \/ SnapshotFails(w)

Start(w) == StartInstall(w) \/ StartRestore(w) \/ StartRemove(w) \/ StartSnapshot(w)

Next ==
    \/ \E w \in Workers : Start(w) \/ Step(w)
    \/ \E p \in Pids : Crash(p)
    \/ PowerLoss \/ WriteBackTree
    \/ NoMoreCalls

Spec == Init /\ [][Next]_vars
-----------------------------------------------------------------------------
\* Properties.

Outcomes == {"ok", "error", "changed", "crashed"}

\* Type invariant of the installer's variables.
TypeOK ==
    /\ pc \in [Workers -> Busy \cup Outcomes]
    /\ op \in [Workers -> {"none", "install", "restore", "remove", "snapshot"}]
    /\ text \in [Workers -> Texts \cup {Absent}]
    /\ attempt \in [Workers -> 0..MaxAttempts]
    /\ fd \in [Workers -> Inodes \cup {Absent}]
    /\ offset \in [Workers -> 0..Chunks]
    /\ snap \in [Workers -> Texts \cup {Absent, "none"}]
    /\ dir \in [Names -> Inodes \cup {Absent}]
    /\ pending \in [Names -> SUBSET (Inodes \cup {Absent})]
    /\ data \in [Inodes -> [1..Chunks -> Texts \cup {Hole}]]
    /\ synced \subseteq Inodes
    /\ tree \in {"absent", "fresh", "safe", "loose", "foreign"}
    /\ calls \in 0..MaxCalls
    /\ losses \in 0..MaxPowerLosses
    /\ allowed \subseteq Texts \cup {Absent}
    /\ treeLost \in BOOLEAN
    /\ orphans \subseteq Temps

\* systemd and snapshot_for_user never find half a Quadlet, and neither does a
\* reader after a power loss, whoever else is installing, failing or crashing:
\* write_all and fsync on the temporary file come before renameat.
NeverTorn == \A i \in pending[Final] : TextOf(i) # Torn /\ (i # Absent => i \in synced)

\* Once install, restore or remove has returned success, the Quadlet is what that
\* operation left or what one not yet acknowledged has put there since, and no power
\* loss brings back an older text: fsync_directory comes before the return.  With one
\* exception the code leaves open: create_directories makes the user's directory and
\* nobody fsyncs its parent, so a power loss can take the directory away with an
\* acknowledged Quadlet in it; until the next acknowledged operation the Quadlet may
\* then be missing, but never an older text.
AcknowledgedSurvives ==
    \A i \in pending[Final] \cup {dir[Final]} :
        TextOf(i) \in allowed \/ (treeLost /\ i = Absent)

\* Nobody's renameat publishes the text of another worker, or of another attempt,
\* even when both run in one process and so share the pid of the temporary name:
\* O_EXCL and the retry over attempt keep the names apart.
RenamePublishesOwnText ==
    [][\A w \in Workers :
          pc[w] = "rename" /\ pc'[w] = "fsyncDir" => TextOf(dir[Final])' = text[w]]_vars

\* A temporary file belongs to one call that is still writing it, unless a crash
\* or a failing unlinkat orphaned it: every error path of atomic_write_file
\* cleans up, and only its own file.
TempsAreOwned ==
    \A n \in Temps : dir[n] # Absent /\ n \notin orphans =>
        Cardinality({w \in Workers : Tmp(w) = n /\ pc[w] \in {"write", "fsync", "rename"}}) = 1

\* A snapshot is one whole text although lstat, open and every read are separate
\* calls that a concurrent install or remove may fall between, and reading never
\* meets a file that shrinks.
SnapshotsAreWhole == \A w \in Workers : snap[w] # Torn /\ pc[w] # "changed"

\* The system calls together implement a file that is replaced in one step.
Durable == {TextOf(i) : i \in pending[Final]}
           \cup (IF tree = "fresh" THEN {Absent} ELSE {})

A == INSTANCE AtomicFile WITH text <- TextOf(dir[Final]), durable <- Durable

AtomicReplacement == A!Spec
=============================================================================
