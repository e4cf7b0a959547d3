------------------------------ MODULE StagedFile ------------------------------
(***************************************************************************)
(* Opening and reading a file below the staging root while others stage    *)
(* files there: open_staged_regular_file and read_staged_regular_file of   *)
(* the example service, open_staged_image_archive of the orchestrator and  *)
(* the upload of the archive by PodmanClient::load_image_archive_fd.       *)
(*                                                                         *)
(* One request per behaviour.  A "quadlet" is opened and read by the       *)
(* service; an "image" is opened and checked by the service, closed, and   *)
(* opened again by the orchestrator under the relative path; a "library"   *)
(* request is an image archive handed to the orchestrator directly, and a  *)
(* "client" one an archive for PodmanClient::load_image_archive, which any *)
(* path may name.  Each system call is a step.  Data comes in chunks; a    *)
(* chunk is its position.                                                  *)
(***************************************************************************)
EXTENDS StagedPath, FiniteSets

CONSTANTS
    Roots,       \* staging roots of the configuration
    Requested,   \* paths of requests
    Kind,        \* "dir", "file", "fifo" or "link" for each inode
    Target,      \* what each symbolic link points to
    Top,         \* the directory the staging root denotes
    StagedDirs,  \* Top and the directories below it
    Staged,      \* inodes that may be staged
    Tree,        \* the directory entries to start with
    Length,      \* chunks of each file to start with
    None,        \* no such entry, nothing open
    MaxQuadlet,  \* Config::max_quadlet_size, in chunks
    MaxArchive,  \* DeploymentOptions::max_image_archive_bytes, in chunks
    MaxLength,   \* bound: chunks of a file
    MaxChanges   \* bound: changes to the staging tree during the request

Files == {i \in DOMAIN Kind : Kind[i] = "file"}

ASSUME StagedFileAssumption ==
    /\ \A p \in Roots \cup Requested : IsPath(p)
    /\ Top \in StagedDirs
    /\ \A d \in StagedDirs : Kind[d] = "dir"
    /\ Staged \subseteq DOMAIN Kind /\ None \notin DOMAIN Kind
    /\ \A i \in Staged : Kind[i] = "dir" => i \in StagedDirs
    /\ MaxQuadlet \in Nat /\ MaxArchive \in Nat /\ MaxLength \in Nat /\ MaxChanges \in Nat
    /\ Tree = [e \in DOMAIN Tree |-> Tree[e]]
    /\ \A e \in DOMAIN Tree : e[1] \in StagedDirs => Tree[e] \in Staged \cup {None}
    /\ Length \in [Files -> 0..MaxLength]

Callers == {"quadlet", "image", "library", "client"}

VARIABLES
    root,     \* Config::staging_root and DeploymentOptions::image_archive_root
    caller,   \* what the request is
    opener,   \* whose code runs: "service", "orchestrator" or "client"
    path,     \* the path that code was given, then the relative path it found
    pc,       \* its next call, or how the request ended
    todo,     \* names still to be opened
    cur,      \* the directory opened last
    fd,       \* the file opened, or None
    size,     \* st_size of the file when it was opened
    offset,   \* position of the next read
    got,      \* the chunks read so far
    entry,    \* the inode each name in each directory denotes
    length,   \* chunks of each file
    changes   \* changes to the staging tree so far

\* History: entries the staging tree has had, as <<directory, name, inode>>.
VARIABLE been

requestVars == <<root, caller, opener, path, pc, todo, cur, fd, size, offset, got>>
treeVars    == <<entry, length, changes, been>>
vars        == <<requestVars, treeVars>>

Ended == {"rejected", "failed", "done"}

Limit == CASE caller = "quadlet" -> MaxQuadlet
           [] caller = "client" -> MaxLength
           [] OTHER -> MaxArchive

\* What the name to be opened next denotes.
Here == IF <<cur, Head(todo)>> \in DOMAIN entry THEN entry[<<cur, Head(todo)>>] ELSE None

KindHere == IF Here = None THEN "none" ELSE Kind[Here]

Goto(step) == pc' = step

\* An error is returned; the destructors close what is open.
Fail(outcome) ==
    /\ Goto(outcome)
    /\ fd' = None
    /\ UNCHANGED <<root, caller, opener, path, todo, cur, size, offset, got, treeVars>>
-----------------------------------------------------------------------------
Init ==
    /\ root \in Roots
    /\ caller \in Callers
    /\ opener = CASE caller \in {"quadlet", "image"} -> "service"
                  [] caller = "library" -> "orchestrator"
                  [] caller = "client" -> "client"
    /\ path \in IF caller = "client" THEN {Relative(<<>>)} ELSE Requested
    /\ pc = "check"
    /\ todo = <<>>
    /\ cur = None
    /\ fd = None
    /\ size = 0
    /\ offset = 0
    /\ got = <<>>
    /\ entry = Tree
    /\ length = Length
    /\ changes = 0
    /\ been = {<<e[1], e[2], Tree[e]>> : e \in {x \in DOMAIN Tree : x[1] \in StagedDirs}}

RelativeNames(p) ==
    IF opener = "service" THEN StagedRelativePath(root, p) ELSE RelativeStagedPath(root, p)

CheckPath ==
    /\ pc = "check" /\ opener # "client"
    /\ RelativeNames(path) # Refused
    /\ todo' = RelativeNames(path)
    /\ path' = Relative(todo')
    /\ Goto("root")
    /\ UNCHANGED <<root, caller, opener, cur, fd, size, offset, got, treeVars>>

RejectPath ==
    /\ pc = "check" /\ opener # "client"
    /\ RelativeNames(path) = Refused
    /\ Fail("rejected")

OpenRoot ==
    /\ pc = "root"
    /\ cur' = Top
    /\ Goto("walk")
    /\ UNCHANGED <<root, caller, opener, path, todo, fd, size, offset, got, treeVars>>

\* The staging root is missing, or a symbolic link.
OpenRootFails == pc = "root" /\ Fail("failed")

\* openat with O_DIRECTORY and O_NOFOLLOW
OpenDirectory ==
    /\ pc = "walk"
    /\ Len(todo) > 1
    /\ KindHere = "dir"
    /\ cur' = Here
    /\ todo' = Tail(todo)
    /\ UNCHANGED <<root, caller, opener, path, pc, fd, size, offset, got, treeVars>>

OpenDirectoryFails ==
    /\ pc = "walk"
    /\ Len(todo) > 1
    /\ KindHere # "dir"
    /\ Fail("failed")

\* The orchestrator looks at the last name before it opens it.
StatFile ==
    /\ pc = "walk" /\ opener = "orchestrator"
    /\ Len(todo) = 1
    /\ KindHere = "file"
    /\ length[Here] <= Limit
    /\ Goto("open")
    /\ UNCHANGED <<root, caller, opener, path, todo, cur, fd, size, offset, got, treeVars>>

StatFileFails ==
    /\ pc = "walk" /\ opener = "orchestrator"
    /\ Len(todo) = 1
    /\ KindHere = "file" => length[Here] > Limit
    /\ Fail("failed")

Opening ==
    /\ Len(todo) = 1
    /\ \/ pc = "walk" /\ opener = "service"
       \/ pc = "open"

Opened(i) ==
    /\ fd' = i
    /\ Goto("fstat")
    /\ UNCHANGED <<root, caller, opener, path, todo, cur, size, offset, got, treeVars>>

\* Mutant: without O_NOFOLLOW.
OpenFile_Follows ==
    /\ Opening
    /\ KindHere # "none"
    /\ KindHere = "fifo" => opener = "orchestrator"
    /\ Opened(IF KindHere = "link" THEN Target[Here] ELSE Here)

\* Mutant: the orchestrator too opens without O_NONBLOCK.
OpenFile_Blocks ==
    /\ Opening
    /\ KindHere \in {"file", "dir"}
    /\ Opened(Here)

\* openat with O_NOFOLLOW.  A directory can be opened for reading; so can a FIFO
\* by the orchestrator, which adds O_NONBLOCK.
OpenFile ==
    /\ Opening
    /\ KindHere \in {"file", "dir", "fifo"}
    /\ KindHere = "fifo" => opener = "orchestrator"
    /\ Opened(Here)

\* Without O_NONBLOCK, openat returns when somebody opens the FIFO for writing.
OpenFifo ==
    \/ Opening /\ KindHere = "fifo" /\ Opened(Here)
    \/ /\ pc = "check" /\ opener = "client"
       /\ \E i \in DOMAIN Kind : Kind[i] = "fifo" /\ Opened(i)

OpenFileFails ==
    /\ Opening
    /\ KindHere \in {"none", "link"}
    /\ Fail("failed")

\* load_image_archive opens any path, of which only the last name may not be a
\* symbolic link.
OpenArchive ==
    /\ pc = "check" /\ opener = "client"
    /\ \E i \in DOMAIN Kind : Kind[i] \in {"file", "dir"} /\ Opened(i)

OpenArchiveFails == pc = "check" /\ opener = "client" /\ Fail("failed")

Usable == Kind[fd] = "file" /\ length[fd] <= Limit

\* The descriptor is a regular file of acceptable size: the service goes on to
\* read a Quadlet, or closes an archive and leaves the rest to the orchestrator.
Fstat ==
    /\ pc = "fstat"
    /\ Usable
    /\ caller = "quadlet" \/ opener # "service"
    /\ size' = length[fd]
    /\ Goto(IF caller = "quadlet" THEN "read" ELSE "upload")
    /\ UNCHANGED <<root, caller, opener, path, todo, cur, fd, offset, got, treeVars>>

FstatFails == pc = "fstat" /\ ~Usable /\ Fail("failed")

\* ImageArchive::path is the relative path the service has found.
HandOver ==
    /\ pc = "fstat"
    /\ Usable
    /\ caller = "image" /\ opener = "service"
    /\ opener' = "orchestrator"
    /\ fd' = None
    /\ todo' = <<>>
    /\ cur' = None
    /\ Goto("check")
    /\ UNCHANGED <<root, caller, path, size, offset, got, treeVars>>

\* After the wait for the lock: load_image_archive_fd compares the size with the
\* file as it is now.
StartUpload ==
    /\ pc = "upload"
    /\ Kind[fd] = "file" /\ size <= length[fd]
    /\ Goto("send")
    /\ UNCHANGED <<root, caller, opener, path, todo, cur, fd, size, offset, got, treeVars>>

StartUploadFails ==
    /\ pc = "upload"
    /\ size > length[fd]
    /\ Fail("failed")

Min2(a, b) == IF a < b THEN a ELSE b

\* Chunks a read of up to n chunks can return.
Available(n) == Min2(n, IF offset < length[fd] THEN length[fd] - offset ELSE 0)

\* Mutant: the offset advances by what was asked for.
Read_Requested(n) ==
    /\ pc \in {"read", "send"}
    /\ n \in 1..(size - offset)
    /\ \E k \in 1..Available(n) :
          got' = got \o [j \in 1..k |-> offset + j]
    /\ offset' = offset + n
    /\ UNCHANGED <<root, caller, opener, path, pc, todo, cur, fd, size, treeVars>>

\* read or pread of n chunks returns k of them.
Read(n) ==
    /\ pc \in {"read", "send"}
    /\ n \in 1..(size - offset)
    /\ \E k \in 1..Available(n) :
          /\ got' = got \o [j \in 1..k |-> offset + j]
          /\ offset' = offset + k
    /\ UNCHANGED <<root, caller, opener, path, pc, todo, cur, fd, size, treeVars>>

\* The file has become shorter.  The service says so; the upload ends early and
\* no answer to a request whose body is incomplete is a success.
ReadEnds ==
    /\ pc \in {"read", "send"}
    /\ offset < size
    /\ Available(size) = 0
    /\ Fail("failed")

Finish ==
    /\ pc \in {"read", "send"}
    /\ offset >= size
    /\ Goto("done")
    /\ fd' = None
    /\ UNCHANGED <<root, caller, opener, path, todo, cur, size, offset, got, treeVars>>

\* A system call fails, or Podman does not take the archive, or not in time.
CallFails == pc \in {"fstat", "upload", "read", "send"} /\ Fail("failed")
-----------------------------------------------------------------------------
\* Others change the staging tree while the request is served.

Running == pc \notin Ended \cup {"check"}

\* rename, link, symlink, mkfifo or unlink: a name comes to denote another inode.
Replace(e, i) ==
    /\ Running
    /\ changes < MaxChanges
    /\ e \in DOMAIN entry /\ e[1] \in StagedDirs
    /\ changes' = changes + 1
    /\ entry' = [entry EXCEPT ![e] = i]
    /\ been' = been \cup {<<e[1], e[2], i>>}
    /\ UNCHANGED <<requestVars, length>>

\* A staged file is truncated or written further.
Resize(f, n) ==
    /\ Running
    /\ changes < MaxChanges
    /\ f \in Files \cap Staged
    /\ changes' = changes + 1
    /\ length' = [length EXCEPT ![f] = n]
    /\ UNCHANGED <<requestVars, entry, been>>

Ends == pc \in Ended /\ UNCHANGED vars
-----------------------------------------------------------------------------
\* The steps of the code that do not wait for anybody.
Step ==
    \/ CheckPath \/ RejectPath
    \/ OpenRoot \/ OpenRootFails \/ OpenDirectory \/ OpenDirectoryFails
    \/ StatFile \/ StatFileFails \/ OpenFile \/ OpenFileFails
    \/ OpenArchive \/ OpenArchiveFails \/ Fstat \/ FstatFails \/ HandOver
    \/ StartUpload \/ StartUploadFails
    \/ (\E n \in 1..MaxLength : Read(n)) \/ ReadEnds \/ Finish \/ CallFails

Next ==
    \/ Step \/ OpenFifo
    \/ \E e \in DOMAIN entry, i \in Staged \cup {None} : Replace(e, i)
    \/ \E f \in Files, n \in 0..MaxLength : Resize(f, n)
    \/ Ends

Spec == Init /\ [][Next]_vars

\* System calls on regular files and directories return; nobody has to open a
\* FIFO for writing.
FairSpec == Spec /\ WF_vars(Step)
-----------------------------------------------------------------------------
\* Properties.

\* What is read or uploaded is a regular file of acceptable size that was, under
\* the last name of the request, in a directory of the staging tree, whatever
\* was moved, replaced or linked between the steps of the walk.
OnlyStagedFiles ==
    pc \in {"read", "upload", "send"} /\ caller # "client" =>
        /\ fd \in Files /\ size <= Limit
        /\ <<cur, Head(todo), fd>> \in been

\* The names that are opened one after the other lead where the path leads, for
\* relative paths from the staging root; and the relative path the service puts
\* into the bundle is not refused by the orchestrator.
StagedPathsAgree ==
    [][/\ pc = "check" /\ pc' = "root" =>
              Lookup(Lookup(<<>>, root), path) = Lookup(<<>>, root) \o todo'
       /\ caller = "image" /\ opener = "orchestrator" => pc' # "rejected"]_vars

\* A Quadlet that was read, or an archive that was uploaded, has all chunks the
\* file had when it was opened, in order, although reads are short and the file
\* grows or shrinks before the wait for the lock, after it, or between reads.
ReadIsWhole == pc = "done" => got = [k \in 1..size |-> k]

\* Opening an archive from the library never blocks: a FIFO that takes the place
\* of the file after fstatat is opened with O_NONBLOCK and found out by fstat.
ArchiveOpenReturns == caller = "library" ~> pc \in Ended
===============================================================================
