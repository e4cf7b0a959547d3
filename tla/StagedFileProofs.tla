--------------------------- MODULE StagedFileProofs ---------------------------
(***************************************************************************)
(* What is read below the staging root is a staged file and is read whole, *)
(* for every staging tree, every path and any number of changes to the     *)
(* tree while the request is served.                                       *)
(*                                                                         *)
(* OnlyStagedFiles is not inductive: it speaks of a descriptor that fstat  *)
(* has accepted, and what that descriptor is depends on the walk that led  *)
(* to it.  The walk stays inside the tree (WalkInv) because openat does    *)
(* not follow a link, and what it opens was an entry of the tree (FileInv) *)
(* because `been` has every entry of the moment (TreeInv).  How a path is  *)
(* turned into names does not matter for them.                             *)
(*                                                                         *)
(* StagedPathsAgree is about nothing else.  Normalising a path and looking *)
(* it up are folds over its names; taken name by name (Passes) they go     *)
(* together: as long as no ".." is left, the kernel is where the names     *)
(* that are left lead (KeptLeads).  PathInv says which paths arrive.       *)
(***************************************************************************)
EXTENDS StagedFile, SequenceTheorems, WellFoundedInduction, TLAPS

Opens    == {"walk", "open"}
Accepted == {"read", "upload", "send"}
Holds    == {"fstat"} \cup Accepted

\* A client's archive is anywhere, whoever else asks goes through the tree.
CallerInv ==
    /\ caller \in Callers
    /\ opener \in {"service", "orchestrator", "client"}
    /\ (opener = "client") <=> (caller = "client")
    /\ pc \in {"check", "root"} \cup Opens \cup Holds \cup Ended
    /\ opener = "client" => pc \in {"check"} \cup Holds \cup Ended

\* In a directory of the staging tree there are staged inodes, and been knows them.
TreeInv ==
    /\ entry = [e \in DOMAIN Tree |-> entry[e]]
    /\ \A e \in DOMAIN Tree : e[1] \in StagedDirs =>
          /\ entry[e] \in Staged \cup {None}
          /\ <<e[1], e[2], entry[e]>> \in been
    /\ length \in [Files -> Nat]

\* The walk does not leave the staging tree.
WalkInv == opener # "client" /\ pc \in Opens \cup Holds => cur \in StagedDirs

\* What the walk opens has been the entry it was to open.
FileInv ==
    /\ pc \in Holds => fd \in DOMAIN Kind
    /\ opener # "client" /\ pc \in Holds => <<cur, Head(todo), fd>> \in been
    /\ pc \in Accepted => Kind[fd] = "file" /\ size <= Limit

\* The chunks read so far are the first ones, each once.
ReadInv ==
    /\ size \in Nat /\ offset \in 0..size
    /\ got = [k \in 1..offset |-> k]
    /\ pc \notin {"read", "send"} \cup Ended => offset = 0
    /\ pc = "done" => offset = size

IInv == CallerInv /\ TreeInv /\ WalkInv /\ FileInv /\ ReadInv
-----------------------------------------------------------------------------
\* The start, and steps that touch neither the tree nor what has been read.

LEMMA InitInv == Init => IInv
<1> SUFFICES ASSUME Init PROVE IInv
  OBVIOUS
<1>1. CallerInv
  BY DEF Init, CallerInv, Callers, Opens, Holds, Accepted, Ended
<1>2. TreeInv
  <2>1. Length \in [Files -> Nat]
    BY StagedFileAssumption
  <2>2. \A e \in DOMAIN Tree : e[1] \in StagedDirs => <<e[1], e[2], Tree[e]>> \in been
    BY DEF Init
  <2> QED
    BY <2>1, <2>2, StagedFileAssumption DEF Init, TreeInv
<1>3. WalkInv /\ FileInv
  BY DEF Init, WalkInv, FileInv, Opens, Holds, Accepted
<1>4. ReadInv
  <2>1. <<>> = [k \in 1..0 |-> k]
    OBVIOUS
  <2> QED
    BY <2>1 DEF Init, ReadInv, Ended
<1> QED
  BY <1>1, <1>2, <1>3, <1>4 DEF IInv

\* After an error nothing is open.
LEMMA FailStep ==
    ASSUME IInv, NEW outcome \in {"rejected", "failed"}, Fail(outcome)
    PROVE  IInv'
<1>1. pc' = outcome /\ UNCHANGED <<caller, opener, size, offset, got, treeVars>>
  BY DEF Fail, Goto
<1>2. CallerInv'
  BY <1>1 DEF IInv, CallerInv, Opens, Holds, Accepted, Ended
<1>3. TreeInv'
  BY <1>1 DEF IInv, TreeInv, treeVars
<1>4. WalkInv' /\ FileInv'
  BY <1>1 DEF WalkInv, FileInv, Opens, Holds, Accepted
<1>5. ReadInv'
  BY <1>1 DEF IInv, ReadInv, Ended
<1> QED
  BY <1>2, <1>3, <1>4, <1>5 DEF IInv

LEMMA RefusalsStep ==
    ASSUME IInv,
           \/ RejectPath \/ OpenRootFails \/ OpenDirectoryFails \/ StatFileFails \/ OpenFileFails
           \/ OpenArchiveFails \/ FstatFails \/ StartUploadFails \/ ReadEnds \/ CallFails
    PROVE  IInv'
<1>1. Fail("rejected") \/ Fail("failed")
  BY DEF RejectPath, OpenRootFails, OpenDirectoryFails, StatFileFails, OpenFileFails,
         OpenArchiveFails, FstatFails, StartUploadFails, ReadEnds, CallFails
<1> QED
  BY <1>1, FailStep

LEMMA CheckPathStep ==
    ASSUME IInv, CheckPath
    PROVE  IInv'
<1>1. pc' = "root" /\ opener # "client" /\ UNCHANGED <<caller, opener, size, offset, got, treeVars>>
      /\ pc = "check"
  BY DEF CheckPath, Goto
<1>2. CallerInv' /\ WalkInv' /\ FileInv'
  BY <1>1 DEF IInv, CallerInv, WalkInv, FileInv, Opens, Holds, Accepted, Ended
<1>3. TreeInv' /\ ReadInv'
  BY <1>1 DEF IInv, TreeInv, ReadInv, treeVars, Ended
<1> QED
  BY <1>2, <1>3 DEF IInv
-----------------------------------------------------------------------------
\* The walk.

\* What a name in a directory of the staging tree denotes is staged, and known.
LEMMA HereIsStaged ==
    ASSUME TreeInv, cur \in StagedDirs, KindHere # "none"
    PROVE  /\ Here \in Staged /\ Here \in DOMAIN Kind /\ KindHere = Kind[Here]
           /\ <<cur, Head(todo), Here>> \in been
<1> DEFINE e == <<cur, Head(todo)>>
<1>1. Here # None
  BY DEF KindHere
<1>2. e \in DOMAIN entry /\ Here = entry[e]
  BY <1>1 DEF Here
<1>3. e \in DOMAIN Tree
  BY <1>2 DEF TreeInv
<1>4. e[1] = cur /\ e[2] = Head(todo)
  OBVIOUS
<1>5. entry[e] \in Staged \cup {None} /\ <<e[1], e[2], entry[e]>> \in been
  BY <1>3, <1>4 DEF TreeInv
<1>6. Here \in Staged /\ <<cur, Head(todo), Here>> \in been
  BY <1>1, <1>2, <1>4, <1>5
<1> QED
  BY <1>1, <1>6, StagedFileAssumption DEF KindHere

LEMMA OpenRootStep ==
    ASSUME IInv, OpenRoot
    PROVE  IInv'
<1>1. pc = "root" /\ pc' = "walk" /\ cur' = Top /\ UNCHANGED <<caller, opener, size, offset, got, treeVars>>
  BY DEF OpenRoot, Goto
<1>2. CallerInv' /\ WalkInv' /\ FileInv'
  BY <1>1, StagedFileAssumption DEF IInv, CallerInv, WalkInv, FileInv, Opens, Holds, Accepted, Ended
<1>3. TreeInv' /\ ReadInv'
  BY <1>1 DEF IInv, TreeInv, ReadInv, treeVars, Ended
<1> QED
  BY <1>2, <1>3 DEF IInv

\* openat with O_NOFOLLOW opens a directory of the tree in a directory of the tree.
LEMMA OpenDirectoryStep ==
    ASSUME IInv, OpenDirectory
    PROVE  IInv'
<1>1. pc = "walk" /\ cur' = Here /\ KindHere = "dir"
      /\ UNCHANGED <<pc, caller, opener, size, offset, got, treeVars>>
  BY DEF OpenDirectory
<1>2. opener # "client" /\ cur \in StagedDirs
  BY <1>1 DEF IInv, CallerInv, WalkInv, Opens, Holds, Accepted, Ended
<1>3. Here \in StagedDirs
  BY <1>1, <1>2, HereIsStaged, StagedFileAssumption DEF IInv
<1>4. CallerInv' /\ WalkInv' /\ FileInv'
  BY <1>1, <1>3 DEF IInv, CallerInv, WalkInv, FileInv, Opens, Holds, Accepted, Ended
<1>5. TreeInv' /\ ReadInv'
  BY <1>1 DEF IInv, TreeInv, ReadInv, treeVars, Ended
<1> QED
  BY <1>4, <1>5 DEF IInv

LEMMA StatFileStep ==
    ASSUME IInv, StatFile
    PROVE  IInv'
<1>1. pc = "walk" /\ pc' = "open" /\ UNCHANGED <<caller, opener, cur, size, offset, got, treeVars>>
      /\ opener = "orchestrator"
  BY DEF StatFile, Goto
<1>2. CallerInv' /\ WalkInv' /\ FileInv'
  BY <1>1 DEF IInv, CallerInv, WalkInv, FileInv, Opens, Holds, Accepted, Ended
<1>3. TreeInv' /\ ReadInv'
  BY <1>1 DEF IInv, TreeInv, ReadInv, treeVars, Ended
<1> QED
  BY <1>2, <1>3 DEF IInv

\* Whichever way a file is opened, fstat finds out what it is.
LEMMA OpenedStep ==
    ASSUME IInv, NEW i \in DOMAIN Kind, Opened(i), pc \in {"check"} \cup Opens,
           opener = "client" \/ (cur \in StagedDirs /\ <<cur, Head(todo), i>> \in been)
    PROVE  IInv'
<1>1. pc' = "fstat" /\ fd' = i /\ UNCHANGED <<caller, opener, cur, todo, size, offset, got, treeVars>>
  BY DEF Opened, Goto
<1>2. CallerInv' /\ WalkInv' /\ FileInv'
  BY <1>1 DEF IInv, CallerInv, WalkInv, FileInv, Opens, Holds, Accepted, Ended, treeVars
<1>3. TreeInv' /\ ReadInv'
  BY <1>1 DEF IInv, TreeInv, ReadInv, treeVars, Ended, Opens
<1> QED
  BY <1>2, <1>3 DEF IInv

LEMMA OpenFileStep ==
    ASSUME IInv, OpenFile \/ OpenFifo \/ OpenArchive
    PROVE  IInv'
<1>1. CASE Opening /\ KindHere # "none" /\ Opened(Here)
  <2>1. pc \in Opens
    BY <1>1 DEF Opening, Opens
  <2>2. opener # "client" /\ cur \in StagedDirs
    BY <2>1 DEF IInv, CallerInv, WalkInv, Opens, Holds, Accepted, Ended
  <2> QED
    BY <1>1, <2>1, <2>2, HereIsStaged, OpenedStep DEF IInv
<1>2. CASE pc = "check" /\ opener = "client" /\ \E i \in DOMAIN Kind : Opened(i)
  BY <1>2, OpenedStep
<1>3. \/ Opening /\ KindHere # "none" /\ Opened(Here)
      \/ pc = "check" /\ opener = "client" /\ \E i \in DOMAIN Kind : Opened(i)
  BY DEF OpenFile, OpenFifo, OpenArchive
<1> QED
  BY <1>1, <1>2, <1>3
-----------------------------------------------------------------------------
\* What was opened is looked at, handed over and read.

\* fstat is of the descriptor: what it accepts is what will be read.
LEMMA FstatStep ==
    ASSUME IInv, Fstat
    PROVE  IInv'
<1>1. /\ pc = "fstat" /\ pc' \in {"read", "upload"} /\ size' = length[fd]
      /\ Kind[fd] = "file" /\ length[fd] <= Limit
      /\ UNCHANGED <<caller, opener, todo, cur, fd, offset, got, treeVars>>
  BY DEF Fstat, Goto, Usable
<1>2. fd \in Files /\ size' \in Nat
  BY <1>1 DEF IInv, FileInv, TreeInv, Files, Holds
<1>3. CallerInv' /\ WalkInv'
  BY <1>1 DEF IInv, CallerInv, WalkInv, Opens, Holds, Accepted, Ended
<1>4. FileInv'
  <2>1. Limit' = Limit
    BY <1>1 DEF Limit
  <2> QED
    BY <1>1, <2>1 DEF IInv, FileInv, Holds, Accepted, treeVars
<1>5. TreeInv'
  BY <1>1 DEF IInv, TreeInv, treeVars
<1>6. ReadInv'
  <2>1. offset = 0
    BY <1>1 DEF IInv, ReadInv, Ended
  <2> QED
    BY <1>1, <1>2, <2>1 DEF IInv, ReadInv, Ended
<1> QED
  BY <1>3, <1>4, <1>5, <1>6 DEF IInv

LEMMA HandOverStep ==
    ASSUME IInv, HandOver
    PROVE  IInv'
<1>1. /\ pc = "fstat" /\ pc' = "check" /\ opener' = "orchestrator" /\ caller = "image"
      /\ UNCHANGED <<caller, size, offset, got, treeVars>>
  BY DEF HandOver, Goto
<1>2. CallerInv' /\ WalkInv' /\ FileInv'
  BY <1>1 DEF IInv, CallerInv, WalkInv, FileInv, Opens, Holds, Accepted, Ended
<1>3. TreeInv' /\ ReadInv'
  BY <1>1 DEF IInv, TreeInv, ReadInv, treeVars, Ended
<1> QED
  BY <1>2, <1>3 DEF IInv

LEMMA StartUploadStep ==
    ASSUME IInv, StartUpload
    PROVE  IInv'
<1>1. pc = "upload" /\ pc' = "send"
      /\ UNCHANGED <<caller, opener, todo, cur, fd, size, offset, got, treeVars>>
  BY DEF StartUpload, Goto
<1>2. CallerInv' /\ WalkInv'
  BY <1>1 DEF IInv, CallerInv, WalkInv, Opens, Holds, Accepted, Ended
<1>3. FileInv'
  <2>1. Limit' = Limit
    BY <1>1 DEF Limit
  <2> QED
    BY <1>1, <2>1 DEF IInv, FileInv, Holds, Accepted, treeVars
<1>4. TreeInv' /\ ReadInv'
  BY <1>1 DEF IInv, TreeInv, ReadInv, treeVars, Ended
<1> QED
  BY <1>2, <1>3, <1>4 DEF IInv

\* Chunks that follow the first ones make longer first ones.
LEMMA Chunks ==
    ASSUME NEW m \in Nat, NEW k \in Nat
    PROVE  [j \in 1..m |-> j] \o [j \in 1..k |-> m + j] = [j \in 1..(m + k) |-> j]
<1> DEFINE s == [j \in 1..m |-> j]
           u == [j \in 1..k |-> m + j]
           w == [j \in 1..(m + k) |-> j]
<1>1. s \in Seq(Nat) /\ u \in Seq(Nat) /\ w \in Seq(Nat) /\ Len(s) = m /\ Len(u) = k /\ Len(w) = m + k
  OBVIOUS
<1>2. \A j \in 1..(m + k) : (s \o u)[j] = j
  BY <1>1
<1>3. s \o u \in Seq(Nat) /\ Len(s \o u) = m + k
  BY <1>1
<1> QED
  BY <1>1, <1>2, <1>3

\* A short read is continued where it ended.
LEMMA ReadStep ==
    ASSUME IInv, NEW n \in 1..MaxLength, Read(n)
    PROVE  IInv'
<1>1. /\ pc \in {"read", "send"} /\ n \in 1..(size - offset)
      /\ UNCHANGED <<caller, opener, pc, todo, cur, fd, size, treeVars>>
  BY DEF Read
<1>2. size \in Nat /\ offset \in 0..size /\ got = [k \in 1..offset |-> k]
  BY DEF IInv, ReadInv
<1>3. Available(n) \in Nat /\ Available(n) <= n
  <2>1. fd \in Files
    BY <1>1 DEF IInv, FileInv, Files, Holds, Accepted
  <2>2. length[fd] \in Nat
    BY <2>1 DEF IInv, TreeInv
  <2> QED
    BY <1>2, <2>2 DEF Available, Min2
<1>4. PICK k \in 1..Available(n) : /\ got' = got \o [j \in 1..k |-> offset + j]
                                   /\ offset' = offset + k
  BY DEF Read
<1>5. offset' \in 0..size /\ got' = [j \in 1..offset' |-> j]
  BY <1>1, <1>2, <1>3, <1>4, Chunks
<1>6. CallerInv' /\ WalkInv'
  BY <1>1 DEF IInv, CallerInv, WalkInv, Opens, Holds, Accepted, Ended
<1>7. FileInv'
  <2>1. Limit' = Limit
    BY <1>1 DEF Limit
  <2> QED
    BY <1>1, <2>1 DEF IInv, FileInv, Holds, Accepted, treeVars
<1>8. TreeInv' /\ ReadInv'
  BY <1>1, <1>2, <1>5 DEF IInv, TreeInv, ReadInv, treeVars, Ended
<1> QED
  BY <1>6, <1>7, <1>8 DEF IInv

LEMMA FinishStep ==
    ASSUME IInv, Finish
    PROVE  IInv'
<1>1. pc \in {"read", "send"} /\ pc' = "done" /\ offset >= size
      /\ UNCHANGED <<caller, opener, size, offset, got, treeVars>>
  BY DEF Finish, Goto
<1>2. CallerInv' /\ WalkInv' /\ FileInv'
  BY <1>1 DEF IInv, CallerInv, WalkInv, FileInv, Opens, Holds, Accepted, Ended
<1>3. TreeInv' /\ ReadInv'
  BY <1>1 DEF IInv, TreeInv, ReadInv, treeVars, Ended
<1> QED
  BY <1>2, <1>3 DEF IInv
-----------------------------------------------------------------------------
\* The tree changes under the request.

LEMMA RequestKept ==
    ASSUME IInv, UNCHANGED requestVars, been \subseteq been'
    PROVE  CallerInv' /\ WalkInv' /\ FileInv' /\ ReadInv'
<1>1. Limit' = Limit
  BY DEF Limit, requestVars
<1>2. CallerInv' /\ WalkInv' /\ ReadInv'
  BY DEF IInv, CallerInv, WalkInv, ReadInv, requestVars
<1>3. FileInv'
  BY <1>1 DEF IInv, FileInv, requestVars
<1> QED
  BY <1>2, <1>3

\* Another inode under the name leaves the descriptor what it was.
LEMMA ReplaceStep ==
    ASSUME IInv, NEW e \in DOMAIN entry, NEW i \in Staged \cup {None}, Replace(e, i)
    PROVE  IInv'
<1>1. /\ entry' = [entry EXCEPT ![e] = i] /\ been' = been \cup {<<e[1], e[2], i>>}
      /\ UNCHANGED <<requestVars, length>>
  BY DEF Replace
<1>2. entry = [x \in DOMAIN Tree |-> entry[x]] /\ e \in DOMAIN Tree
  BY DEF IInv, TreeInv
<1>3. entry' = [x \in DOMAIN Tree |-> IF x = e THEN i ELSE entry[x]]
  BY <1>1, <1>2
<1>4. \A x \in DOMAIN Tree : x[1] \in StagedDirs =>
          entry'[x] \in Staged \cup {None} /\ <<x[1], x[2], entry'[x]>> \in been'
  BY <1>1, <1>3 DEF IInv, TreeInv
<1>5. entry' = [x \in DOMAIN Tree |-> entry'[x]]
  BY <1>3
<1>6. TreeInv'
  BY <1>1, <1>4, <1>5 DEF IInv, TreeInv
<1> QED
  BY <1>1, <1>6, RequestKept DEF IInv

LEMMA ResizeStep ==
    ASSUME IInv, NEW f \in Files, NEW n \in 0..MaxLength, Resize(f, n)
    PROVE  IInv'
<1>1. length' = [length EXCEPT ![f] = n] /\ UNCHANGED <<requestVars, entry, been>>
  BY DEF Resize
<1>2. length' \in [Files -> Nat]
  BY <1>1, StagedFileAssumption DEF IInv, TreeInv
<1>3. TreeInv'
  BY <1>1, <1>2 DEF IInv, TreeInv
<1> QED
  BY <1>1, <1>3, RequestKept DEF IInv

LEMMA NextInv == IInv /\ [Next]_vars => IInv'
<1> SUFFICES ASSUME IInv, [Next]_vars PROVE IInv'
  OBVIOUS
<1>1. ASSUME Step PROVE IInv'
  BY <1>1, RefusalsStep, CheckPathStep, OpenRootStep, OpenDirectoryStep, StatFileStep, OpenFileStep,
     FstatStep, HandOverStep, StartUploadStep, ReadStep, FinishStep DEF Step
<1>2. ASSUME OpenFifo PROVE IInv'
  BY <1>2, OpenFileStep
<1>3. ASSUME NEW e \in DOMAIN entry, NEW i \in Staged \cup {None}, Replace(e, i) PROVE IInv'
  BY <1>3, ReplaceStep
<1>4. ASSUME NEW f \in Files, NEW n \in 0..MaxLength, Resize(f, n) PROVE IInv'
  BY <1>4, ResizeStep
<1>5. ASSUME UNCHANGED vars PROVE IInv'
  <2>1. UNCHANGED requestVars /\ UNCHANGED treeVars
    BY <1>5 DEF vars
  <2>2. TreeInv' /\ been \subseteq been'
    BY <2>1 DEF IInv, TreeInv, treeVars
  <2> QED
    BY <2>1, <2>2, RequestKept DEF IInv
<1> QED
  BY <1>1, <1>2, <1>3, <1>4, <1>5 DEF Next, Ends
-----------------------------------------------------------------------------
\* The invariant that the two properties follow from.
THEOREM Invariant == Spec => []IInv
<1> QED
  BY InitInv, NextInv, PTL DEF Spec

\* open_staged_regular_file and open_staged_image_archive: what is read or uploaded
\* is a regular file of acceptable size that was in the staging tree, however often
\* the tree changes and however deep it is.
THEOREM FilesAreStaged == Spec => []OnlyStagedFiles
<1>1. IInv => OnlyStagedFiles
  BY DEF IInv, CallerInv, FileInv, OnlyStagedFiles, Files, Holds, Accepted
<1> QED
  BY <1>1, Invariant, PTL

\* read_staged_regular_file and load_image_archive_fd: what was read or uploaded is
\* the file as long as it was when it was opened, whatever length reads have.
THEOREM ReadsAreWhole == Spec => []ReadIsWhole
<1>1. IInv => ReadIsWhole
  BY DEF IInv, ReadInv, ReadIsWhole
<1> QED
  BY <1>1, Invariant, PTL
-----------------------------------------------------------------------------
\* What std::filesystem::path consists of.

Name  == STRING
Names == Seq(Name)

LEMMA Induction ==
    ASSUME NEW S, 0 \in S, \A n \in Nat : n \in S => n + 1 \in S
    PROVE  \A n \in Nat : n \in S
<1> SUFFICES ASSUME NEW n \in Nat, n \notin S PROVE FALSE
  OBVIOUS
<1> DEFINE T == Nat \ S
<1>1. PICK m \in T : \A k \in T : <<k, m>> \notin OpToRel(<, Nat)
  <2>1. T \in SUBSET Nat /\ T # {}
    OBVIOUS
  <2> QED
    BY <2>1, WFMin, NatLessThanWellFounded, Zenon
<1>2. \A k \in T : ~(k < m)
  BY <1>1 DEF OpToRel
<1>3. m # 0 /\ m - 1 \in Nat /\ (m - 1) + 1 = m
  OBVIOUS
<1>4. m - 1 \in T
  BY <1>3
<1> QED
  BY <1>2, <1>4

LEMMA MaxIs ==
    ASSUME NEW n \in Nat, NEW s \in SUBSET (1..(n + 1)), n + 1 \in s
    PROVE  Max(s) = n + 1
<1>1. n + 1 \in s /\ \A y \in s : n + 1 >= y
  OBVIOUS
<1>2. Max(s) \in s /\ \A y \in s : Max(s) >= y
  BY <1>1 DEF Max
<1> DEFINE m == Max(s)
<1>3. m \in 1..(n + 1) /\ m >= n + 1
  BY <1>2
<1> HIDE DEF m
<1>4. m = n + 1
  BY <1>3
<1> QED
  BY <1>4 DEF m

LEMMA Ranges ==
    ASSUME NEW m \in Nat, NEW n \in 0..(m - 1)
    PROVE  /\ 1..(n + 1) \in SUBSET (1..m) /\ 1..(n + 1) # {} /\ (1..(n + 1)) \ {n + 1} = 1..n
           /\ Max(1..(n + 1)) = n + 1
<1>1. n \in Nat /\ n + 1 <= m
  OBVIOUS
<1>2. 1..(n + 1) \in SUBSET (1..m)
  BY <1>1
<1>3. n + 1 \in 1..(n + 1)
  BY <1>1
<1>4. \A k \in (1..(n + 1)) \ {n + 1} : k \in 1..n
  BY <1>1
<1>5. \A k \in 1..n : k \in 1..(n + 1) /\ k # n + 1
  BY <1>1
<1>6. (1..(n + 1)) \ {n + 1} = 1..n
  BY <1>4, <1>5, Zenon
<1>7. Max(1..(n + 1)) = n + 1
  BY <1>1, <1>3, MaxIs
<1> QED
  BY <1>2, <1>3, <1>6, <1>7, Zenon

\* step takes one state to the next at each name of t; h is where it is after each.
Steps(step) == \A s \in Names, n \in Name : step[s][n] \in Names

Passes(step, a, t, h) ==
    /\ h \in [0..Len(t) -> Names]
    /\ h[0] = a
    /\ \A k \in 1..Len(t) : h[k] = step[h[k - 1]][t[k]]

\* iter folds step over the parts of the first n names of t.
Folds(step, a, t, n, iter) ==
    /\ iter \in [SUBSET (1..n) -> Names]
    /\ \A s \in SUBSET (1..n) :
          /\ s # {} => Max(s) \in s
          /\ iter[s] = IF s = {} THEN a ELSE step[iter[s \ {Max(s)}]][t[Max(s)]]

LEMMA FoldExists ==
    ASSUME NEW step, Steps(step), NEW t \in Names, NEW a \in Names
    PROVE  \E iter : Folds(step, a, t, Len(t), iter)
<1> DEFINE S == {n \in Nat : n <= Len(t) => \E iter : Folds(step, a, t, n, iter)}
<1>1. 0 \in S
  <2> DEFINE iter == [s \in SUBSET (1..0) |-> a]
  <2>1. SUBSET (1..0) = {{}}
    OBVIOUS
  <2>2. \A s \in SUBSET (1..0) : s = {} /\ iter[s] = a
    BY <2>1
  <2> HIDE DEF iter
  <2>3. iter \in [SUBSET (1..0) -> Names]
    BY DEF iter
  <2>4. Folds(step, a, t, 0, iter)
    BY <2>2, <2>3 DEF Folds
  <2> QED
    BY <2>4
<1>2. ASSUME NEW n \in Nat, n \in S PROVE n + 1 \in S
  <2> SUFFICES ASSUME n + 1 <= Len(t) PROVE \E iter : Folds(step, a, t, n + 1, iter)
    OBVIOUS
  <2>1. PICK f : Folds(step, a, t, n, f)
    BY <1>2 DEF Names
  <2> DEFINE iter == [s \in SUBSET (1..(n + 1)) |->
                         IF n + 1 \in s THEN step[f[s \ {n + 1}]][t[n + 1]] ELSE f[s]]
  <2>2. \A s \in SUBSET (1..n) : s \in SUBSET (1..(n + 1)) /\ n + 1 \notin s /\ iter[s] = f[s] /\ iter[s] \in Names
    BY <2>1 DEF Folds
  <2>3. ASSUME NEW s \in SUBSET (1..(n + 1)), n + 1 \in s
        PROVE  /\ Max(s) = n + 1 /\ Max(s) \in s
               /\ iter[s] = step[iter[s \ {n + 1}]][t[n + 1]] /\ iter[s] \in Names
    <3>1. s \ {n + 1} \in SUBSET (1..n)
      OBVIOUS
    <3>2. Max(s) = n + 1
      BY <2>3, MaxIs
    <3>3. iter[s] = step[f[s \ {n + 1}]][t[n + 1]]
      BY <2>3
    <3>4. t[n + 1] \in Name
      BY DEF Names
    <3> HIDE DEF iter
    <3> QED
      BY <2>2, <2>3, <3>1, <3>2, <3>3, <3>4 DEF Steps
  <2>4. ASSUME NEW s \in SUBSET (1..(n + 1)), n + 1 \notin s
        PROVE  /\ s # {} => Max(s) \in s
               /\ iter[s] = IF s = {} THEN a ELSE step[iter[s \ {Max(s)}]][t[Max(s)]]
               /\ iter[s] \in Names
    <3>0. \A x \in s : x \in 1..n
      BY <2>4
    <3>1. s \in SUBSET (1..n) /\ \A x : s \ {x} \in SUBSET (1..n)
      BY <3>0, Zenon
    <3>2. iter[s] = f[s] /\ iter[s] \in Names /\ \A x : iter[s \ {x}] = f[s \ {x}]
      BY <3>1, <2>2
    <3> HIDE DEF iter
    <3> QED
      BY <2>1, <3>1, <3>2 DEF Folds
  <2>5. iter \in [SUBSET (1..(n + 1)) -> Names]
    BY <2>3, <2>4
  <2> HIDE DEF iter
  <2>6. Folds(step, a, t, n + 1, iter)
    <3> SUFFICES ASSUME NEW s \in SUBSET (1..(n + 1))
                 PROVE  /\ s # {} => Max(s) \in s
                        /\ iter[s] = IF s = {} THEN a ELSE step[iter[s \ {Max(s)}]][t[Max(s)]]
      BY <2>5 DEF Folds
    <3> QED
      BY <2>3, <2>4
  <2> QED
    BY <2>6
<1> HIDE DEF S
<1>3. \A n \in Nat : n \in S
  BY <1>1, <1>2, Induction
<1> QED
  BY <1>3 DEF S, Names

\* What is folded over the names are the states step passes.
LEMMA FoldPasses ==
    ASSUME NEW step, Steps(step), NEW t \in Names, NEW a \in Names, NEW iter,
           iter[{}] = a,
           \A n \in 0..(Len(t) - 1) : iter[1..n] \in Names =>
               iter[1..(n + 1)] = step[iter[1..n]][t[n + 1]]
    PROVE  \E h : Passes(step, a, t, h) /\ h[Len(t)] = iter[1..Len(t)]
<1> DEFINE S == {n \in Nat : n <= Len(t) => iter[1..n] \in Names}
           h == [n \in 0..Len(t) |-> iter[1..n]]
<1>0. 1..0 = {} /\ Len(t) \in Nat
  BY DEF Names
<1>1. 0 \in S
  BY <1>0
<1>2. ASSUME NEW n \in Nat, n \in S PROVE n + 1 \in S
  <2> SUFFICES ASSUME n + 1 <= Len(t) PROVE iter[1..(n + 1)] \in Names
    OBVIOUS
  <2>1. iter[1..n] \in Names /\ t[n + 1] \in Name /\ n \in 0..(Len(t) - 1)
    BY <1>2, <1>0 DEF Names
  <2> QED
    BY <2>1 DEF Steps
<1> HIDE DEF S
<1>3. \A n \in Nat : n \in S
  BY <1>1, <1>2, Induction
<1>4. \A n \in 0..Len(t) : iter[1..n] \in Names
  BY <1>0, <1>3 DEF S
<1>5. ASSUME NEW k \in 1..Len(t) PROVE h[k] = step[h[k - 1]][t[k]]
  <2>1. k - 1 \in 0..(Len(t) - 1) /\ k \in 0..Len(t) /\ k - 1 \in 0..Len(t) /\ (k - 1) + 1 = k
    BY <1>0
  <2>2. h[k] = iter[1..k] /\ h[k - 1] = iter[1..(k - 1)]
    BY <2>1
  <2>3. iter[1..((k - 1) + 1)] = step[iter[1..(k - 1)]][t[(k - 1) + 1]]
    BY <2>1, <1>4
  <2> QED
    BY <2>1, <2>2, <2>3
<1>6. h[0] = a /\ h[Len(t)] = iter[1..Len(t)] /\ h \in [0..Len(t) -> Names]
  BY <1>0, <1>4
<1> HIDE DEF h
<1>7. Passes(step, a, t, h)
  BY <1>5, <1>6 DEF Passes
<1> QED
  BY <1>6, <1>7
-----------------------------------------------------------------------------
\* Sequences of names.

LEMMA AppendIs ==
    ASSUME NEW S, NEW s \in Seq(S), NEW n \in S
    PROVE  /\ Append(s, n) \in Seq(S) /\ Len(s) \in Nat /\ Len(Append(s, n)) = Len(s) + 1
           /\ \A k \in 1..(Len(s) + 1) : Append(s, n)[k] = IF k <= Len(s) THEN s[k] ELSE n
OBVIOUS

LEMMA NamesAre ==
    ASSUME NEW s \in Names
    PROVE  /\ Len(s) \in Nat /\ DOMAIN s = 1..Len(s) /\ <<>> \in Names
           /\ s # <<>> => /\ Front(s) \in Names /\ Len(Front(s)) = Len(s) - 1 /\ Len(s) > 0
                          /\ \A k \in 1..(Len(s) - 1) : Front(s)[k] = s[k]
                          /\ Last(s) \in Name /\ Last(s) = s[Len(s)]
           /\ \A n \in Name : /\ Append(s, n) \in Names /\ Len(Append(s, n)) = Len(s) + 1
                                /\ Append(s, n)[Len(s) + 1] = n
                                /\ \A k \in 1..Len(s) : Append(s, n)[k] = s[k]
<1>1. s \in Seq(Name) /\ Len(s) \in Nat /\ DOMAIN s = 1..Len(s) /\ <<>> \in Seq(Name)
  BY DEF Names
<1>2. ASSUME s # <<>>
      PROVE  /\ Front(s) \in Names /\ Len(Front(s)) = Len(s) - 1 /\ Len(s) > 0
             /\ \A k \in 1..(Len(s) - 1) : Front(s)[k] = s[k]
             /\ Last(s) \in Name /\ Last(s) = s[Len(s)]
  <2>1. Len(s) > 0
    BY <1>1, <1>2, EmptySeq
  <2> QED
    BY <1>1, <2>1 DEF Front, Last, Names
<1>3. ASSUME NEW n \in Name
      PROVE  /\ Append(s, n) \in Names /\ Len(Append(s, n)) = Len(s) + 1
             /\ Append(s, n)[Len(s) + 1] = n /\ \A k \in 1..Len(s) : Append(s, n)[k] = s[k]
  <2> DEFINE u == Append(s, n)
  <2>1. /\ u \in Seq(Name) /\ Len(u) = Len(s) + 1
        /\ \A k \in 1..(Len(s) + 1) : u[k] = IF k <= Len(s) THEN s[k] ELSE n
    BY <1>1, AppendIs
  <2> HIDE DEF u
  <2>2. u \in Names /\ Len(u) = Len(s) + 1 /\ u[Len(s) + 1] = n /\ \A k \in 1..Len(s) : u[k] = s[k]
    BY <1>1, <2>1 DEF Names
  <2> QED
    BY <2>2 DEF u
<1> QED
  BY <1>1, <1>2, <1>3 DEF Names

Puts(absolute) == [names \in Names |-> [name \in Name |-> Put(absolute, names, name)]]

Goes == [dir \in Names |-> [name \in Name |-> Go(dir, name)]]

LEMMA PutsOf ==
    ASSUME NEW absolute
    PROVE  Steps(Puts(absolute)) /\ \A s \in Names, n \in Name : Puts(absolute)[s][n] = Put(absolute, s, n)
<1>1. ASSUME NEW s \in Names, NEW n \in Name PROVE Put(absolute, s, n) \in Names
  BY NamesAre DEF Put
<1> QED
  BY <1>1 DEF Steps, Puts

LEMMA GoesOf == Steps(Goes) /\ \A s \in Names, n \in Name : Goes[s][n] = Go(s, n)
<1>1. ASSUME NEW s \in Names, NEW n \in Name PROVE Go(s, n) \in Names
  BY NamesAre DEF Go
<1> QED
  BY <1>1 DEF Steps, Goes
-----------------------------------------------------------------------------
\* The two folds, unfolded.

LEMMA KeptPasses ==
    ASSUME NEW p, IsPath(p)
    PROVE  \E h : Passes(Puts(p.absolute), <<>>, p.names, h) /\ Kept(p) = h[Len(p.names)]
<1> DEFINE t == p.names
           absolute == p.absolute
           step == Puts(absolute)
           Folded(iter) == iter = [s \in SUBSET DOMAIN t |->
                IF s = {} THEN <<>> ELSE Put(absolute, iter[s \ {Max(s)}], t[Max(s)])]
           fold == CHOOSE iter : Folded(iter)
<1>1. Kept(p) = fold[DOMAIN t]
  BY DEF Kept, FoldLeft, MapThenFoldSet
<1>2. DOMAIN t = 1..Len(t) /\ Len(t) \in Nat /\ t \in Names /\ <<>> \in Names
  BY NamesAre DEF IsPath, Name, Names
<1> HIDE DEF t, absolute
<1>0. Steps(step) /\ \A s \in Names, n \in Name : step[s][n] = Put(absolute, s, n)
  BY PutsOf
<1> HIDE DEF step
<1>3. PICK f : Folds(step, <<>>, t, Len(t), f)
  BY <1>0, <1>2, FoldExists
<1>4. Folded(f)
  <2>1. ASSUME NEW s \in SUBSET DOMAIN t, s # {}
        PROVE  f[s] = Put(absolute, f[s \ {Max(s)}], t[Max(s)])
    <3>1. s \ {Max(s)} \in SUBSET (1..Len(t)) /\ Max(s) \in s
      BY <1>2, <1>3, <2>1 DEF Folds
    <3>2. f[s \ {Max(s)}] \in Names /\ t[Max(s)] \in Name
      BY <1>2, <1>3, <3>1 DEF Folds, Names
    <3> QED
      BY <1>2, <1>3, <2>1, <3>2, <1>0 DEF Folds
  <2>2. f[{}] = <<>> /\ f \in [SUBSET DOMAIN t -> Names]
    BY <1>2, <1>3 DEF Folds
  <2> QED
    BY <2>1, <2>2
<1>5. Folded(fold)
  BY <1>4
<1> HIDE DEF fold
<1>6. /\ fold[{}] = <<>>
      /\ \A s \in SUBSET DOMAIN t : s # {} => fold[s] = Put(absolute, fold[s \ {Max(s)}], t[Max(s)])
  BY <1>5
<1>7. ASSUME NEW n \in 0..(Len(t) - 1), fold[1..n] \in Names
      PROVE  fold[1..(n + 1)] = step[fold[1..n]][t[n + 1]]
  <2>1. Len(t) \in Nat /\ DOMAIN t = 1..Len(t)
    BY <1>2
  <2>2. /\ 1..(n + 1) \in SUBSET DOMAIN t /\ 1..(n + 1) # {} /\ (1..(n + 1)) \ {n + 1} = 1..n
        /\ Max(1..(n + 1)) = n + 1
    BY <2>1, Ranges, Zenon
  <2>3. t[n + 1] \in Name
    BY <1>2 DEF Names
  <2>4. fold[1..(n + 1)] = Put(absolute, fold[1..n], t[n + 1])
    BY <1>6, <2>2
  <2> QED
    BY <1>0, <1>7, <2>3, <2>4
<1>8. \E h : Passes(step, <<>>, t, h) /\ h[Len(t)] = fold[1..Len(t)]
  BY <1>0, <1>2, <1>6, <1>7, FoldPasses
<1> QED
  BY <1>1, <1>2, <1>8 DEF t, absolute, step

LEMMA LookupPasses ==
    ASSUME NEW p, IsPath(p), NEW from, NEW dir \in Names, dir = IF p.absolute THEN <<>> ELSE from
    PROVE  \E g : Passes(Goes, dir, p.names, g) /\ Lookup(from, p) = g[Len(p.names)]
<1> DEFINE t == p.names
           Folded(iter) == iter = [s \in SUBSET DOMAIN t |->
                IF s = {} THEN dir ELSE Go(iter[s \ {Max(s)}], t[Max(s)])]
           fold == CHOOSE iter : Folded(iter)
<1>1. Lookup(from, p) = fold[DOMAIN t]
  <2>1. Lookup(from, p) = FoldLeft(Go, dir, t)
    BY DEF Lookup
  <2>2. FoldLeft(Go, dir, t) = fold[DOMAIN t]
    BY DEF FoldLeft, MapThenFoldSet
  <2> QED
    BY <2>1, <2>2
<1>2. DOMAIN t = 1..Len(t) /\ Len(t) \in Nat /\ t \in Names
  BY NamesAre DEF IsPath, Name, Names
<1> HIDE DEF t
<1>3. PICK f : Folds(Goes, dir, t, Len(t), f)
  BY <1>2, GoesOf, FoldExists
<1>4. Folded(f)
  <2>1. ASSUME NEW s \in SUBSET DOMAIN t, s # {}
        PROVE  f[s] = Go(f[s \ {Max(s)}], t[Max(s)])
    <3>1. s \ {Max(s)} \in SUBSET (1..Len(t)) /\ Max(s) \in s
      BY <1>2, <1>3, <2>1 DEF Folds
    <3>2. f[s \ {Max(s)}] \in Names /\ t[Max(s)] \in Name
      BY <1>2, <1>3, <3>1 DEF Folds, Names
    <3> QED
      BY <1>2, <1>3, <2>1, <3>2, GoesOf DEF Folds
  <2>2. f[{}] = dir /\ f \in [SUBSET DOMAIN t -> Names]
    BY <1>2, <1>3 DEF Folds
  <2> QED
    BY <2>1, <2>2
<1>5. Folded(fold)
  BY <1>4
<1> HIDE DEF fold
<1>6. /\ fold[{}] = dir
      /\ \A s \in SUBSET DOMAIN t : s # {} => fold[s] = Go(fold[s \ {Max(s)}], t[Max(s)])
  BY <1>5
<1>7. ASSUME NEW n \in 0..(Len(t) - 1), fold[1..n] \in Names
      PROVE  fold[1..(n + 1)] = Goes[fold[1..n]][t[n + 1]]
  <2>1. Len(t) \in Nat /\ DOMAIN t = 1..Len(t)
    BY <1>2
  <2>2. /\ 1..(n + 1) \in SUBSET DOMAIN t /\ 1..(n + 1) # {} /\ (1..(n + 1)) \ {n + 1} = 1..n
        /\ Max(1..(n + 1)) = n + 1
    BY <2>1, Ranges, Zenon
  <2>3. t[n + 1] \in Name
    BY <1>2 DEF Names
  <2>4. fold[1..(n + 1)] = Go(fold[1..n], t[n + 1])
    BY <1>6, <2>2
  <2> QED
    BY <1>7, <2>3, <2>4, GoesOf
<1>8. \E h : Passes(Goes, dir, t, h) /\ h[Len(t)] = fold[1..Len(t)]
  BY <1>2, <1>6, <1>7, GoesOf, FoldPasses
<1> QED
  BY <1>1, <1>2, <1>8 DEF t
-----------------------------------------------------------------------------
\* Lexically and by the kernel a p goes the same way.

\* No name that normalisation removes, and no "..".
Fine(s) == \A k \in DOMAIN s : s[k] \notin {"", "."}
NoUp(s) == \A k \in DOMAIN s : s[k] # ".."

LEMMA FrontOfConcat ==
    ASSUME NEW d \in Names, NEW s \in Names, s # <<>>
    PROVE  d \o s # <<>> /\ Front(d \o s) = d \o Front(s)
<1> DEFINE u == d \o s
           f == Front(s)
           v == d \o f
           w == Front(u)
<1>1. /\ Len(d) \in Nat /\ Len(s) \in Nat /\ Len(s) > 0 /\ f \in Names /\ Len(f) = Len(s) - 1
      /\ \A k \in 1..(Len(s) - 1) : f[k] = s[k]
  BY NamesAre
<1> HIDE DEF f
<1>2. /\ u \in Names /\ Len(u) = Len(d) + Len(s)
      /\ \A k \in 1..(Len(d) + Len(s)) : u[k] = IF k <= Len(d) THEN d[k] ELSE s[k - Len(d)]
  BY ConcatProperties DEF Names
<1>3. /\ v \in Names /\ Len(v) = Len(d) + Len(f)
      /\ \A k \in 1..(Len(d) + Len(f)) : v[k] = IF k <= Len(d) THEN d[k] ELSE f[k - Len(d)]
  BY <1>1, ConcatProperties DEF Names
<1> HIDE DEF u, v
<1>4. u # <<>>
  <2>1. Len(<<>>) = 0 /\ Len(u) # 0
    BY <1>1, <1>2
  <2> QED
    BY <2>1, Zenon
<1>5. w \in Names /\ Len(w) = Len(u) - 1 /\ \A k \in 1..(Len(u) - 1) : w[k] = u[k]
  BY <1>2, <1>4, NamesAre
<1> HIDE DEF w
<1>6. Len(w) = Len(v)
  BY <1>1, <1>2, <1>3, <1>5
<1>7. ASSUME NEW k \in 1..Len(w) PROVE w[k] = v[k]
  <2>1. /\ k \in 1..(Len(u) - 1) /\ k \in 1..(Len(d) + Len(s)) /\ k \in 1..(Len(d) + Len(f))
        /\ k > Len(d) => k - Len(d) \in 1..(Len(s) - 1)
    BY <1>1, <1>2, <1>3, <1>5, <1>6
  <2>2. w[k] = u[k]
    BY <1>5, <2>1
  <2>3. CASE k <= Len(d)
    <3>1. u[k] = d[k] /\ v[k] = d[k]
      BY <1>2, <1>3, <2>1, <2>3
    <3> QED
      BY <2>2, <3>1
  <2>4. CASE ~(k <= Len(d))
    <3>1. u[k] = s[k - Len(d)] /\ v[k] = f[k - Len(d)] /\ k - Len(d) \in 1..(Len(s) - 1)
      BY <1>1, <1>2, <1>3, <2>1, <2>4
    <3> QED
      BY <1>1, <2>2, <3>1
  <2> QED
    BY <2>3, <2>4
<1>8. w = v
  BY <1>3, <1>5, <1>6, <1>7, SeqEqual DEF Names
<1> QED
  BY <1>4, <1>8 DEF u, v, w, f

LEMMA AppendOfConcat ==
    ASSUME NEW d \in Names, NEW s \in Names, NEW n \in Name
    PROVE  Append(d \o s, n) = d \o Append(s, n)
<1> DEFINE u == d \o s
           a == Append(s, n)
           v == d \o a
           w == Append(u, n)
<1>1. /\ Len(d) \in Nat /\ Len(s) \in Nat /\ a \in Names /\ Len(a) = Len(s) + 1
      /\ a[Len(s) + 1] = n /\ \A k \in 1..Len(s) : a[k] = s[k]
  BY NamesAre
<1> HIDE DEF a
<1>2. /\ u \in Names /\ Len(u) = Len(d) + Len(s)
      /\ \A k \in 1..(Len(d) + Len(s)) : u[k] = IF k <= Len(d) THEN d[k] ELSE s[k - Len(d)]
  BY ConcatProperties DEF Names
<1>3. /\ v \in Names /\ Len(v) = Len(d) + Len(a)
      /\ \A k \in 1..(Len(d) + Len(a)) : v[k] = IF k <= Len(d) THEN d[k] ELSE a[k - Len(d)]
  BY <1>1, ConcatProperties DEF Names
<1> HIDE DEF u, v
<1>4. w \in Names /\ Len(w) = Len(u) + 1 /\ w[Len(u) + 1] = n /\ \A k \in 1..Len(u) : w[k] = u[k]
  BY <1>2, NamesAre
<1> HIDE DEF w
<1>5. Len(w) = Len(v)
  BY <1>1, <1>2, <1>3, <1>4
<1>6. ASSUME NEW k \in 1..Len(w) PROVE w[k] = v[k]
  <2>1. CASE k = Len(u) + 1
    <3>1. w[k] = n /\ k \in 1..(Len(d) + Len(a)) /\ ~(k <= Len(d)) /\ k - Len(d) = Len(s) + 1
      BY <1>1, <1>2, <1>4, <2>1
    <3> QED
      BY <1>1, <1>3, <3>1
  <2>2. CASE k # Len(u) + 1
    <3>1. /\ k \in 1..Len(u) /\ k \in 1..(Len(d) + Len(s)) /\ k \in 1..(Len(d) + Len(a))
          /\ k > Len(d) => k - Len(d) \in 1..Len(s)
      BY <1>1, <1>2, <1>4, <2>2
    <3>2. w[k] = u[k]
      BY <1>4, <3>1
    <3>3. CASE k <= Len(d)
      <4>1. u[k] = d[k] /\ v[k] = d[k]
        BY <1>2, <1>3, <3>1, <3>3
      <4> QED
        BY <3>2, <4>1
    <3>4. CASE ~(k <= Len(d))
      <4>1. u[k] = s[k - Len(d)] /\ v[k] = a[k - Len(d)] /\ k - Len(d) \in 1..Len(s)
        BY <1>1, <1>2, <1>3, <3>1, <3>4
      <4> QED
        BY <1>1, <3>2, <4>1
    <3> QED
      BY <3>3, <3>4
  <2> QED
    BY <2>1, <2>2
<1>7. w = v
  BY <1>3, <1>4, <1>5, <1>6, SeqEqual DEF Names
<1> QED
  BY <1>7 DEF u, v, w, a

LEMMA FrontNames ==
    ASSUME NEW m \in Nat, NEW s, DOMAIN s = 1..m, NEW u, DOMAIN u = 1..(m - 1), \A k \in 1..(m - 1) : u[k] = s[k]
    PROVE  (Fine(s) => Fine(u)) /\ (NoUp(s) => NoUp(u))
           /\ (m > 0 /\ s[m] # ".." /\ NoUp(u) => NoUp(s))
<1>1. \A k \in DOMAIN u : k \in DOMAIN s /\ u[k] = s[k]
  OBVIOUS
<1>2. Fine(s) => Fine(u)
  BY <1>1 DEF Fine
<1>3. NoUp(s) => NoUp(u)
  BY <1>1 DEF NoUp
<1>4. \A k \in DOMAIN s : k = m \/ (k \in DOMAIN u /\ u[k] = s[k])
  OBVIOUS
<1>5. s[m] # ".." /\ NoUp(u) => NoUp(s)
  BY <1>4 DEF NoUp
<1> QED
  BY <1>2, <1>3, <1>5

\* The names s below the directory d.
From(d, s) == d \o s

LEMMA FromIs ==
    ASSUME NEW d \in Names, NEW s \in Names
    PROVE  /\ From(d, <<>>) = d /\ From(<<>>, s) = s
           /\ s # <<>> => From(d, s) # <<>> /\ Front(From(d, s)) = From(d, Front(s))
           /\ \A n \in Name : Append(From(d, s), n) = From(d, Append(s, n))
<1>1. From(d, <<>>) = d /\ From(<<>>, s) = s
  BY DEF From, Names
<1> QED
  BY <1>1, FrontOfConcat, AppendOfConcat DEF From

\* One name.  d is where the p starts, s what is left of the names before it.
LEMMA PutStep ==
    ASSUME NEW p, NEW d \in Names, p.absolute => d = <<>>,
           NEW s \in Names, NEW n \in Name, Fine(s), p.absolute => NoUp(s),
           NEW u, u = Put(p.absolute, s, n)
    PROVE  /\ Fine(u) /\ (p.absolute => NoUp(u))
           /\ NoUp(u) => (NoUp(s) /\ Go(From(d, s), n) = From(d, u))
<1>1. CASE n \in {"", "."}
  <2>1. u = s /\ Go(From(d, s), n) = From(d, s)
    BY <1>1 DEF Put, Go
  <2> QED
    BY <2>1
<1>2. CASE n = ".." /\ s # <<>> /\ Last(s) # ".."
  <2>1. u = Front(s)
    BY <1>2 DEF Put
  <2>2. /\ u \in Names /\ DOMAIN u = 1..(Len(s) - 1) /\ DOMAIN s = 1..Len(s) /\ Len(s) \in Nat
        /\ \A k \in 1..(Len(s) - 1) : u[k] = s[k]
    BY <1>2, <2>1, NamesAre
  <2>3. Fine(u) /\ (NoUp(s) => NoUp(u))
    BY <2>2, FrontNames
  <2>4. NoUp(u) => NoUp(s)
    <3>1. Last(s) = s[Len(s)] /\ Len(s) > 0
      BY <1>2, NamesAre
    <3>2. s[Len(s)] # ".."
      BY <1>2, <3>1
    <3> QED
      BY <2>2, <3>1, <3>2, FrontNames
  <2>5. Go(From(d, s), n) = From(d, u)
    BY <1>2, <2>1, FromIs DEF Go
  <2> QED
    BY <2>3, <2>4, <2>5
<1>3. CASE n = ".." /\ s = <<>> /\ p.absolute
  <2>1. u = s /\ From(d, s) = <<>> /\ From(d, u) = <<>>
    BY <1>3, FromIs DEF Put
  <2>2. Go(<<>>, n) = <<>>
    BY <1>3 DEF Go
  <2> QED
    BY <1>3, <2>1, <2>2
<1>4. CASE n = ".." /\ ((s = <<>> /\ ~p.absolute) \/ (s # <<>> /\ Last(s) = ".."))
  <2>1. ~p.absolute
    <3>1. ASSUME s # <<>>, Last(s) = ".." PROVE ~NoUp(s)
      BY <3>1, NamesAre DEF NoUp
    <3> QED
      BY <1>4, <3>1
  <2>2. u = Append(s, n)
    BY <1>4 DEF Put
  <2>3. /\ DOMAIN u = 1..(Len(s) + 1) /\ Len(s) \in Nat /\ DOMAIN s = 1..Len(s)
        /\ u[Len(s) + 1] = ".." /\ \A k \in 1..Len(s) : u[k] = s[k]
    BY <1>4, <2>2, NamesAre
  <2>4. ~NoUp(u)
    BY <2>3 DEF NoUp
  <2>5. Fine(u)
    <3>1. \A k \in DOMAIN u : u[k] = ".." \/ (k \in DOMAIN s /\ u[k] = s[k])
      BY <2>3
    <3> QED
      BY <3>1 DEF Fine
  <2> QED
    BY <2>1, <2>4, <2>5
<1>5. CASE n \notin {"", ".", ".."}
  <2>1. u = Append(s, n) /\ Go(From(d, s), n) = Append(From(d, s), n)
    BY <1>5 DEF Put, Go
  <2>2. /\ DOMAIN u = 1..(Len(s) + 1) /\ Len(s) \in Nat /\ DOMAIN s = 1..Len(s)
        /\ u[Len(s) + 1] = n /\ \A k \in 1..Len(s) : u[k] = s[k]
    BY <2>1, NamesAre
  <2>3. \A k \in DOMAIN u : u[k] = n \/ (k \in DOMAIN s /\ u[k] = s[k])
    BY <2>2
  <2>4. \A k \in DOMAIN s : k \in DOMAIN u /\ u[k] = s[k]
    BY <2>2
  <2>5. Fine(u)
    BY <1>5, <2>3 DEF Fine
  <2>6. NoUp(s) <=> NoUp(u)
    BY <1>5, <2>3, <2>4 DEF NoUp
  <2> QED
    BY <2>1, <2>5, <2>6, FromIs
<1> QED
  BY <1>1, <1>2, <1>3, <1>4, <1>5

\* If no ".." is left, the kernel finds what is left.
LEMMA KeptLeads ==
    ASSUME NEW p, IsPath(p), NEW from \in Names, NEW d, d = IF p.absolute THEN <<>> ELSE from
    PROVE  /\ Kept(p) \in Names /\ Fine(Kept(p)) /\ (p.absolute => NoUp(Kept(p)))
           /\ NoUp(Kept(p)) => Lookup(from, p) = From(d, Kept(p))
<1> DEFINE t == p.names
           absolute == p.absolute
<1>1. absolute \in BOOLEAN /\ t \in Names /\ d \in Names /\ (absolute => d = <<>>)
  BY NamesAre DEF IsPath, Names, Name
<1>2. PICK h : Passes(Puts(absolute), <<>>, t, h) /\ Kept(p) = h[Len(t)]
  BY KeptPasses
<1>3. PICK g : Passes(Goes, d, t, g) /\ Lookup(from, p) = g[Len(t)]
  BY <1>1, LookupPasses
<1> HIDE DEF t, absolute
<1> DEFINE Leads(k) == /\ Fine(h[k]) /\ (absolute => NoUp(h[k]))
                       /\ NoUp(h[k]) => g[k] = From(d, h[k])
           S == {k \in Nat : k <= Len(t) => Leads(k)}
<1>4. 0 \in S
  <2>1. h[0] = <<>> /\ g[0] = d /\ From(d, <<>>) = d
    BY <1>1, <1>2, <1>3, FromIs, NamesAre DEF Passes
  <2>2. Fine(<<>>) /\ NoUp(<<>>)
    BY DEF Fine, NoUp
  <2>3. Leads(0)
    BY <2>1, <2>2
  <2> QED
    BY <2>3
<1>0. Len(t) \in Nat
  BY <1>1, NamesAre
<1> HIDE DEF Leads
<1>5. ASSUME NEW k \in Nat, k \in S PROVE k + 1 \in S
  <2> SUFFICES ASSUME k + 1 <= Len(t) PROVE Leads(k + 1)
    OBVIOUS
  <2>1. Leads(k)
    BY <1>0, <1>5
  <2>2. /\ h[k] \in Names /\ g[k] \in Names /\ t[k + 1] \in Name
        /\ h[k + 1] = Puts(absolute)[h[k]][t[k + 1]] /\ g[k + 1] = Goes[g[k]][t[k + 1]]
    <3>1. k \in 0..Len(t) /\ k + 1 \in 1..Len(t) /\ (k + 1) - 1 = k
      BY <1>1, NamesAre
    <3>2. t[k + 1] \in Name
      BY <1>1, <3>1 DEF Names
    <3> QED
      BY <1>2, <1>3, <3>1, <3>2 DEF Passes
  <2>3. h[k + 1] = Put(absolute, h[k], t[k + 1]) /\ g[k + 1] = Go(g[k], t[k + 1])
    BY <2>2, PutsOf, GoesOf
  <2>4. /\ Fine(h[k + 1]) /\ (absolute => NoUp(h[k + 1]))
        /\ NoUp(h[k + 1]) => NoUp(h[k]) /\ Go(From(d, h[k]), t[k + 1]) = From(d, h[k + 1])
    <3> DEFINE s == h[k]
               n == t[k + 1]
               u == h[k + 1]
    <3>1. s \in Names /\ n \in Name /\ u = Put(absolute, s, n)
      BY <2>2, <2>3
    <3>2. Fine(s) /\ (absolute => NoUp(s))
      BY <2>1 DEF Leads
    <3> HIDE DEF s, n, u
    <3>3. Fine(u) /\ (absolute => NoUp(u)) /\ (NoUp(u) => NoUp(s) /\ Go(From(d, s), n) = From(d, u))
      BY <1>1, <3>1, <3>2, PutStep DEF absolute
    <3> QED
      BY <3>3 DEF s, n, u
  <2> QED
    BY <2>1, <2>3, <2>4 DEF Leads
<1> HIDE DEF S
<1>6. \A k \in Nat : k \in S
  BY <1>4, <1>5, Induction
<1>7. Leads(Len(t))
  BY <1>0, <1>6 DEF S
<1>8. h[Len(t)] \in Names
  BY <1>1, <1>2, NamesAre DEF Passes
<1> QED
  BY <1>2, <1>3, <1>7, <1>8 DEF absolute, Leads
-----------------------------------------------------------------------------
\* The paths.

\* The first k names of t.
Upto(t, k) == SubSeq(t, 1, k)

LEMMA Beginnings ==
    ASSUME NEW t \in Names
    PROVE  /\ Len(t) \in Nat /\ Upto(t, 0) = <<>> /\ Upto(t, Len(t)) = t
           /\ \A k \in 1..Len(t) : /\ k - 1 \in 0..Len(t) /\ t[k] \in Name /\ Upto(t, k - 1) \in Names
                                   /\ Upto(t, k) = Append(Upto(t, k - 1), t[k])
<1>1. t \in Seq(Name) /\ Len(t) \in Nat
  BY DEF Names
<1>2. SubSeq(t, 1, 0) = <<>> /\ SubSeq(t, 1, Len(t)) = t
  BY <1>1
<1>3. ASSUME NEW k \in 0..Len(t)
      PROVE  /\ SubSeq(t, 1, k) \in Names /\ Len(SubSeq(t, 1, k)) = k
             /\ \A i \in 1..k : SubSeq(t, 1, k)[i] = t[i]
  BY <1>1 DEF Names
<1>4. ASSUME NEW k \in 1..Len(t)
      PROVE  /\ k - 1 \in 0..Len(t) /\ t[k] \in Name /\ SubSeq(t, 1, k - 1) \in Names
             /\ SubSeq(t, 1, k) = Append(SubSeq(t, 1, k - 1), t[k])
  <2> DEFINE s == SubSeq(t, 1, k - 1)
             u == SubSeq(t, 1, k)
             v == Append(s, t[k])
  <2>1. k - 1 \in 0..Len(t) /\ k \in 0..Len(t) /\ k - 1 \in Nat /\ (k - 1) + 1 = k /\ t[k] \in Name
    BY <1>1
  <2>2. /\ s \in Names /\ Len(s) = k - 1 /\ \A i \in 1..(k - 1) : s[i] = t[i]
        /\ u \in Names /\ Len(u) = k /\ \A i \in 1..k : u[i] = t[i]
    BY <1>3, <2>1
  <2> HIDE DEF s, u
  <2>3. v \in Names /\ Len(v) = k /\ v[k] = t[k] /\ \A i \in 1..(k - 1) : v[i] = s[i]
    BY <2>1, <2>2, NamesAre
  <2> HIDE DEF v
  <2>4. \A i \in 1..Len(v) : v[i] = u[i]
    BY <1>1, <2>1, <2>2, <2>3
  <2>5. u = v
    BY <2>2, <2>3, <2>4, SeqEqual DEF Names
  <2> QED
    BY <2>1, <2>2, <2>5 DEF s, u, v
<1>5. \A k \in 1..Len(t) : /\ k - 1 \in 0..Len(t) /\ t[k] \in Name /\ SubSeq(t, 1, k - 1) \in Names
                           /\ SubSeq(t, 1, k) = Append(SubSeq(t, 1, k - 1), t[k])
  BY <1>4
<1> QED
  BY <1>1, <1>2, <1>5 DEF Upto

AllSafe(names) == \A k \in DOMAIN names : Safe(names[k])

\* Of safe names all are left.
LEMMA SafeKept ==
    ASSUME NEW names \in Names, AllSafe(names)
    PROVE  IsPath(Relative(names)) /\ Kept(Relative(names)) = names
<1> DEFINE p == Relative(names)
<1>1. IsPath(p) /\ p.names = names /\ p.absolute = FALSE
  BY DEF IsPath, Relative, Names, Name
<1> HIDE DEF p
<1>2. PICK h : Passes(Puts(p.absolute), <<>>, names, h) /\ Kept(p) = h[Len(names)]
  BY <1>1, KeptPasses
<1> DEFINE S == {k \in Nat : k <= Len(names) => h[k] = Upto(names, k)}
<1>3. 0 \in S
  BY <1>2, Beginnings DEF Passes
<1>4. ASSUME NEW k \in Nat, k \in S PROVE k + 1 \in S
  <2> SUFFICES ASSUME k + 1 <= Len(names) PROVE h[k + 1] = Upto(names, k + 1)
    OBVIOUS
  <2> DEFINE s == Upto(names, k)
             n == names[k + 1]
  <2>1. k + 1 \in 1..Len(names) /\ (k + 1) - 1 = k /\ k <= Len(names) /\ DOMAIN names = 1..Len(names)
    BY Beginnings, NamesAre
  <2>2. s \in Names /\ n \in Name /\ Upto(names, k + 1) = Append(s, n)
    <3>1. /\ Upto(names, (k + 1) - 1) \in Names /\ names[k + 1] \in Name
          /\ Upto(names, k + 1) = Append(Upto(names, (k + 1) - 1), names[k + 1])
      BY <2>1, Beginnings
    <3> QED
      BY <2>1, <3>1
  <2>3. n \notin {"", ".", ".."}
    BY <2>1 DEF AllSafe, Safe
  <2>4. h[k] = s
    BY <1>4, <2>1
  <2>5. h[k + 1] = Puts(p.absolute)[h[k]][n]
    <3>1. h[k + 1] = Puts(p.absolute)[h[(k + 1) - 1]][names[k + 1]]
      BY <1>2, <2>1 DEF Passes
    <3> QED
      BY <2>1, <3>1
  <2> HIDE DEF s, n
  <2>6. Put(p.absolute, s, n) = Append(s, n)
    BY <2>3 DEF Put
  <2> QED
    BY <2>2, <2>4, <2>5, <2>6, PutsOf
<1> HIDE DEF S
<1>5. \A k \in Nat : k \in S
  BY <1>3, <1>4, Induction
<1>6. h[Len(names)] = names
  BY <1>5, Beginnings DEF S
<1> QED
  BY <1>1, <1>2, <1>6 DEF p

\* What is left of a p is its normal form, but for a slash at its end.
LEMMA NormalIs ==
    ASSUME NEW p, IsPath(p)
    PROVE  /\ Normal(p).absolute = p.absolute
           /\ \/ Normal(p).names = Kept(p)
              \/ Normal(p).names = <<".">> /\ ~p.absolute
              \/ Normal(p).names = Append(Kept(p), "")
<1> DEFINE names == Kept(p)
<1>1. p = [absolute |-> p.absolute, names |-> p.names] /\ p.names \in Names
  BY DEF IsPath, Names, Name
<1>2. p.names = <<>> => names = p.names
  <2>1. PICK h : Passes(Puts(p.absolute), <<>>, p.names, h) /\ names = h[Len(p.names)]
    BY KeptPasses
  <2> QED
    BY <2>1 DEF Passes
<1> HIDE DEF names
<1>3. \A s : [p EXCEPT !.names = s].names = s /\ [p EXCEPT !.names = s].absolute = p.absolute
  BY <1>1
<1>4. CASE p.names = <<>>
  BY <1>2, <1>4 DEF Normal, names
<1>5. CASE p.names # <<>> /\ names = <<>>
  <2>1. Normal(p) = [p EXCEPT !.names = IF p.absolute THEN <<>> ELSE <<".">>]
    BY <1>5 DEF Normal, names
  <2> QED
    BY <1>3, <1>5, <2>1 DEF names
<1>6. CASE p.names # <<>> /\ names # <<>>
  <2>1. \/ Normal(p) = [p EXCEPT !.names = Append(names, "")]
        \/ Normal(p) = [p EXCEPT !.names = names]
    BY <1>6 DEF Normal, names
  <2> QED
    BY <1>3, <2>1 DEF names
<1> QED
  BY <1>4, <1>5, <1>6
\* What follows the names b with which t begins.
After(b, t) == SubSeq(t, Len(b) + 1, Len(t))

LEMMA AfterIs ==
    ASSUME NEW S, NEW b \in Seq(S), NEW t \in Seq(S), IsPrefix(b, t)
    PROVE  /\ Len(b) \in Nat /\ Len(t) \in Nat /\ Len(b) <= Len(t)
           /\ \A k \in 1..Len(b) : k \in 1..Len(t) /\ t[k] = b[k]
           /\ After(b, t) \in Seq(S) /\ Len(After(b, t)) = Len(t) - Len(b)
           /\ \A k \in 1..(Len(t) - Len(b)) : After(b, t)[k] = t[Len(b) + k]
           /\ From(b, After(b, t)) = t
<1> DEFINE m == Len(b)
           l == Len(t)
<1>1. m \in Nat /\ l \in Nat /\ b \in Seq(S) /\ t \in Seq(S) /\ \A k \in 1..l : t[k] \in S
  OBVIOUS
<1>2. m <= l /\ SubSeq(b, 1, m) = SubSeq(t, 1, m)
  BY DEF IsPrefix
<1>3. SubSeq(b, 1, m) = b /\ SubSeq(t, 1, l) = t
  BY <1>1
<1>4. SubSeq(t, 1, m) \o SubSeq(t, m + 1, l) = SubSeq(t, 1, l)
  <2> HIDE DEF m
  <2>1. 1 \in 1..(Len(t) + 1) /\ m \in (1 - 1)..Len(t) /\ Len(t) \in m..Len(t)
    BY <1>1, <1>2
  <2> QED
    BY <1>1, <2>1, ConcatAdjacentSubSeq
<1>5. \A k \in 1..m : SubSeq(t, 1, m)[k] = t[k]
  BY <1>1, <1>2
<1> HIDE DEF m, l
<1>6. /\ SubSeq(t, m + 1, l) \in Seq(S) /\ Len(SubSeq(t, m + 1, l)) = l - m
      /\ \A k \in 1..(l - m) : SubSeq(t, m + 1, l)[k] = t[m + k]
  <2> DEFINE u == SubSeq(t, m + 1, l)
  <2>1. m + 1 \in Int /\ l \in Int /\ \A k \in (m + 1)..l : t[k] \in S
    BY <1>1, <1>2
  <2>2. /\ u \in Seq(S) /\ Len(u) = IF m + 1 <= l THEN l - (m + 1) + 1 ELSE 0
        /\ \A k \in 1..(l - (m + 1) + 1) : u[k] = t[(m + 1) + k - 1]
    BY <2>1, SubSeqProperties
  <2> HIDE DEF u
  <2>3. Len(u) = l - m
    BY <1>1, <1>2, <2>2
  <2>4. l - (m + 1) + 1 = l - m /\ \A k \in 1..(l - m) : (m + 1) + k - 1 = m + k
    BY <1>1
  <2>5. \A k \in 1..(l - m) : u[k] = t[m + k]
    BY <2>2, <2>4
  <2> QED
    BY <2>2, <2>3, <2>5 DEF u
<1>7. \A k \in 1..m : k \in 1..l /\ t[k] = b[k]
  BY <1>1, <1>2, <1>3, <1>5
<1> QED
  BY <1>1, <1>2, <1>3, <1>4, <1>6, <1>7 DEF m, l, After, From

LEMMA AfterNames ==
    ASSUME NEW b \in Names, NEW t \in Names, IsPrefix(b, t)
    PROVE  /\ After(b, t) \in Names /\ From(b, After(b, t)) = t
BY AfterIs DEF Names

\* Normal forms: after the names a slash may have left an empty one.
Normals == Seq(Name \cup {""})

LEMMA NormalsAre ==
    /\ \A s \in Names : s \in Normals
    /\ \A s \in Normals : Len(s) \in Nat /\ DOMAIN s = 1..Len(s) /\ (s # <<>> => Len(s) > 0)
<1> DEFINE S == Name \cup {""}
<1>1. Name \subseteq S
  OBVIOUS
<1> HIDE DEF S
<1>2. ASSUME NEW s \in Seq(S) PROVE Len(s) \in Nat /\ DOMAIN s = 1..Len(s) /\ (s # <<>> => Len(s) > 0)
  <2>1. s # <<>> => Len(s) \in Nat \ {0}
    BY EmptySeq
  <2> QED
    BY <2>1
<1>3. ASSUME NEW s \in Seq(Name) PROVE s \in Seq(S)
  BY <1>1
<1> QED
  BY <1>2, <1>3 DEF Names, Normals, S

LEMMA AfterNormals ==
    ASSUME NEW b \in Normals, NEW t \in Normals, IsPrefix(b, t)
    PROVE  /\ Len(b) \in Nat /\ Len(b) <= Len(t)
           /\ \A k \in 1..Len(b) : k \in 1..Len(t) /\ t[k] = b[k]
           /\ After(b, t) \in Normals /\ Len(After(b, t)) = Len(t) - Len(b)
           /\ \A k \in 1..(Len(t) - Len(b)) : After(b, t)[k] = t[Len(b) + k]
<1> DEFINE S == Name \cup {""}
<1>1. Normals = Seq(S)
  BY DEF Normals
<1> HIDE DEF S
<1>2. b \in Seq(S) /\ t \in Seq(S)
  BY <1>1
<1>3. /\ Len(b) \in Nat /\ Len(b) <= Len(t)
      /\ \A k \in 1..Len(b) : k \in 1..Len(t) /\ t[k] = b[k]
      /\ After(b, t) \in Seq(S) /\ Len(After(b, t)) = Len(t) - Len(b)
      /\ \A k \in 1..(Len(t) - Len(b)) : After(b, t)[k] = t[Len(b) + k]
  BY <1>2, AfterIs
<1> QED
  BY <1>1, <1>3

\* A slash at the end.
Slashed(s) == Append(s, "")

\* The last of safe names is not a slash at the end.
LEMMA SlashIsUnsafe ==
    ASSUME NEW s \in Names, NEW u, u = Slashed(s)
    PROVE  /\ u \in Normals /\ Len(u) = Len(s) + 1 /\ Len(s) \in Nat /\ u[Len(u)] = ""
           /\ ~AllSafe(u) /\ ~Fine(u)
<1>1. s \in Seq(Name \cup {""}) /\ "" \in Name \cup {""}
  BY NormalsAre DEF Normals
<1>2. /\ u \in Normals /\ Len(s) \in Nat /\ Len(u) = Len(s) + 1
      /\ \A k \in 1..(Len(s) + 1) : u[k] = IF k <= Len(s) THEN s[k] ELSE ""
  BY <1>1, AppendIs DEF Normals, Slashed
<1>3. Len(u) \in 1..(Len(s) + 1) /\ ~(Len(u) <= Len(s))
  <2>1. Len(s) \in Nat /\ Len(u) = Len(s) + 1
    BY <1>2
  <2> QED
    BY <2>1
<1>4. u[Len(u)] = "" /\ Len(u) \in DOMAIN u
  BY <1>2, <1>3, NormalsAre
<1>5. ~AllSafe(u) /\ ~Fine(u)
  BY <1>4 DEF AllSafe, Safe, Fine
<1> QED
  BY <1>2, <1>4, <1>5

\* The names the service opens lead where the p leads.
LEMMA Agrees ==
    ASSUME NEW r, IsPath(r), NEW p, IsPath(p), StagedRelativePath(r, p) # Refused
    PROVE  LET names == StagedRelativePath(r, p)
           IN  /\ names \in Names /\ names # <<>> /\ AllSafe(names)
               /\ Lookup(Lookup(<<>>, r), p) = Lookup(<<>>, r) \o names
<1> DEFINE names == StagedRelativePath(r, p)
           base == Lookup(<<>>, r)
           n == Normal(p)
           b == Normal(r).names
           left == Kept(p)
<1>1. /\ names = Below(r, n) /\ Within(r, n) /\ names # <<>> /\ AllSafe(names)
  BY DEF StagedRelativePath, AllSafe
<1>2. base \in Names
  <2>1. <<>> \in Names /\ r.names \in Names
    BY NamesAre DEF IsPath, Names, Name
  <2>2. PICK g : Passes(Goes, <<>>, r.names, g) /\ base = g[Len(r.names)]
    BY <2>1, LookupPasses
  <2>3. Len(r.names) \in 0..Len(r.names)
    BY <2>1, NamesAre
  <2> QED
    BY <2>2, <2>3 DEF Passes
<1> HIDE DEF names, base
<1>3. n.absolute = p.absolute
  BY NormalIs
<1>4. n.names = left \/ (n.names = <<".">> /\ ~p.absolute) \/ n.names = Slashed(left)
  BY NormalIs DEF Slashed
<1>5. left \in Names /\ Fine(left)
  BY <1>2, KeptLeads
<1> HIDE DEF n, left
<1>6. AllSafe(names) => NoUp(names)
  BY DEF AllSafe, Safe, NoUp
<1>7. CASE ~p.absolute
  <2>1. names = n.names
    BY <1>1, <1>3, <1>7 DEF Below
  <2>2. names = left
    <3>1. ~AllSafe(<<".">>)
      <4>1. ASSUME NEW s, 1 \in DOMAIN s, s[1] = "." PROVE ~AllSafe(s)
        BY <4>1 DEF AllSafe, Safe
      <4>2. 1 \in DOMAIN <<".">> /\ <<".">>[1] = "."
        OBVIOUS
      <4> QED
        BY <4>1, <4>2
    <3>2. ~AllSafe(Slashed(left))
      BY <1>5, SlashIsUnsafe
    <3> QED
      BY <1>1, <1>4, <2>1, <3>1, <3>2
  <2>3. Lookup(base, p) = From(base, left)
    BY <1>1, <1>2, <1>6, <1>7, <2>2, KeptLeads DEF left
  <2> QED
    BY <1>1, <1>5, <2>2, <2>3 DEF From, names, base
<1>8. CASE p.absolute
  <2>1. r.absolute /\ IsPrefix(b, n.names) /\ names = After(b, n.names)
    BY <1>1, <1>3, <1>8 DEF Within, Below, After
  <2>2. Lookup(base, p) = left
    <3>1. NoUp(left) /\ (NoUp(left) => Lookup(base, p) = From(<<>>, left))
      BY <1>2, <1>8, KeptLeads DEF left
    <3> QED
      BY <1>5, <3>1, FromIs, NamesAre
  <2>3. /\ Kept(r) \in Names /\ base = Kept(r) /\ (b = Kept(r) \/ b = Slashed(Kept(r)))
    <3>1. <<>> \in Names
      BY <1>5, NamesAre
    <3>2. /\ Kept(r) \in Names /\ NoUp(Kept(r))
          /\ NoUp(Kept(r)) => base = From(<<>>, Kept(r))
      BY <3>1, <2>1, KeptLeads DEF base
    <3>3. b = Kept(r) \/ b = Slashed(Kept(r))
      BY <2>1, NormalIs DEF Slashed
    <3> QED
      BY <3>1, <3>2, <3>3, FromIs
  <2>4. b \in Normals
    BY <2>3, SlashIsUnsafe, NormalsAre
  <2> HIDE DEF b
  <2>5. n.names = left
    <3> SUFFICES ASSUME n.names = Slashed(left) PROVE FALSE
      BY <1>4, <1>8
    <3> DEFINE u == Slashed(left)
    <3>1. u \in Normals /\ Len(u) = Len(left) + 1 /\ Len(left) \in Nat /\ u[Len(u)] = ""
      BY <1>5, SlashIsUnsafe
    <3>2. n.names = u
      OBVIOUS
    <3> HIDE DEF u
    <3>3. /\ Len(b) \in Nat /\ Len(b) <= Len(u) /\ names \in Normals /\ Len(names) = Len(u) - Len(b)
          /\ \A k \in 1..(Len(u) - Len(b)) : names[k] = u[Len(b) + k]
      BY <2>1, <2>4, <3>1, <3>2, AfterNormals
    <3>4. Len(names) > 0 /\ DOMAIN names = 1..Len(names)
      BY <1>1, <3>3, NormalsAre
    <3> DEFINE k == Len(names)
    <3>5. k \in 1..k /\ k \in 1..(Len(u) - Len(b)) /\ Len(b) + k = Len(u)
      <4>1. Len(u) \in Nat /\ Len(b) \in Nat /\ k = Len(u) - Len(b) /\ k > 0
        <5>1. Len(u) \in Nat
          BY <3>1, NormalsAre
        <5>2. Len(b) \in Nat /\ Len(names) = Len(u) - Len(b)
          BY <3>3
        <5> QED
          BY <3>4, <5>1, <5>2
      <4> HIDE DEF k
      <4> QED
        BY <4>1
    <3>6. names[k] = ""
      BY <3>1, <3>3, <3>5
    <3>7. k \in DOMAIN names
      BY <3>4, <3>5
    <3> QED
      BY <1>1, <3>6, <3>7 DEF AllSafe, Safe
  <2>6. b = Kept(r)
    <3> SUFFICES ASSUME b = Slashed(Kept(r)) PROVE FALSE
      BY <2>3
    <3>1. Len(b) = Len(Kept(r)) + 1 /\ Len(Kept(r)) \in Nat /\ b[Len(b)] = ""
      BY <2>3, SlashIsUnsafe
    <3>2. Len(b) \in 1..Len(left) /\ left[Len(b)] = b[Len(b)]
      <4>1. \A k \in 1..Len(b) : k \in 1..Len(left) /\ left[k] = b[k]
        BY <1>5, <2>1, <2>4, <2>5, AfterNormals, NormalsAre
      <4>2. Len(b) \in 1..Len(b)
        <5>1. Len(b) = Len(Kept(r)) + 1 /\ Len(Kept(r)) \in Nat
          BY <3>1
        <5> QED
          BY <5>1
      <4> QED
        BY <4>1, <4>2
    <3>3. Len(b) \in DOMAIN left
      BY <1>5, <3>2, NamesAre
    <3> QED
      BY <1>5, <3>1, <3>2, <3>3 DEF Fine
  <2>7. names \in Names /\ From(b, names) = left
    BY <1>5, <2>1, <2>3, <2>5, <2>6, AfterNames
  <2>8. Lookup(base, p) = base \o names
    BY <2>2, <2>3, <2>6, <2>7 DEF From
  <2> QED
    BY <1>1, <2>7, <2>8 DEF names, base
<1> QED
  BY <1>7, <1>8

\* What the service has found the orchestrator does not refuse.
LEMMA NotRefused ==
    ASSUME NEW r, NEW names \in Names, names # <<>>, AllSafe(names)
    PROVE  RelativeStagedPath(r, Relative(names)) # Refused
<1> DEFINE p == Relative(names)
<1>1. p.names = names /\ p.absolute = FALSE /\ p = [absolute |-> FALSE, names |-> names]
  BY DEF Relative
<1>2. IsPath(p) /\ Kept(p) = names
  BY SafeKept
<1> HIDE DEF p
<1>3. Last(names) = names[Len(names)] /\ Len(names) \in DOMAIN names
  BY NamesAre
<1>4. Safe(Last(names))
  BY <1>3 DEF AllSafe
<1>5. Normal(p) = p
  <2>1. Normal(p) = [p EXCEPT !.names = names]
    BY <1>1, <1>2, <1>4 DEF Normal
  <2> QED
    BY <1>1, <2>1
<1>6. Within(r, p) /\ Below(r, p) = names
  BY <1>1 DEF Within, Below
<1>7. StagedRelativePath(r, p) = names
  BY <1>5, <1>6 DEF StagedRelativePath, AllSafe
<1>8. RelativeStagedPath(r, p) = names
  BY <1>1, <1>7 DEF RelativeStagedPath, AllSafe
<1>9. names # Refused
  <2>1. Refused[1] = ".." /\ 1 \in DOMAIN Refused
    BY DEF Refused
  <2>2. names = Refused => ~AllSafe(names)
    BY <2>1 DEF AllSafe, Safe
  <2> QED
    BY <2>2
<1> QED
  BY <1>8, <1>9 DEF p
-----------------------------------------------------------------------------
\* Which paths arrive.

\* A relative path that the service or the orchestrator has found.
Found ==
    /\ path = Relative(path.names)
    /\ path.names \in Names /\ path.names # <<>> /\ AllSafe(path.names)

\* What is to be checked is a path; the orchestrator gets from the service one it
\* does not refuse.
PathInv ==
    /\ root \in Roots
    /\ pc = "check" /\ opener # "client" => IsPath(path)
    /\ caller = "image" /\ (opener = "orchestrator" \/ pc \notin {"check"} \cup Ended) => Found
    /\ caller = "image" /\ opener = "orchestrator" => pc # "rejected"

LEMMA InitPath == Init => PathInv
<1> SUFFICES ASSUME Init PROVE PathInv
  OBVIOUS
<1>1. opener # "client" => IsPath(path)
  BY StagedFileAssumption DEF Init, Callers
<1>2. caller = "image" => opener = "service"
  BY DEF Init
<1> QED
  BY <1>1, <1>2 DEF Init, PathInv, Ended

\* Names that are not refused are the service's, whoever looks at the path.
LEMMA NamesFound ==
    ASSUME PathInv, pc = "check", opener # "client", RelativeNames(path) # Refused
    PROVE  /\ RelativeNames(path) \in Names /\ RelativeNames(path) # <<>> /\ AllSafe(RelativeNames(path))
           /\ Lookup(Lookup(<<>>, root), path) = Lookup(<<>>, root) \o RelativeNames(path)
<1>1. RelativeNames(path) = StagedRelativePath(root, path)
  BY DEF RelativeNames, RelativeStagedPath
<1>2. IsPath(root) /\ IsPath(path)
  BY StagedFileAssumption DEF PathInv
<1> QED
  BY <1>1, <1>2, Agrees

LEMMA CheckPathFinds ==
    ASSUME PathInv, CheckPath
    PROVE  PathInv' /\ Lookup(Lookup(<<>>, root), path) = Lookup(<<>>, root) \o todo'
<1>1. /\ pc = "check" /\ opener # "client" /\ RelativeNames(path) # Refused
      /\ todo' = RelativeNames(path) /\ path' = Relative(todo') /\ pc' = "root"
      /\ UNCHANGED <<root, caller, opener>>
  BY DEF CheckPath, Goto
<1>2. /\ todo' \in Names /\ todo' # <<>> /\ AllSafe(todo')
      /\ Lookup(Lookup(<<>>, root), path) = Lookup(<<>>, root) \o todo'
  BY <1>1, NamesFound
<1>3. Found'
  <2>1. path'.names = todo'
    BY <1>1 DEF Relative
  <2> QED
    BY <1>1, <1>2, <2>1 DEF Found
<1> QED
  BY <1>1, <1>2, <1>3 DEF PathInv

\* The orchestrator does not refuse what the service has found.
LEMMA RejectPathFinds ==
    ASSUME IInv, PathInv, RejectPath
    PROVE  PathInv'
<1>1. /\ pc = "check" /\ RelativeNames(path) = Refused /\ pc' = "rejected"
      /\ UNCHANGED <<root, caller, opener, path>>
  BY DEF RejectPath, Fail, Goto
<1>2. ~(caller = "image" /\ opener = "orchestrator")
  <2> SUFFICES ASSUME caller = "image", opener = "orchestrator" PROVE FALSE
    OBVIOUS
  <2>1. Found
    BY DEF PathInv
  <2> QED
    BY <1>1, <2>1, NotRefused DEF Found, RelativeNames
<1> QED
  BY <1>1, <1>2 DEF PathInv, Ended

LEMMA HandOverFinds ==
    ASSUME PathInv, HandOver
    PROVE  PathInv'
<1>1. pc = "fstat" /\ pc' = "check" /\ caller = "image" /\ UNCHANGED <<root, caller, path>>
  BY DEF HandOver, Goto
<1>2. Found
  BY <1>1 DEF PathInv, Ended
<1>3. IsPath(path)
  BY <1>2, SafeKept DEF Found
<1> QED
  BY <1>1, <1>2, <1>3 DEF PathInv, Found

\* Any other step leaves the path alone.
LEMMA PathKept ==
    ASSUME PathInv, UNCHANGED <<root, caller, opener, path>>,
           \/ pc' = pc
           \/ pc' \notin {"check", "rejected"} /\ (pc \notin {"check"} \cup Ended \/ caller = "client")
           \/ pc' = "failed"
    PROVE  PathInv'
<1>1. Found' <=> Found
  BY DEF Found
<1> QED
  BY <1>1 DEF PathInv, Ended

LEMMA FailKeeps ==
    ASSUME PathInv,
           \/ OpenRootFails \/ OpenDirectoryFails \/ StatFileFails \/ OpenFileFails
           \/ OpenArchiveFails \/ FstatFails \/ StartUploadFails \/ ReadEnds \/ CallFails
    PROVE  PathInv' /\ pc' = "failed" /\ opener' = opener
<1>1. Fail("failed")
  BY DEF OpenRootFails, OpenDirectoryFails, StatFileFails, OpenFileFails,
         OpenArchiveFails, FstatFails, StartUploadFails, ReadEnds, CallFails
<1> QED
  BY <1>1, PathKept DEF Fail, Goto

LEMMA WalkKeeps ==
    ASSUME IInv, PathInv,
           \/ OpenRoot \/ OpenDirectory \/ StatFile \/ OpenFile \/ OpenFifo \/ OpenArchive
           \/ Fstat \/ StartUpload \/ (\E n \in 1..MaxLength : Read(n)) \/ Finish
    PROVE  PathInv' /\ pc' # "root" /\ opener' = opener
<1>1. ASSUME OpenRoot \/ OpenDirectory \/ StatFile \/ Fstat \/ StartUpload \/ Finish
      PROVE  /\ pc \notin {"check"} \cup Ended /\ pc' \notin {"check", "rejected", "root"}
             /\ UNCHANGED <<root, caller, opener, path>>
  BY <1>1 DEF OpenRoot, OpenDirectory, StatFile, Fstat, StartUpload, Finish, Goto, Ended
<1>2. ASSUME OpenFile \/ OpenFifo \/ OpenArchive
      PROVE  /\ pc \notin {"check"} \cup Ended \/ caller = "client"
             /\ pc' = "fstat" /\ UNCHANGED <<root, caller, opener, path>>
  <2>1. \/ pc \in {"walk", "open"} \/ opener = "client"
    BY <1>2 DEF OpenFile, OpenFifo, OpenArchive, Opening
  <2>2. \E i : Opened(i)
    BY <1>2 DEF OpenFile, OpenFifo, OpenArchive
  <2> QED
    BY <2>1, <2>2 DEF Opened, Goto, IInv, CallerInv, Ended
<1>3. ASSUME NEW n \in 1..MaxLength, Read(n)
      PROVE  pc' = pc /\ pc' # "root" /\ UNCHANGED <<root, caller, opener, path>>
  BY <1>3 DEF Read
<1> QED
  BY <1>1, <1>2, <1>3, PathKept

LEMMA NextPath ==
    ASSUME IInv, PathInv, [Next]_vars
    PROVE  /\ PathInv'
           /\ pc = "check" /\ pc' = "root" =>
                  Lookup(Lookup(<<>>, root), path) = Lookup(<<>>, root) \o todo'
           /\ opener = "orchestrator" /\ caller = "image" => opener' = "orchestrator" /\ caller' = "image"
<1>0. caller' = caller
  BY DEF Next, Step, Ends, vars, requestVars, CheckPath, RejectPath, OpenRoot, OpenRootFails,
         OpenDirectory, OpenDirectoryFails, StatFile, StatFileFails, OpenFile, OpenFileFails, OpenFifo,
         OpenArchive, OpenArchiveFails, Fstat, FstatFails, HandOver, StartUpload, StartUploadFails,
         Read, ReadEnds, Finish, CallFails, Fail, Opened, Replace, Resize
<1>1. CASE CheckPath
  BY <1>1, CheckPathFinds DEF CheckPath
<1>2. CASE RejectPath
  BY <1>2, RejectPathFinds DEF RejectPath, Fail, Goto
<1>3. CASE HandOver
  BY <1>3, HandOverFinds DEF HandOver, Goto
<1>4. CASE \/ OpenRootFails \/ OpenDirectoryFails \/ StatFileFails \/ OpenFileFails
           \/ OpenArchiveFails \/ FstatFails \/ StartUploadFails \/ ReadEnds \/ CallFails
  <2>1. PathInv' /\ pc' = "failed" /\ opener' = opener
    BY <1>4, FailKeeps
  <2> QED
    BY <1>0, <2>1
<1>5. CASE \/ OpenRoot \/ OpenDirectory \/ StatFile \/ OpenFile \/ OpenFifo \/ OpenArchive
           \/ Fstat \/ StartUpload \/ (\E n \in 1..MaxLength : Read(n)) \/ Finish
  <2>1. PathInv' /\ pc' # "root" /\ opener' = opener
    BY <1>5, WalkKeeps
  <2> QED
    BY <1>0, <2>1
<1>6. CASE UNCHANGED requestVars
  BY <1>6, PathKept DEF requestVars
<1>7. \/ CheckPath \/ RejectPath \/ HandOver \/ UNCHANGED requestVars
      \/ OpenRootFails \/ OpenDirectoryFails \/ StatFileFails \/ OpenFileFails
      \/ OpenArchiveFails \/ FstatFails \/ StartUploadFails \/ ReadEnds \/ CallFails
      \/ OpenRoot \/ OpenDirectory \/ StatFile \/ OpenFile \/ OpenFifo \/ OpenArchive
      \/ Fstat \/ StartUpload \/ (\E n \in 1..MaxLength : Read(n)) \/ Finish
  BY DEF Next, Step, Ends, vars, Replace, Resize
<1> QED
  BY <1>0, <1>1, <1>2, <1>3, <1>4, <1>5, <1>6, <1>7

\* staged_relative_path and relative_staged_path: for every staging root and every
\* path the names that are opened lead where the path leads, and the orchestrator
\* does not refuse what the service has put into the bundle.
THEOREM PathsAgree == Spec => StagedPathsAgree
<1> DEFINE Agree == /\ pc = "check" /\ pc' = "root" =>
                           Lookup(Lookup(<<>>, root), path) = Lookup(<<>>, root) \o todo'
                    /\ caller = "image" /\ opener = "orchestrator" => pc' # "rejected"
<1>1. IInv /\ PathInv /\ [Next]_vars => PathInv' /\ [Agree]_vars
  <2> SUFFICES ASSUME IInv, PathInv, [Next]_vars PROVE PathInv' /\ Agree
    OBVIOUS
  <2>1. caller = "image" /\ opener = "orchestrator" => pc' # "rejected"
    BY NextPath DEF PathInv
  <2> QED
    BY <2>1, NextPath
<1>2. StagedPathsAgree <=> [][Agree]_vars
  BY DEF StagedPathsAgree
<1> HIDE DEF Agree
<1> QED
  BY <1>1, <1>2, InitPath, Invariant, PTL DEF Spec
===============================================================================
