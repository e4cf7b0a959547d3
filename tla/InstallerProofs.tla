--------------------------- MODULE InstallerProofs ---------------------------
(***************************************************************************)
(* Theorems about QuadletInstaller, for any number of threads, processes,  *)
(* texts, chunks, inodes, temporary names and power failures.  The         *)
(* inductive invariant ties each temporary name to the call that writes    *)
(* it: its inode has no other name and no other user, so that what is      *)
(* renamed to the Quadlet is whole, on disk, and written by nobody.        *)
(***************************************************************************)
EXTENDS QuadletInstaller, FiniteSetTheorems, TLAPS

\* w has a temporary file.
Owns(w) == pc[w] \in {"write", "fsync", "rename"}

\* What a call knows of the temporary file it writes: how much of the text is in it,
\* and that nobody else can reach its inode.
Writer(w) ==
    Owns(w) =>
        /\ attempt[w] < MaxAttempts
        /\ dir[Tmp(w)] \in Inodes
        /\ \A n \in Names \ {Tmp(w)} : dir[Tmp(w)] \notin pending[n]
        /\ \A r \in Workers : pc[r] = "read" => fd[r] # dir[Tmp(w)]
        /\ pc[w] \in {"write", "fsync"} => fd[w] = dir[Tmp(w)]
        /\ pc[w] = "write" =>
              offset[w] < Chunks /\ \A k \in 1..offset[w] : data[dir[Tmp(w)]][k] = text[w]
        /\ pc[w] \in {"fsync", "rename"} => Whole(dir[Tmp(w)], text[w])
        /\ pc[w] = "rename" => dir[Tmp(w)] \in synced

\* What a snapshot knows of the inode it reads.
Reader(w) ==
    pc[w] = "read" =>
        /\ fd[w] \in Inodes
        /\ offset[w] < Chunks
        /\ \E t \in Texts : Whole(fd[w], t) /\ (offset[w] # 0 => text[w] = t)

\* Everything the invariant says of a thread.
Thread(w) ==
    /\ Writer(w)
    /\ Reader(w)
    /\ pc[w] \in {"create", "write", "fsync", "rename"} => text[w] \in Texts
    /\ pc[w] \notin {"write", "fsync", "rename", "fsyncDir", "read"} => offset[w] = 0
    /\ pc[w] # "changed"

\* A temporary name has at most one owner, and one that is in the directory has one
\* or is an orphan.
Ownership ==
    /\ \A v, w \in Workers : Owns(v) /\ Owns(w) /\ Tmp(v) = Tmp(w) => v = w
    /\ \A n \in Temps : dir[n] # Absent =>
          n \in orphans \/ \E w \in Workers : Owns(w) /\ Tmp(w) = n

\* Where the directory of the user does not exist nobody is at work in it.
NoTree ==
    tree = "absent" => /\ pending[Final] = {Absent}
                       /\ \A w \in Workers : pc[w] \in {"tree"} \cup Outcomes

IInv ==
    /\ TypeOK
    /\ \A n \in Names : dir[n] \in pending[n]
    /\ NeverTorn
    /\ AcknowledgedSurvives
    /\ \A w \in Workers : Thread(w)
    /\ Ownership
    /\ NoTree
-----------------------------------------------------------------------------
\* Temporary names are told apart by their process and attempt, and from the Quadlet.
LEMMA NamesDiffer ==
    /\ Final \in Names /\ Final \notin Temps /\ Temps \subseteq Names
    /\ \A w \in Workers : TypeOK /\ attempt[w] < MaxAttempts => Tmp(w) \in Temps
BY InstallerAssumption DEF Names, Final, Temps, Temp, Tmp, TypeOK

\* An inode that holds one whole text is read as that text.
LEMMA WholeText ==
    ASSUME NEW i \in Inodes, NEW t \in Texts, Whole(i, t)
    PROVE  TextOf(i) = t
BY InstallerAssumption DEF TextOf, Whole

\* And one that is not torn holds a whole text.
LEMMA NotTorn ==
    ASSUME NEW i \in Inodes, TextOf(i) # Torn
    PROVE  TextOf(i) \in Texts /\ Whole(i, TextOf(i))
<1>1. i # Absent
  BY InstallerAssumption
<1>2. PICK t \in Texts : Whole(i, t)
  BY <1>1 DEF TextOf
<1> QED
  BY <1>2, WholeText

LEMMA AbsentText == TextOf(Absent) = Absent
BY DEF TextOf

LEMMA InitInv == Init => IInv
<1> SUFFICES ASSUME Init PROVE IInv
  OBVIOUS
<1>1. TypeOK
  <2>1. treeLost \in BOOLEAN
    BY Zenon DEF Init
  <2>4. calls \in 0..MaxCalls /\ losses \in 0..MaxPowerLosses
    BY InstallerAssumption DEF Init
  <2>2. /\ dir \in [Names -> Inodes \cup {Absent}]
        /\ pending \in [Names -> SUBSET (Inodes \cup {Absent})]
        /\ data \in [Inodes -> [1..Chunks -> Texts \cup {Hole}]]
        /\ attempt \in [Workers -> 0..MaxAttempts] /\ offset \in [Workers -> 0..Chunks]
    BY InstallerAssumption DEF Init
  <2>3. tree \in {"absent", "fresh", "safe", "loose", "foreign"}
    BY InstallerAssumption DEF Init
  <2> QED
    BY <2>1, <2>2, <2>3, <2>4 DEF Init, TypeOK, Outcomes, Busy
<1>2. \A n \in Names : dir[n] = Absent /\ pending[n] = {Absent}
  BY DEF Init
<1>3. NeverTorn /\ AcknowledgedSurvives
  BY <1>2, AbsentText, NamesDiffer, InstallerAssumption DEF Init, NeverTorn, AcknowledgedSurvives
<1>4. \A w \in Workers : Thread(w)
  BY DEF Init, Thread, Writer, Reader, Owns
<1>5. Ownership
  BY <1>2, NamesDiffer DEF Init, Ownership, Owns
<1>6. NoTree
  BY <1>2, NamesDiffer DEF Init, NoTree, Outcomes
<1> QED
  BY <1>1, <1>2, <1>3, <1>4, <1>5, <1>6 DEF IInv
-----------------------------------------------------------------------------
\* What a step does to the threads that do not take it.

Unmoved(v) ==
    /\ pc'[v] = pc[v] /\ text'[v] = text[v] /\ attempt'[v] = attempt[v]
    /\ fd'[v] = fd[v] /\ offset'[v] = offset[v]

\* The temporary file of v is neither touched nor reached by anybody else.
LeavesTemp(v) ==
    /\ dir'[Tmp(v)] = dir[Tmp(v)]
    /\ \A n \in Names \ {Tmp(v)} : dir[Tmp(v)] \notin pending'[n]
    /\ \A r \in Workers : pc'[r] = "read" => fd'[r] # dir[Tmp(v)]
    /\ data'[dir[Tmp(v)]] = data[dir[Tmp(v)]]
    /\ dir[Tmp(v)] \in synced => dir[Tmp(v)] \in synced'

LEMMA ThreadFrame ==
    ASSUME NEW v \in Workers, Thread(v), Unmoved(v),
           Owns(v) => LeavesTemp(v),
           pc[v] = "read" => data'[fd[v]] = data[fd[v]]
    PROVE  Thread(v)'
<1>1. Tmp(v)' = Tmp(v) /\ Owns(v)' = Owns(v)
  BY DEF Unmoved, Tmp, Temp, Owns
<1>2. Writer(v)'
  <2> SUFFICES ASSUME Owns(v) PROVE Writer(v)'
    BY <1>1 DEF Writer
  <2>1. Writer(v) /\ LeavesTemp(v)
    BY DEF Thread
  <2>2. dir'[Tmp(v)'] = dir[Tmp(v)]
    BY <1>1, <2>1 DEF LeavesTemp
  <2>3. /\ attempt'[v] < MaxAttempts
        /\ dir'[Tmp(v)'] \in Inodes
        /\ \A n \in Names \ {Tmp(v)'} : dir'[Tmp(v)'] \notin pending'[n]
        /\ \A r \in Workers : pc'[r] = "read" => fd'[r] # dir'[Tmp(v)']
    BY <1>1, <2>1, <2>2 DEF Writer, LeavesTemp, Unmoved
  <2>4. /\ pc'[v] \in {"write", "fsync"} => fd'[v] = dir'[Tmp(v)']
        /\ pc'[v] = "write" =>
              offset'[v] < Chunks /\ \A k \in 1..offset'[v] : data'[dir'[Tmp(v)']][k] = text'[v]
        /\ pc'[v] = "rename" => dir'[Tmp(v)'] \in synced'
    BY <2>1, <2>2 DEF Writer, LeavesTemp, Unmoved
  <2>5. pc'[v] \in {"fsync", "rename"} => \A k \in 1..Chunks : data'[dir'[Tmp(v)']][k] = text'[v]
    BY <2>1, <2>2 DEF Writer, LeavesTemp, Unmoved, Whole
  <2> QED
    BY <2>3, <2>4, <2>5 DEF Writer, Whole
<1>3. Reader(v)'
  BY DEF Thread, Reader, Unmoved, Whole
<1> QED
  BY <1>2, <1>3 DEF Thread, Unmoved

\* The text of an inode depends on its chunks alone.
LEMMA TextFrame ==
    ASSUME NEW i \in Inodes, data'[i] = data[i]
    PROVE  TextOf(i)' = TextOf(i) /\ \A t : Whole(i, t)' <=> Whole(i, t)
BY DEF TextOf, Whole

\* The invariant speaks of the Quadlet through the inodes it may have on disk.
LEMMA FinalFrame ==
    ASSUME TypeOK, NeverTorn, AcknowledgedSurvives, dir[Final] \in pending[Final],
           dir'[Final] = dir[Final], pending'[Final] = pending[Final],
           \A i \in pending[Final] \cap Inodes : data'[i] = data[i] /\ (i \in synced => i \in synced'),
           UNCHANGED <<allowed, treeLost>>
    PROVE  NeverTorn' /\ AcknowledgedSurvives'
<1>1. pending[Final] \subseteq Inodes \cup {Absent}
  BY NamesDiffer DEF TypeOK
<1>2. \A i \in pending[Final] : TextOf(i)' = TextOf(i)
  BY <1>1, TextFrame DEF TextOf
<1>3. NeverTorn'
  BY <1>1, <1>2 DEF NeverTorn
<1>4. AcknowledgedSurvives'
  BY <1>2 DEF AcknowledgedSurvives
<1> QED
  BY <1>3, <1>4
-----------------------------------------------------------------------------
\* Steps that leave the disk alone: w has no temporary file before or after, and opens
\* at most the Quadlet itself.
LEMMA QuietStep ==
    ASSUME IInv, NEW w \in Workers, TypeOK', UNCHANGED <<diskVars, allowed, treeLost, orphans>>,
           \A v \in Workers \ {w} : Unmoved(v),
           ~Owns(w), ~Owns(w)', Thread(w)', NoTree',
           pc'[w] = "read" => (pc[w] = "read" /\ fd'[w] = fd[w]) \/ fd'[w] = dir[Final]
    PROVE  IInv'
<1>1. \A v \in Workers \ {w} : Thread(v)'
  <2> SUFFICES ASSUME NEW v \in Workers, v # w PROVE Thread(v)'
    OBVIOUS
  <2>1. Thread(v) /\ Unmoved(v)
    BY DEF IInv
  <2>2. ASSUME Owns(v) PROVE LeavesTemp(v)
    <3>1. Writer(v) /\ Tmp(v) \in Temps
      BY <2>1, <2>2, NamesDiffer DEF Thread, Writer, IInv
    <3>2. dir[Final] \in pending[Final] /\ Final # Tmp(v) /\ Final \in Names
      BY <3>1, NamesDiffer DEF IInv
    <3>3. \A r \in Workers : pc'[r] = "read" => fd'[r] # dir[Tmp(v)]
      BY <2>2, <3>1, <3>2 DEF Writer, Unmoved
    <3> QED
      BY <2>2, <3>1, <3>3 DEF LeavesTemp, Writer, diskVars
  <2> QED
    BY <2>1, <2>2, ThreadFrame DEF diskVars
<1>2. NeverTorn' /\ AcknowledgedSurvives'
  BY FinalFrame, NamesDiffer DEF IInv, diskVars
<1>3. Ownership'
  <2>1. \A v \in Workers : Owns(v)' => Owns(v) /\ Tmp(v)' = Tmp(v)
    BY DEF Owns, Unmoved, Tmp, Temp
  <2>2. \A v \in Workers : Owns(v) => Owns(v)' /\ Tmp(v)' = Tmp(v)
    BY DEF Owns, Unmoved, Tmp, Temp
  <2>3. \A u, v \in Workers : Owns(u)' /\ Owns(v)' /\ Tmp(u)' = Tmp(v)' => u = v
    BY <2>1 DEF IInv, Ownership
  <2>4. \A n \in Temps : dir'[n] # Absent =>
          n \in orphans' \/ \E v \in Workers : Owns(v)' /\ Tmp(v)' = n
    BY <2>2 DEF IInv, Ownership, diskVars
  <2> QED
    BY <2>3, <2>4 DEF Ownership
<1> QED
  BY <1>1, <1>2, <1>3 DEF IInv, diskVars

\* A call that returns frees its thread.
LEMMA Returning ==
    ASSUME TypeOK, NEW w \in Workers, NEW o \in Outcomes \ {"changed"}, Return(w, o)
    PROVE  /\ \A v \in Workers \ {w} : Unmoved(v)
           /\ pc'[w] = o /\ ~Owns(w)' /\ Thread(w)'
           /\ pc' \in [Workers -> Busy \cup Outcomes]
           /\ op' \in [Workers -> {"none", "install", "restore", "remove", "snapshot"}]
           /\ text' \in [Workers -> Texts \cup {Absent}]
           /\ attempt' \in [Workers -> 0..MaxAttempts]
           /\ fd' \in [Workers -> Inodes \cup {Absent}]
           /\ offset' \in [Workers -> 0..Chunks]
           /\ \A v \in Workers : pc[v] \in {"tree"} \cup Outcomes => pc'[v] \in {"tree"} \cup Outcomes
<1>1. pc'[w] = o /\ offset'[w] = 0
  BY DEF TypeOK, Return, Goto
<1>2. ~Owns(w)' /\ Thread(w)'
  BY <1>1 DEF Outcomes, Owns, Thread, Writer, Reader
<1>3. \A v \in Workers \ {w} : Unmoved(v)
  BY DEF TypeOK, Return, Goto, Unmoved
<1> QED
  BY <1>1, <1>2, <1>3, InstallerAssumption DEF TypeOK, Return, Goto, Outcomes

LEMMA CallStep ==
    ASSUME IInv, NEW w \in Workers, Start(w)
    PROVE  IInv'
<1>1. PICK o \in {"install", "restore", "remove", "snapshot"}, t \in Texts \cup {Absent} :
          Call(w, o, t)
  <2>1. snap[w] # "none" => snap[w] \in Texts \cup {Absent}
    BY DEF IInv, TypeOK
  <2> QED
    BY <2>1 DEF Start, StartInstall, StartRestore, StartRemove, StartSnapshot
<1>2. TypeOK'
  BY <1>1, InstallerAssumption DEF IInv, TypeOK, Call, Goto, diskVars, Busy
<1>3. \A v \in Workers \ {w} : Unmoved(v)
  BY <1>1 DEF IInv, TypeOK, Call, Goto, Unmoved
<1>4. pc'[w] = "tree" /\ ~Owns(w) /\ ~Owns(w)' /\ offset[w] = 0 /\ offset'[w] = 0
  BY <1>1 DEF IInv, TypeOK, Call, Goto, Owns, Busy, Writing, Removing, Reading, Thread
<1>5. Thread(w)'
  BY <1>4 DEF Thread, Writer, Reader, Owns
<1>6. NoTree'
  BY <1>1, <1>3, <1>4 DEF IInv, NoTree, Call, diskVars, Unmoved
<1> QED
  BY <1>1, <1>2, <1>3, <1>4, <1>5, <1>6, QuietStep DEF Call

LEMMA EnsureAdminTreeStep ==
    ASSUME IInv, NEW w \in Workers, EnsureAdminTree(w)
    PROVE  IInv'
<1>1. FirstCall(w) \in {"lstat", "unlink", "create"} /\ (FirstCall(w) = "create" => text[w] \in Texts)
  BY DEF IInv, TypeOK, FirstCall
<1>2. pc'[w] = FirstCall(w) /\ pc[w] = "tree" /\ text'[w] = text[w] /\ offset'[w] = 0
  BY DEF IInv, TypeOK, EnsureAdminTree, Goto, Thread
<1>3. \A v \in Workers \ {w} : Unmoved(v)
  BY DEF IInv, TypeOK, EnsureAdminTree, Goto, Unmoved
<1>4. ~Owns(w) /\ ~Owns(w)' /\ Thread(w)' /\ pc'[w] # "read"
  BY <1>1, <1>2 DEF Thread, Writer, Reader, Owns
<1>5. TypeOK'
  BY <1>1 DEF IInv, TypeOK, EnsureAdminTree, Goto, diskVars, Busy, Writing, Removing, Reading
<1>6. NoTree'
  BY DEF EnsureAdminTree, NoTree, IInv, TypeOK
<1> QED
  BY <1>3, <1>4, <1>5, <1>6, QuietStep DEF EnsureAdminTree

\* The failures that find no temporary file to clean up.
LEMMA FailureStep ==
    ASSUME IInv, NEW w \in Workers,
           \/ EnsureAdminTreeFails(w) \/ CreateFails(w) \/ UnlinkFails(w)
           \/ FsyncDirectoryFails(w) \/ SnapshotFails(w)
    PROVE  IInv'
<1>1. /\ pc[w] \in {"tree", "create", "unlink", "fsyncDir"} \cup Reading
      /\ Return(w, "error")
      /\ UNCHANGED <<snap, diskVars, tree, calls, losses, allowed, treeLost, orphans>>
  BY DEF EnsureAdminTreeFails, CreateFails, UnlinkFails, FsyncDirectoryFails, SnapshotFails
<1>2. "error" \in Outcomes \ {"changed"} /\ TypeOK
  BY DEF Outcomes, IInv
<1>3. TypeOK'
  BY <1>1, <1>2, Returning DEF TypeOK, diskVars
<1>4. ~Owns(w)
  BY <1>1 DEF Owns, Reading
<1>5. NoTree'
  BY <1>1, <1>2, Returning DEF IInv, NoTree, diskVars
<1> QED
  BY <1>1, <1>2, <1>3, <1>4, <1>5, Returning, QuietStep

LEMMA NameTakenStep ==
    ASSUME IInv, NEW w \in Workers, NameTaken(w)
    PROVE  IInv'
<1>1. attempt[w] + 1 \in 0..MaxAttempts
  BY InstallerAssumption DEF NameTaken, IInv, TypeOK
<1>2. TypeOK'
  BY <1>1 DEF IInv, TypeOK, NameTaken, diskVars
<1>3. \A v \in Workers \ {w} : Unmoved(v)
  BY DEF IInv, TypeOK, NameTaken, Unmoved
<1>4. ~Owns(w) /\ ~Owns(w)' /\ Thread(w)' /\ pc'[w] # "read"
  BY DEF NameTaken, IInv, Thread, Writer, Reader, Owns
<1>5. NoTree'
  BY DEF NameTaken, IInv, NoTree, diskVars
<1> QED
  BY <1>2, <1>3, <1>4, <1>5, QuietStep DEF NameTaken

LEMMA LstatStep ==
    ASSUME IInv, NEW w \in Workers, LstatFinal(w)
    PROVE  IInv'
<1>1. TypeOK /\ ~Owns(w) /\ offset[w] = 0 /\ pc[w] = "lstat"
  BY DEF IInv, LstatFinal, Owns, Thread
<1>2. CASE /\ snap' = [snap EXCEPT ![w] = Absent]
           /\ Return(w, "ok")
  <2>1. "ok" \in Outcomes \ {"changed"}
    BY DEF Outcomes
  <2>2. TypeOK'
    BY <1>1, <1>2, <2>1, Returning DEF TypeOK, diskVars, LstatFinal
  <2>3. NoTree'
    BY <1>1, <1>2, <2>1, Returning DEF IInv, NoTree, LstatFinal, diskVars
  <2>4. pc'[w] # "read"
    BY <1>1, <1>2, <2>1, Returning
  <2> QED
    BY <1>1, <1>2, <2>1, <2>2, <2>3, <2>4, Returning, QuietStep DEF LstatFinal
<1>3. CASE Goto(w, "open") /\ UNCHANGED <<op, text, attempt, fd, offset, snap>>
  <2>1. TypeOK'
    BY <1>1, <1>3 DEF TypeOK, Goto, LstatFinal, diskVars, Busy, Reading
  <2>2. \A v \in Workers \ {w} : Unmoved(v)
    BY <1>1, <1>3 DEF TypeOK, Goto, Unmoved
  <2>3. pc'[w] = "open" /\ ~Owns(w)' /\ Thread(w)'
    BY <1>1, <1>3 DEF TypeOK, Goto, Owns, Thread, Writer, Reader
  <2>4. NoTree'
    BY <1>1 DEF LstatFinal, IInv, NoTree, Outcomes
  <2> QED
    BY <1>1, <2>1, <2>2, <2>3, <2>4, QuietStep DEF LstatFinal
<1> QED
  BY <1>2, <1>3 DEF LstatFinal

LEMMA OpenStep ==
    ASSUME IInv, NEW w \in Workers, OpenFinal(w)
    PROVE  IInv'
<1>1. TypeOK /\ ~Owns(w) /\ offset[w] = 0 /\ pc[w] = "open"
  BY DEF IInv, OpenFinal, Owns, Thread
<1>2. CASE /\ dir[Final] # Absent
           /\ fd' = [fd EXCEPT ![w] = dir[Final]]
           /\ Goto(w, "read")
           /\ UNCHANGED <<op, text, attempt, offset>>
  <2>1. dir[Final] \in Inodes /\ dir[Final] \in pending[Final]
    BY <1>1, <1>2, NamesDiffer DEF TypeOK, IInv
  <2>2. TypeOK'
    BY <1>1, <1>2, <2>1 DEF TypeOK, Goto, OpenFinal, diskVars, Busy, Reading
  <2>3. \A v \in Workers \ {w} : Unmoved(v)
    BY <1>1, <1>2 DEF TypeOK, Goto, Unmoved
  <2>4. pc'[w] = "read" /\ fd'[w] = dir[Final] /\ offset'[w] = 0
    BY <1>1, <1>2 DEF TypeOK, Goto
  <2>5. PICK t \in Texts : Whole(dir[Final], t)
    BY <2>1, NotTorn DEF IInv, NeverTorn
  <2>6. Whole(fd[w], t)'
    BY <2>4, <2>5 DEF Whole, OpenFinal, diskVars
  <2>7. Reader(w)'
    BY <2>1, <2>4, <2>6, InstallerAssumption DEF Reader
  <2>8. ~Owns(w)' /\ Thread(w)'
    BY <2>4, <2>7 DEF Owns, Thread, Writer
  <2>9. NoTree'
    BY <1>1 DEF OpenFinal, IInv, NoTree, Outcomes
  <2> QED
    BY <1>1, <2>2, <2>3, <2>4, <2>8, <2>9, QuietStep DEF OpenFinal
<1>3. CASE Return(w, "error")
  <2>1. "error" \in Outcomes \ {"changed"}
    BY DEF Outcomes
  <2>2. TypeOK'
    BY <1>1, <1>3, <2>1, Returning DEF TypeOK, diskVars, OpenFinal
  <2>3. NoTree' /\ pc'[w] # "read"
    BY <1>1, <1>3, <2>1, Returning DEF IInv, NoTree, OpenFinal, diskVars
  <2> QED
    BY <1>1, <1>3, <2>1, <2>2, <2>3, Returning, QuietStep DEF OpenFinal
<1> QED
  BY <1>2, <1>3 DEF OpenFinal

\* A read() returns the next chunk of the one text the reader has been reading, so it
\* never meets a hole and what it gathers is that text.
LEMMA ReadStep ==
    ASSUME IInv, NEW w \in Workers, ReadChunk(w)
    PROVE  IInv'
<1> DEFINE chunk == data[fd[w]][offset[w] + 1]
           got   == IF offset[w] = 0 \/ text[w] = chunk THEN chunk ELSE Torn
<1>1. TypeOK /\ ~Owns(w) /\ pc[w] = "read" /\ Reader(w) /\ offset[w] \in Nat
  BY InstallerAssumption DEF IInv, ReadChunk, Owns, Thread, TypeOK
<1>2. PICK t \in Texts : Whole(fd[w], t) /\ (offset[w] # 0 => text[w] = t)
  BY <1>1 DEF Reader
<1>3. offset[w] + 1 \in 1..Chunks
  BY <1>1, InstallerAssumption DEF Reader
<1>4. chunk = t /\ got = t /\ chunk # Hole
  BY <1>2, <1>3, InstallerAssumption DEF Whole
<1>5. CASE /\ Return(w, "ok")
           /\ snap' = [snap EXCEPT ![w] = t]
  <2>1. "ok" \in Outcomes \ {"changed"}
    BY DEF Outcomes
  <2>2. TypeOK'
    BY <1>1, <1>5, <2>1, Returning DEF TypeOK, diskVars, ReadChunk
  <2>3. NoTree' /\ pc'[w] # "read"
    BY <1>1, <1>5, <2>1, Returning DEF IInv, NoTree, ReadChunk, diskVars
  <2> QED
    BY <1>1, <1>5, <2>1, <2>2, <2>3, Returning, QuietStep DEF ReadChunk
<1>6. CASE /\ offset[w] + 1 # Chunks
           /\ text' = [text EXCEPT ![w] = t]
           /\ offset' = [offset EXCEPT ![w] = @ + 1]
           /\ UNCHANGED <<pc, op, attempt, fd, snap>>
  <2>1. TypeOK'
    BY <1>1, <1>3, <1>6 DEF TypeOK, ReadChunk, diskVars
  <2>2. \A v \in Workers \ {w} : Unmoved(v)
    BY <1>1, <1>6 DEF TypeOK, Unmoved
  <2>3. text'[w] = t /\ offset'[w] = offset[w] + 1 /\ fd'[w] = fd[w] /\ pc'[w] = "read"
    BY <1>1, <1>6 DEF TypeOK
  <2>4. Whole(fd[w], t)'
    BY <1>2, <2>3 DEF Whole, ReadChunk, diskVars
  <2>5. Reader(w)'
    BY <1>1, <1>3, <1>6, <2>3, <2>4, InstallerAssumption DEF Reader
  <2>6. ~Owns(w)' /\ Thread(w)'
    BY <2>3, <2>5 DEF Owns, Thread, Writer
  <2>7. NoTree'
    BY <1>1 DEF ReadChunk, IInv, NoTree, Outcomes
  <2> QED
    BY <1>1, <2>1, <2>2, <2>3, <2>6, <2>7, QuietStep DEF ReadChunk
<1> QED
  BY <1>4, <1>5, <1>6 DEF ReadChunk
-----------------------------------------------------------------------------
\* Steps of atomic_write_file before its renameat: w touches the temporary name it is
\* at, and an inode j that no other name and no reader reaches.
LEMMA TempStep ==
    ASSUME IInv, NEW w \in Workers, NEW j \in Inodes, TypeOK',
           pc[w] \in {"create", "write", "fsync", "rename"}, attempt[w] < MaxAttempts,
           UNCHANGED <<tree, allowed, treeLost>>, orphans \subseteq orphans',
           \A v \in Workers \ {w} : Unmoved(v) /\ (Owns(v) => Tmp(v) # Tmp(w)),
           \A n \in Names \ {Tmp(w)} :
               dir'[n] = dir[n] /\ pending'[n] = pending[n] /\ j \notin pending[n],
           \A r \in Workers : pc[r] = "read" => fd[r] # j,
           dir'[Tmp(w)] \in pending'[Tmp(w)],
           pending'[Tmp(w)] \subseteq pending[Tmp(w)] \cup {j, Absent},
           \A i \in Inodes \ {j} : data'[i] = data[i] /\ (i \in synced => i \in synced'),
           pc'[w] # "read", Thread(w)', Owns(w)' => Tmp(w)' = Tmp(w),
           dir'[Tmp(w)] # Absent => Owns(w)' \/ Tmp(w) \in orphans'
    PROVE  IInv'
<1>1. Tmp(w) \in Temps /\ Tmp(w) # Final /\ Tmp(w) \in Names /\ Final \in Names
  BY NamesDiffer DEF IInv
<1>2. \A v \in Workers \ {w} : Thread(v)'
  <2> SUFFICES ASSUME NEW v \in Workers, v # w PROVE Thread(v)'
    OBVIOUS
  <2>1. Thread(v) /\ Unmoved(v)
    BY DEF IInv
  <2>2. ASSUME Owns(v) PROVE LeavesTemp(v)
    <3>1. Writer(v) /\ Tmp(v) \in Names \ {Tmp(w)} /\ dir[Tmp(v)] \in Inodes
      BY <2>1, <2>2, NamesDiffer DEF Thread, Writer, IInv
    <3>2. dir[Tmp(v)] \in pending[Tmp(v)]
      BY <3>1 DEF IInv
    <3>3. dir[Tmp(v)] # j /\ dir[Tmp(v)] # Absent
      BY <3>1, <3>2, InstallerAssumption
    <3>4. dir'[Tmp(v)] = dir[Tmp(v)]
      BY <3>1
    <3>5. \A n \in Names \ {Tmp(v)} : dir[Tmp(v)] \notin pending'[n]
      BY <2>2, <3>1, <3>3 DEF Writer
    <3>6. \A r \in Workers : pc'[r] = "read" => fd'[r] # dir[Tmp(v)]
      BY <2>2, <3>1 DEF Writer, Unmoved
    <3> QED
      BY <3>1, <3>3, <3>4, <3>5, <3>6 DEF LeavesTemp
  <2>3. pc[v] = "read" => data'[fd[v]] = data[fd[v]]
    BY <2>1 DEF Thread, Reader
  <2> QED
    BY <2>1, <2>2, <2>3, ThreadFrame
<1>3. NeverTorn' /\ AcknowledgedSurvives'
  BY <1>1, FinalFrame DEF IInv
<1>4. \A n \in Names : dir'[n] \in pending'[n]
  BY DEF IInv
<1>5. Ownership'
  <2>1. \A v \in Workers \ {w} : Owns(v)' = Owns(v) /\ Tmp(v)' = Tmp(v)
    BY DEF Owns, Unmoved, Tmp, Temp
  <2>2. \A u, v \in Workers : Owns(u)' /\ Owns(v)' /\ Tmp(u)' = Tmp(v)' => u = v
    BY <2>1 DEF IInv, Ownership
  <2>3. \A n \in Temps \ {Tmp(w)} : dir'[n] # Absent =>
            n \in orphans' \/ \E v \in Workers : Owns(v)' /\ Tmp(v)' = n
    <3> SUFFICES ASSUME NEW n \in Temps, n # Tmp(w), dir'[n] # Absent, n \notin orphans'
                 PROVE  \E v \in Workers : Owns(v)' /\ Tmp(v)' = n
      OBVIOUS
    <3>1. dir[n] # Absent /\ n \notin orphans
      BY NamesDiffer
    <3>2. PICK v \in Workers : Owns(v) /\ Tmp(v) = n
      BY <3>1 DEF IInv, Ownership
    <3> QED
      BY <2>1, <3>2
  <2> QED
    BY <2>2, <2>3 DEF Ownership
<1>6. NoTree'
  BY DEF IInv, NoTree, Outcomes
<1> QED
  BY <1>2, <1>3, <1>4, <1>5, <1>6 DEF IInv

LEMMA CreateStep ==
    ASSUME IInv, NEW w \in Workers, CreateTemp(w)
    PROVE  IInv'
<1>1. TypeOK /\ ~Owns(w) /\ offset[w] = 0 /\ pc[w] = "create" /\ attempt[w] < MaxAttempts
  BY DEF IInv, CreateTemp, Owns, Thread
<1>2. Tmp(w) \in Names /\ dir[Tmp(w)] = Absent
  BY <1>1, NamesDiffer DEF CreateTemp
<1>3. PICK i \in Inodes : /\ ~InUse(i)
                          /\ fd' = [fd EXCEPT ![w] = i]
                          /\ Link(Tmp(w), i)
                          /\ data' = [data EXCEPT ![i] = [k \in 1..Chunks |-> Hole]]
                          /\ synced' = synced \ {i}
  BY DEF CreateTemp
<1>4. TypeOK'
  BY <1>1, <1>2, <1>3 DEF TypeOK, CreateTemp, Goto, Link, Busy, Writing
<1>5. /\ dir'[Tmp(w)] = i /\ pending'[Tmp(w)] = pending[Tmp(w)] \cup {i}
      /\ \A n \in Names \ {Tmp(w)} : dir'[n] = dir[n] /\ pending'[n] = pending[n]
  BY <1>1, <1>2, <1>3 DEF TypeOK, Link
<1>6. /\ \A n \in Names : i \notin pending[n]
      /\ \A r \in Workers : fd[r] # i
  BY <1>3 DEF InUse
<1>7. pc'[w] = "write" /\ fd'[w] = i /\ attempt'[w] = attempt[w] /\ offset'[w] = 0 /\ text'[w] = text[w]
  BY <1>1, <1>3 DEF TypeOK, CreateTemp, Goto
<1>8. \A v \in Workers \ {w} : Unmoved(v)
  BY <1>1, <1>3 DEF TypeOK, CreateTemp, Goto, Unmoved
<1>9. \A v \in Workers : Owns(v) => Tmp(v) # Tmp(w)
  BY <1>2, InstallerAssumption DEF IInv, Thread, Writer
<1>10. Tmp(w)' = Tmp(w) /\ Owns(w)'
  BY <1>7 DEF Tmp, Temp, Owns
<1>11. Thread(w)'
  <2>1. \A r \in Workers : pc'[r] = "read" => fd'[r] # i
    BY <1>6, <1>7, <1>8 DEF Unmoved
  <2>2. Writer(w)'
    BY <1>1, <1>5, <1>6, <1>7, <1>10, <2>1, InstallerAssumption DEF Writer
  <2>3. text[w] \in Texts
    BY <1>1 DEF IInv, Thread
  <2> QED
    BY <1>7, <2>2, <2>3 DEF Thread, Reader
<1>12. \A k \in Inodes \ {i} : data'[k] = data[k] /\ (k \in synced => k \in synced')
  BY <1>1, <1>3 DEF TypeOK
<1> QED
  BY <1>1, <1>4, <1>5, <1>6, <1>7, <1>8, <1>9, <1>10, <1>11, <1>12, TempStep DEF CreateTemp

\* What TempStep asks of the inode of a temporary file that w owns.
LEMMA OwnTemp ==
    ASSUME IInv, NEW w \in Workers, Owns(w)
    PROVE  /\ TypeOK /\ Writer(w) /\ attempt[w] < MaxAttempts /\ text[w] \in Texts
           /\ Tmp(w) \in Temps /\ Tmp(w) \in Names /\ Tmp(w) # Final /\ Final \in Names
           /\ dir[Tmp(w)] \in Inodes /\ dir[Tmp(w)] # Absent
           /\ dir[Tmp(w)] \in pending[Tmp(w)]
           /\ \A n \in Names \ {Tmp(w)} : dir[Tmp(w)] \notin pending[n]
           /\ \A r \in Workers : pc[r] = "read" => fd[r] # dir[Tmp(w)]
           /\ \A v \in Workers \ {w} : Owns(v) => Tmp(v) # Tmp(w)
<1>1. TypeOK /\ Writer(w) /\ text[w] \in Texts
  BY DEF IInv, Thread, Owns
<1>2. Tmp(w) \in Temps /\ Tmp(w) \in Names /\ Tmp(w) # Final /\ Final \in Names
  BY <1>1, NamesDiffer DEF Writer
<1>3. dir[Tmp(w)] \in Inodes /\ dir[Tmp(w)] # Absent
  BY <1>1, InstallerAssumption DEF Writer
<1>4. \A v \in Workers \ {w} : Owns(v) => Tmp(v) # Tmp(w)
  BY DEF IInv, Ownership
<1> QED
  BY <1>1, <1>2, <1>3, <1>4 DEF IInv, Writer

LEMMA WriteStep ==
    ASSUME IInv, NEW w \in Workers, WriteChunk(w)
    PROVE  IInv'
<1> DEFINE j == dir[Tmp(w)]
<1>1. Owns(w) /\ pc[w] = "write"
  BY DEF WriteChunk, Owns
<1>2. TypeOK /\ Writer(w) /\ j \in Inodes /\ fd[w] = j /\ text[w] \in Texts
  BY <1>1, OwnTemp DEF Writer
<1>3. offset[w] \in Nat /\ offset[w] < Chunks /\ offset[w] + 1 \in 1..Chunks
  BY <1>1, <1>2, InstallerAssumption DEF TypeOK, Writer
<1>4. data' = [data EXCEPT ![j][offset[w] + 1] = text[w]] /\ synced' = synced \ {j}
  BY <1>2 DEF WriteChunk
<1>5. data' \in [Inodes -> [1..Chunks -> Texts \cup {Hole}]]
  BY <1>2, <1>3, <1>4 DEF TypeOK
<1>6. TypeOK'
  BY <1>2, <1>3, <1>5 DEF TypeOK, WriteChunk, Goto, Busy, Writing
<1>7. /\ pc'[w] = (IF offset[w] + 1 = Chunks THEN "fsync" ELSE "write")
      /\ fd'[w] = j /\ attempt'[w] = attempt[w] /\ offset'[w] = offset[w] + 1
      /\ text'[w] = text[w] /\ dir' = dir /\ pending' = pending
  BY <1>2 DEF TypeOK, WriteChunk, Goto
<1>8. \A v \in Workers \ {w} : Unmoved(v)
  BY <1>2 DEF TypeOK, WriteChunk, Goto, Unmoved
<1>9. Tmp(w)' = Tmp(w) /\ Owns(w)'
  BY <1>7 DEF Tmp, Temp, Owns
<1>10. \A k \in 1..(offset[w] + 1) : data'[j][k] = text[w]
  <2>1. data'[j] = [data[j] EXCEPT ![offset[w] + 1] = text[w]] /\ data[j] \in [1..Chunks -> Texts \cup {Hole}]
    BY <1>2, <1>4 DEF TypeOK
  <2>2. \A k \in 1..offset[w] : data[j][k] = text[w]
    BY <1>1, <1>2 DEF Writer
  <2> QED
    BY <1>3, <2>1, <2>2, InstallerAssumption
<1>11. Thread(w)'
  <2>1. \A r \in Workers : pc'[r] = "read" => fd'[r] # j
    BY <1>1, <1>7, <1>8, OwnTemp DEF Unmoved
  <2>2. dir'[Tmp(w)'] = j /\ \A n \in Names \ {Tmp(w)'} : j \notin pending'[n]
    BY <1>1, <1>7, <1>9, OwnTemp
  <2>3. pc'[w] = "fsync" => \A k \in 1..Chunks : data'[j][k] = text[w]
    BY <1>7, <1>10
  <2>4. Writer(w)'
    BY <1>1, <1>2, <1>3, <1>7, <1>10, <2>1, <2>2, <2>3, InstallerAssumption DEF Writer, Whole
  <2> QED
    BY <1>2, <1>7, <2>4 DEF Thread, Reader
<1>12. \A k \in Inodes \ {j} : data'[k] = data[k] /\ (k \in synced => k \in synced')
  BY <1>2, <1>4 DEF TypeOK
<1>13. UNCHANGED <<tree, allowed, treeLost, orphans>> /\ pc'[w] # "read"
  BY <1>7 DEF WriteChunk
<1> QED
  BY <1>1, <1>2, <1>6, <1>7, <1>8, <1>9, <1>11, <1>12, <1>13, OwnTemp, TempStep

LEMMA FsyncStep ==
    ASSUME IInv, NEW w \in Workers, FsyncTemp(w)
    PROVE  IInv'
<1> DEFINE j == dir[Tmp(w)]
<1>1. Owns(w) /\ pc[w] = "fsync"
  BY DEF FsyncTemp, Owns
<1>2. TypeOK /\ Writer(w) /\ j \in Inodes /\ fd[w] = j /\ text[w] \in Texts /\ Whole(j, text[w])
  BY <1>1, OwnTemp DEF Writer
<1>3. TypeOK'
  BY <1>2 DEF TypeOK, FsyncTemp, Goto, Busy, Writing
<1>4. /\ pc'[w] = "rename" /\ attempt'[w] = attempt[w] /\ text'[w] = text[w]
      /\ dir' = dir /\ pending' = pending /\ data' = data /\ synced' = synced \cup {j}
  BY <1>2 DEF TypeOK, FsyncTemp, Goto
<1>5. \A v \in Workers \ {w} : Unmoved(v)
  BY <1>2 DEF TypeOK, FsyncTemp, Goto, Unmoved
<1>6. Tmp(w)' = Tmp(w) /\ Owns(w)'
  BY <1>4 DEF Tmp, Temp, Owns
<1>7. Thread(w)'
  <2>1. \A r \in Workers : pc'[r] = "read" => fd'[r] # j
    BY <1>1, <1>4, <1>5, OwnTemp DEF Unmoved
  <2>2. dir'[Tmp(w)'] = j /\ \A n \in Names \ {Tmp(w)'} : j \notin pending'[n]
    BY <1>1, <1>4, <1>6, OwnTemp
  <2>3. \A k \in 1..Chunks : data'[j][k] = text'[w]
    BY <1>2, <1>4 DEF Whole
  <2>4. Writer(w)'
    BY <1>1, <1>2, <1>4, <2>1, <2>2, <2>3 DEF Writer, Whole
  <2> QED
    BY <1>2, <1>4, <2>4 DEF Thread, Reader
<1>8. UNCHANGED <<tree, allowed, treeLost, orphans>> /\ pc'[w] # "read"
  BY <1>4 DEF FsyncTemp
<1> QED
  BY <1>1, <1>2, <1>3, <1>4, <1>5, <1>6, <1>7, <1>8, OwnTemp, TempStep

LEMMA WriteFailsStep ==
    ASSUME IInv, NEW w \in Workers, WriteFails(w)
    PROVE  IInv'
<1> DEFINE j == dir[Tmp(w)]
<1>1. Owns(w) /\ "error" \in Outcomes \ {"changed"} /\ Return(w, "error")
  BY DEF WriteFails, Owns, Outcomes
<1>2. TypeOK /\ j \in Inodes /\ Tmp(w) \in Temps /\ Tmp(w) \in Names /\ j \in pending[Tmp(w)]
  BY <1>1, OwnTemp
<1>3. pc'[w] # "read" /\ ~Owns(w)' /\ Thread(w)' /\ \A v \in Workers \ {w} : Unmoved(v)
  BY <1>1, <1>2, Returning
<1>4. UNCHANGED <<snap, data, synced, tree, calls, losses, allowed, treeLost>>
  BY DEF WriteFails
<1>5. /\ dir'[Tmp(w)] \in pending'[Tmp(w)]
      /\ pending'[Tmp(w)] \subseteq pending[Tmp(w)] \cup {j, Absent}
      /\ \A n \in Names \ {Tmp(w)} : dir'[n] = dir[n] /\ pending'[n] = pending[n]
      /\ orphans \subseteq orphans'
      /\ dir'[Tmp(w)] # Absent => Tmp(w) \in orphans'
  BY <1>2 DEF TypeOK, WriteFails, Link
<1>6. TypeOK'
  <2>1. dir' \in [Names -> Inodes \cup {Absent}] /\ pending' \in [Names -> SUBSET (Inodes \cup {Absent})]
    BY <1>2 DEF TypeOK, WriteFails, Link
  <2>2. orphans' \subseteq Temps
    BY <1>2 DEF TypeOK, WriteFails
  <2>3. /\ pc' \in [Workers -> Busy \cup Outcomes]
        /\ op' \in [Workers -> {"none", "install", "restore", "remove", "snapshot"}]
        /\ text' \in [Workers -> Texts \cup {Absent}]
        /\ attempt' \in [Workers -> 0..MaxAttempts]
        /\ fd' \in [Workers -> Inodes \cup {Absent}]
        /\ offset' \in [Workers -> 0..Chunks]
    BY <1>1, <1>2, Returning
  <2> QED
    BY <1>2, <1>4, <2>1, <2>2, <2>3 DEF TypeOK
<1> QED
  BY <1>1, <1>2, <1>3, <1>4, <1>5, <1>6, OwnTemp, TempStep DEF Owns
-----------------------------------------------------------------------------
\* Steps that change the Quadlet.  The other threads only see that what it may be on
\* disk grows by j, which is not their temporary file.
LEMMA OthersStep ==
    ASSUME IInv, NEW w \in Workers, NEW j,
           data' = data, synced' = synced,
           \A n \in Temps : dir'[n] = dir[n] \/ (Owns(w) /\ n = Tmp(w)),
           \A n \in Names : pending'[n] \subseteq pending[n] \cup {j, Absent},
           \A v \in Workers \ {w} : Unmoved(v) /\ (Owns(v) => j # dir[Tmp(v)]),
           pc'[w] # "read",
           NEW v \in Workers, v # w
    PROVE  Thread(v)'
<1>1. Thread(v) /\ Unmoved(v)
  BY DEF IInv
<1>2. ASSUME Owns(v) PROVE LeavesTemp(v)
  <2>1. Tmp(v) \in Temps /\ dir[Tmp(v)] # Absent /\ dir[Tmp(v)] # j
    BY <1>2, OwnTemp
  <2>2. Owns(w) => Tmp(v) # Tmp(w)
    BY <1>2, OwnTemp
  <2>3. \A n \in Names \ {Tmp(v)} : dir[Tmp(v)] \notin pending'[n]
    BY <1>2, <2>1, OwnTemp
  <2>4. \A r \in Workers : pc'[r] = "read" => fd'[r] # dir[Tmp(v)]
    BY <1>2, OwnTemp DEF Unmoved
  <2> QED
    BY <2>1, <2>2, <2>3, <2>4 DEF LeavesTemp
<1> QED
  BY <1>1, <1>2, ThreadFrame

LEMMA RenameStep ==
    ASSUME IInv, NEW w \in Workers, RenameTemp(w)
    PROVE  IInv'
<1> DEFINE j == dir[Tmp(w)]
<1>1. Owns(w) /\ pc[w] = "rename" /\ data' = data /\ synced' = synced /\ orphans' = orphans
  BY DEF RenameTemp, Owns
<1>2. /\ TypeOK /\ Writer(w) /\ j \in Inodes /\ j # Absent /\ text[w] \in Texts
      /\ Tmp(w) \in Temps /\ Tmp(w) \in Names /\ Tmp(w) # Final /\ Final \in Names
  BY <1>1, OwnTemp
<1>3. Whole(j, text[w]) /\ j \in synced
  BY <1>1, <1>2 DEF Writer
<1>4. /\ dir'[Final] = j /\ dir'[Tmp(w)] = Absent
      /\ \A n \in Names \ {Final, Tmp(w)} : dir'[n] = dir[n]
      /\ pending'[Final] = pending[Final] \cup {j}
      /\ pending'[Tmp(w)] = pending[Tmp(w)] \cup {Absent}
      /\ \A n \in Names \ {Final, Tmp(w)} : pending'[n] = pending[n]
  BY <1>2 DEF TypeOK, RenameTemp
<1>5. /\ dir' \in [Names -> Inodes \cup {Absent}]
      /\ pending' \in [Names -> SUBSET (Inodes \cup {Absent})]
  BY <1>2 DEF TypeOK, RenameTemp
<1>6. TypeOK'
  BY <1>2, <1>5 DEF TypeOK, RenameTemp, Goto, Busy, Writing
<1>7. pc'[w] = "fsyncDir" /\ \A v \in Workers \ {w} : Unmoved(v)
  BY <1>2 DEF TypeOK, RenameTemp, Goto, Unmoved
<1>8. \A v \in Workers \ {w} : Owns(v) => j # dir[Tmp(v)] /\ Tmp(v) # Tmp(w)
  <2> SUFFICES ASSUME NEW v \in Workers, v # w, Owns(v) PROVE j # dir[Tmp(v)] /\ Tmp(v) # Tmp(w)
    OBVIOUS
  <2>1. Tmp(v) # Tmp(w) /\ Tmp(v) \in Names /\ dir[Tmp(v)] \in pending[Tmp(v)]
    BY <1>1, OwnTemp
  <2> QED
    BY <1>1, <2>1, OwnTemp
<1>9. \A v \in Workers : Thread(v)'
  <2>1. Thread(w)'
    BY <1>7 DEF Thread, Writer, Reader, Owns
  <2>2. \A n \in Names : pending'[n] \subseteq pending[n] \cup {j, Absent}
    BY <1>4
  <2>3. \A n \in Temps : dir'[n] = dir[n] \/ (Owns(w) /\ n = Tmp(w))
    BY <1>1, <1>4, NamesDiffer
  <2>4. \A v \in Workers \ {w} : Unmoved(v) /\ (Owns(v) => j # dir[Tmp(v)])
    BY <1>7, <1>8
  <2>5. ASSUME NEW v \in Workers, v # w PROVE Thread(v)'
    <3> HIDE DEF j
    <3> QED
      BY <1>1, <1>7, <2>2, <2>3, <2>4, <2>5, OthersStep
  <2> QED
    BY <2>1, <2>5
<1>10. \A i \in pending[Final] \cup {j, Absent} : TextOf(i)' = TextOf(i)
  <2>1. pending[Final] \subseteq Inodes \cup {Absent}
    BY <1>2 DEF TypeOK
  <2> QED
    BY <1>1, <1>2, <2>1, TextFrame DEF TextOf
<1>11. TextOf(j) = text[w] /\ text[w] # Torn
  BY <1>2, <1>3, WholeText, InstallerAssumption
<1>12. NeverTorn'
  BY <1>1, <1>3, <1>4, <1>10, <1>11 DEF IInv, NeverTorn
<1>13. AcknowledgedSurvives'
  <2>1. allowed' = allowed \cup {text[w]} /\ treeLost' = treeLost
    BY DEF RenameTemp
  <2> QED
    BY <1>4, <1>10, <1>11, <2>1 DEF IInv, AcknowledgedSurvives
<1>14. \A n \in Names : dir'[n] \in pending'[n]
  BY <1>4 DEF IInv
<1>15. Ownership'
  <2>1. \A v \in Workers \ {w} : Owns(v)' = Owns(v) /\ Tmp(v)' = Tmp(v)
    BY <1>7 DEF Owns, Unmoved, Tmp, Temp
  <2>2. ~Owns(w)'
    BY <1>7 DEF Owns
  <2>3. \A u, v \in Workers : Owns(u)' /\ Owns(v)' /\ Tmp(u)' = Tmp(v)' => u = v
    BY <2>1, <2>2 DEF IInv, Ownership
  <2>4. \A n \in Temps : dir'[n] # Absent =>
            n \in orphans' \/ \E v \in Workers : Owns(v)' /\ Tmp(v)' = n
    <3> SUFFICES ASSUME NEW n \in Temps, dir'[n] # Absent, n \notin orphans'
                 PROVE  \E v \in Workers : Owns(v)' /\ Tmp(v)' = n
      OBVIOUS
    <3>1. n # Tmp(w) /\ dir[n] # Absent /\ n \notin orphans
      BY <1>1, <1>4, NamesDiffer
    <3>2. PICK v \in Workers : Owns(v) /\ Tmp(v) = n
      BY <3>1 DEF IInv, Ownership
    <3> QED
      BY <2>1, <3>1, <3>2
  <2> QED
    BY <2>3, <2>4 DEF Ownership
<1>16. NoTree'
  BY <1>1 DEF RenameTemp, IInv, NoTree, Outcomes
<1> QED
  BY <1>6, <1>9, <1>12, <1>13, <1>14, <1>15, <1>16 DEF IInv

LEMMA UnlinkStep ==
    ASSUME IInv, NEW w \in Workers, UnlinkFinal(w)
    PROVE  IInv'
<1>1. TypeOK /\ ~Owns(w) /\ pc[w] = "unlink" /\ data' = data /\ synced' = synced /\ orphans' = orphans
  BY DEF UnlinkFinal, Owns, IInv
<1>2. /\ dir'[Final] = Absent /\ pending'[Final] = pending[Final] \cup {Absent}
      /\ \A n \in Names \ {Final} : dir'[n] = dir[n] /\ pending'[n] = pending[n]
  BY <1>1, NamesDiffer DEF TypeOK, UnlinkFinal, Link
<1>3. TypeOK'
  BY <1>1 DEF TypeOK, UnlinkFinal, Link, Goto, Busy, Writing
<1>4. pc'[w] = "fsyncDir" /\ \A v \in Workers \ {w} : Unmoved(v)
  BY <1>1 DEF TypeOK, UnlinkFinal, Goto, Unmoved
<1>5. \A v \in Workers : Thread(v)'
  <2>1. Thread(w)'
    BY <1>4 DEF Thread, Writer, Reader, Owns
  <2>2. \A n \in Names : pending'[n] \subseteq pending[n] \cup {Absent, Absent}
    BY <1>2
  <2>3. \A v \in Workers : Owns(v) => Absent # dir[Tmp(v)]
    BY OwnTemp
  <2>4. \A n \in Temps : dir'[n] = dir[n]
    BY <1>2, NamesDiffer
  <2>5. \A v \in Workers \ {w} : Unmoved(v) /\ (Owns(v) => Absent # dir[Tmp(v)])
    BY <1>4, <2>3
  <2>6. ASSUME NEW v \in Workers, v # w PROVE Thread(v)'
    BY <1>1, <1>4, <2>2, <2>4, <2>5, <2>6, OthersStep
  <2> QED
    BY <2>1, <2>6
<1>6. \A i \in pending[Final] \cup {Absent} : TextOf(i)' = TextOf(i)
  <2>1. pending[Final] \subseteq Inodes \cup {Absent}
    BY <1>1, NamesDiffer DEF TypeOK
  <2> QED
    BY <1>1, <2>1, TextFrame DEF TextOf
<1>7. NeverTorn'
  BY <1>1, <1>2, <1>6, AbsentText, InstallerAssumption DEF IInv, NeverTorn
<1>8. AcknowledgedSurvives'
  <2>1. allowed' = allowed \cup {Absent} /\ treeLost' = treeLost
    BY DEF UnlinkFinal
  <2> QED
    BY <1>2, <1>6, <2>1, AbsentText DEF IInv, AcknowledgedSurvives
<1>9. \A n \in Names : dir'[n] \in pending'[n]
  BY <1>2 DEF IInv
<1>10. Ownership'
  <2>1. \A v \in Workers : Owns(v)' = Owns(v) /\ (v # w => Tmp(v)' = Tmp(v))
    BY <1>1, <1>4 DEF Owns, Unmoved, Tmp, Temp
  <2>2. \A n \in Temps : dir'[n] = dir[n]
    BY <1>2, NamesDiffer
  <2> QED
    BY <1>1, <2>1, <2>2 DEF IInv, Ownership
<1>11. NoTree'
  BY <1>1 DEF UnlinkFinal, IInv, NoTree, Outcomes
<1> QED
  BY <1>3, <1>5, <1>7, <1>8, <1>9, <1>10, <1>11 DEF IInv

\* fsync_directory settles what every name denotes and frees only inodes that nobody
\* reaches.
LEMMA FsyncDirectoryStep ==
    ASSUME IInv, NEW w \in Workers, FsyncDirectory(w)
    PROVE  IInv'
<1> DEFINE freed == {i \in Inodes : /\ \A n \in Names : dir[n] # i
                                    /\ \A v \in Workers : fd[v] # i}
<1>1. /\ TypeOK /\ ~Owns(w) /\ pc[w] = "fsyncDir" /\ "ok" \in Outcomes \ {"changed"}
      /\ Final \in Names /\ Return(w, "ok")
  BY NamesDiffer DEF FsyncDirectory, Owns, Outcomes, IInv
<1>2. /\ pending' = [n \in Names |-> {dir[n]}]
      /\ data' = [i \in Inodes |-> IF i \in freed THEN [k \in 1..Chunks |-> Hole] ELSE data[i]]
      /\ synced' = synced \cup freed
      /\ allowed' = {TextOf(dir[Final])} /\ treeLost' = FALSE
      /\ UNCHANGED <<snap, dir, tree, calls, losses, orphans>>
  BY DEF FsyncDirectory
<1>3. \A i \in Inodes : (\E n \in Names : dir[n] = i) \/ (\E v \in Workers : fd[v] = i)
          => data'[i] = data[i]
  BY <1>2
<1>4. /\ pc'[w] = "ok" /\ ~Owns(w)' /\ Thread(w)'
      /\ \A v \in Workers \ {w} : Unmoved(v)
  BY <1>1, Returning
<1>5. \A v \in Workers : Thread(v)'
  <2> SUFFICES ASSUME NEW v \in Workers, v # w PROVE Thread(v)'
    BY <1>4
  <2>1. Thread(v) /\ Unmoved(v)
    BY <1>4 DEF IInv
  <2>2. ASSUME Owns(v) PROVE LeavesTemp(v)
    <3>1. Tmp(v) \in Names /\ dir[Tmp(v)] \in Inodes
      BY <2>2, OwnTemp
    <3>2. \A n \in Names \ {Tmp(v)} : dir[Tmp(v)] \notin pending'[n]
      <4>1. \A n \in Names \ {Tmp(v)} : dir[Tmp(v)] \notin pending[n] /\ dir[n] \in pending[n]
        BY <2>2, OwnTemp DEF IInv
      <4> QED
        BY <4>1, <1>2
    <3>3. \A r \in Workers : pc'[r] = "read" => fd'[r] # dir[Tmp(v)]
      BY <2>2, <1>4, OwnTemp DEF Unmoved
    <3>4. data'[dir[Tmp(v)]] = data[dir[Tmp(v)]]
      BY <3>1, <1>3
    <3> QED
      BY <1>2, <3>1, <3>2, <3>3, <3>4 DEF LeavesTemp
  <2>3. pc[v] = "read" => data'[fd[v]] = data[fd[v]]
    BY <1>3, <2>1 DEF Thread, Reader
  <2> QED
    BY <2>1, <2>2, <2>3, ThreadFrame
<1>6. TextOf(dir[Final])' = TextOf(dir[Final])
  <2>1. dir[Final] \in Inodes => data'[dir[Final]] = data[dir[Final]]
    BY <1>1, <1>3
  <2>2. dir'[Final] = dir[Final] /\ (dir[Final] \in Inodes \/ dir[Final] = Absent)
    BY <1>1, <1>2 DEF TypeOK
  <2> QED
    BY <2>1, <2>2 DEF TextOf, Whole
<1>7. pending'[Final] = {dir[Final]} /\ dir'[Final] = dir[Final] /\ dir[Final] \in pending[Final]
  BY <1>1, <1>2 DEF IInv
<1>8. NeverTorn'
  BY <1>2, <1>6, <1>7 DEF IInv, NeverTorn
<1>9. AcknowledgedSurvives'
  BY <1>2, <1>6, <1>7 DEF AcknowledgedSurvives
<1>10. TypeOK'
  <2>1. TextOf(dir[Final]) \in Texts \cup {Absent}
    BY <1>1, AbsentText DEF IInv, AcknowledgedSurvives, TypeOK
  <2>2. data' \in [Inodes -> [1..Chunks -> Texts \cup {Hole}]]
    BY <1>1, <1>2 DEF TypeOK
  <2>3. pending' \in [Names -> SUBSET (Inodes \cup {Absent})]
    BY <1>1, <1>2 DEF TypeOK
  <2>4. /\ pc' \in [Workers -> Busy \cup Outcomes]
        /\ op' \in [Workers -> {"none", "install", "restore", "remove", "snapshot"}]
        /\ text' \in [Workers -> Texts \cup {Absent}]
        /\ attempt' \in [Workers -> 0..MaxAttempts]
        /\ fd' \in [Workers -> Inodes \cup {Absent}]
        /\ offset' \in [Workers -> 0..Chunks]
    BY <1>1, Returning
  <2>5. synced' \subseteq Inodes
    BY <1>1, <1>2 DEF TypeOK
  <2> QED
    BY <1>1, <1>2, <2>1, <2>2, <2>3, <2>4, <2>5 DEF TypeOK
<1>11. \A n \in Names : dir'[n] \in pending'[n]
  BY <1>2
<1>12. Ownership'
  <2>1. \A v \in Workers : Owns(v)' = Owns(v) /\ (v # w => Tmp(v)' = Tmp(v))
    BY <1>1, <1>4 DEF Owns, Unmoved, Tmp, Temp
  <2> QED
    BY <1>1, <1>2, <2>1 DEF IInv, Ownership
<1>13. NoTree'
  BY <1>1, <1>2 DEF IInv, NoTree, Outcomes
<1> QED
  BY <1>5, <1>8, <1>9, <1>10, <1>11, <1>12, <1>13 DEF IInv
-----------------------------------------------------------------------------
\* The environment.

\* Threads that stop leave nothing of their call behind but the temporary file.
LEMMA Stopping ==
    ASSUME TypeOK, NEW W \in SUBSET Workers, StopWorkers(W)
    PROVE  /\ \A v \in Workers \ W : Unmoved(v)
           /\ \A v \in W : pc'[v] = "crashed" /\ ~Owns(v)' /\ Thread(v)'
           /\ pc' \in [Workers -> Busy \cup Outcomes]
           /\ op' \in [Workers -> {"none", "install", "restore", "remove", "snapshot"}]
           /\ text' \in [Workers -> Texts \cup {Absent}]
           /\ attempt' \in [Workers -> 0..MaxAttempts]
           /\ fd' \in [Workers -> Inodes \cup {Absent}]
           /\ offset' \in [Workers -> 0..Chunks]
           /\ snap' \in [Workers -> Texts \cup {Absent, "none"}]
<1>1. \A v \in Workers \ W : Unmoved(v)
  BY DEF StopWorkers, Unmoved
<1>2. \A v \in W : pc'[v] = "crashed" /\ offset'[v] = 0
  BY DEF StopWorkers
<1>3. \A v \in W : ~Owns(v)' /\ Thread(v)'
  BY <1>2 DEF Owns, Thread, Writer, Reader
<1> QED
  BY <1>1, <1>2, <1>3, InstallerAssumption DEF StopWorkers, TypeOK, Outcomes

LEMMA CrashStep ==
    ASSUME IInv, NEW p \in Pids, Crash(p)
    PROVE  IInv'
<1> DEFINE W == {w \in Workers : PidOf[w] = p}
<1>1. /\ TypeOK /\ W \in SUBSET Workers /\ StopWorkers(W)
      /\ orphans' = orphans \cup Abandoned(W)
      /\ UNCHANGED <<diskVars, tree, calls, losses, allowed, treeLost>>
  BY DEF Crash, IInv
<1> HIDE DEF W
<1>2. /\ \A v \in Workers \ W : Unmoved(v)
      /\ \A v \in W : pc'[v] = "crashed" /\ ~Owns(v)' /\ Thread(v)'
  BY <1>1, Stopping
<1>3. Abandoned(W) = {Tmp(w) : w \in {v \in W : Owns(v)}}
  BY DEF Abandoned, Owns
<1>4. TypeOK'
  <2>1. orphans' \subseteq Temps
    BY <1>1, <1>3, OwnTemp DEF TypeOK
  <2> QED
    BY <1>1, <2>1, Stopping DEF TypeOK, diskVars
<1>5. \A v \in Workers : Thread(v)'
  <2> SUFFICES ASSUME NEW v \in Workers \ W PROVE Thread(v)'
    BY <1>2
  <2>1. Thread(v) /\ Unmoved(v)
    BY <1>2 DEF IInv
  <2>2. ASSUME Owns(v) PROVE LeavesTemp(v)
    <3>1. \A r \in Workers : pc'[r] = "read" => fd'[r] # dir[Tmp(v)]
      BY <1>2, <2>2, OwnTemp DEF Unmoved
    <3>2. \A n \in Names \ {Tmp(v)} : dir[Tmp(v)] \notin pending'[n]
      BY <1>1, <2>2, OwnTemp DEF diskVars
    <3> QED
      BY <1>1, <3>1, <3>2 DEF LeavesTemp, diskVars
  <2> QED
    BY <1>1, <2>1, <2>2, ThreadFrame DEF diskVars
<1>6. NeverTorn' /\ AcknowledgedSurvives'
  BY <1>1, FinalFrame, NamesDiffer DEF IInv, diskVars
<1>7. Ownership'
  <2>1. \A v \in Workers \ W : Owns(v)' = Owns(v) /\ Tmp(v)' = Tmp(v)
    BY <1>2 DEF Owns, Unmoved, Tmp, Temp
  <2>2. \A u, v \in Workers : Owns(u)' /\ Owns(v)' /\ Tmp(u)' = Tmp(v)' => u = v
    BY <1>2, <2>1 DEF IInv, Ownership
  <2>3. \A n \in Temps : dir'[n] # Absent =>
            n \in orphans' \/ \E v \in Workers : Owns(v)' /\ Tmp(v)' = n
    <3> SUFFICES ASSUME NEW n \in Temps, dir[n] # Absent, n \notin orphans'
                 PROVE  \E v \in Workers : Owns(v)' /\ Tmp(v)' = n
      BY <1>1 DEF diskVars
    <3>1. PICK v \in Workers : Owns(v) /\ Tmp(v) = n
      BY <1>1 DEF IInv, Ownership
    <3>2. v \notin W
      BY <1>1, <1>3, <3>1
    <3> QED
      BY <2>1, <3>1, <3>2
  <2> QED
    BY <2>2, <2>3 DEF Ownership
<1>8. NoTree'
  BY <1>1, <1>2 DEF IInv, NoTree, diskVars, Unmoved, Outcomes
<1> QED
  BY <1>1, <1>4, <1>5, <1>6, <1>7, <1>8 DEF IInv, diskVars

\* What a power loss leaves under the name of the Quadlet was on disk already: its
\* chunks survive.
LEMMA PowerLossValues ==
    ASSUME IInv, PowerLoss
    PROVE  /\ allowed' = allowed /\ treeLost' \in BOOLEAN
           /\ dir' \in [Names -> Inodes \cup {Absent}]
           /\ \A i \in synced : data'[i] = data[i]
           /\ \/ /\ dir'[Final] \in pending[Final] /\ tree' # "fresh"
                 /\ treeLost' = treeLost /\ (tree' = "absent" => tree = "absent")
              \/ /\ tree = "fresh" /\ tree' = "absent"
                 /\ dir'[Final] = Absent /\ treeLost'
           /\ TextOf(dir[Final])' = TextOf(dir'[Final])
<1>1. TypeOK /\ Final \in Names
  BY NamesDiffer DEF IInv
<1>6. allowed' = allowed /\ treeLost' \in BOOLEAN
  BY <1>1 DEF PowerLoss, TypeOK
<1>2. \A i \in synced : data'[i] = data[i]
  BY <1>1 DEF PowerLoss, TypeOK
<1>3. /\ dir' \in [Names -> Inodes \cup {Absent}]
      /\ \/ /\ dir'[Final] \in pending[Final] /\ tree' # "fresh"
            /\ treeLost' = treeLost /\ (tree' = "absent" => tree = "absent")
         \/ /\ tree = "fresh" /\ tree' = "absent"
            /\ dir'[Final] = Absent /\ treeLost'
  <2>1. CASE /\ \E gone \in [Names -> Inodes \cup {Absent}] :
                   /\ \A n \in Names : gone[n] \in pending[n]
                   /\ dir' = gone
             /\ tree' = (IF tree = "fresh" THEN "safe" ELSE tree)
             /\ UNCHANGED treeLost
    BY <1>1, <2>1
  <2>2. CASE /\ tree = "fresh"
             /\ tree' = "absent"
             /\ dir' = [n \in Names |-> Absent]
             /\ treeLost' = TRUE
    BY <1>1, <2>2
  <2> QED
    BY <2>1, <2>2 DEF PowerLoss
<1>4. dir'[Final] = Absent \/ dir'[Final] \in synced
  BY <1>3 DEF IInv, NeverTorn
<1>5. TextOf(dir[Final])' = TextOf(dir'[Final])
  BY <1>2, <1>4 DEF TextOf, Whole
<1> QED
  BY <1>2, <1>3, <1>5, <1>6

LEMMA PowerLossStep ==
    ASSUME IInv, PowerLoss
    PROVE  IInv'
<1>1. TypeOK /\ Final \in Names /\ StopWorkers(Workers) /\ Workers \in SUBSET Workers
  BY NamesDiffer DEF PowerLoss, IInv
<1>2. \A v \in Workers : pc'[v] = "crashed" /\ ~Owns(v)' /\ Thread(v)'
  BY <1>1, Stopping
<1>3. /\ losses < MaxPowerLosses /\ losses' = losses + 1 /\ calls' = calls
      /\ pending' = [n \in Names |-> {dir'[n]}]
      /\ synced' = Inodes
      /\ orphans' = {n \in Temps : dir'[n] # Absent}
  BY DEF PowerLoss
<1>4. data' \in [Inodes -> [1..Chunks -> Texts \cup {Hole}]]
  <2>1. PICK lost \in [Inodes \ synced -> SUBSET (1..Chunks)] :
          data' = [i \in Inodes |->
                     IF i \in synced THEN data[i]
                     ELSE [k \in 1..Chunks |-> IF k \in lost[i] THEN Hole ELSE data[i][k]]]
    BY DEF PowerLoss
  <2> QED
    BY <1>1, <2>1 DEF TypeOK
<1>5. tree' \in {"absent", "fresh", "safe", "loose", "foreign"} /\ allowed' \subseteq Texts \cup {Absent}
  BY <1>1, PowerLossValues DEF TypeOK, PowerLoss
<1>6. pending' \in [Names -> SUBSET (Inodes \cup {Absent})]
  BY <1>3, PowerLossValues
<1>7. losses' \in 0..MaxPowerLosses
  BY <1>1, <1>3, InstallerAssumption DEF TypeOK
<1>8. /\ pc' \in [Workers -> Busy \cup Outcomes]
      /\ op' \in [Workers -> {"none", "install", "restore", "remove", "snapshot"}]
      /\ text' \in [Workers -> Texts \cup {Absent}]
      /\ attempt' \in [Workers -> 0..MaxAttempts]
      /\ fd' \in [Workers -> Inodes \cup {Absent}]
      /\ offset' \in [Workers -> 0..Chunks]
      /\ snap' \in [Workers -> Texts \cup {Absent, "none"}]
  BY <1>1, Stopping
<1>9. TypeOK'
  BY <1>1, <1>3, <1>4, <1>5, <1>6, <1>7, <1>8, PowerLossValues DEF TypeOK
<1>10. pending'[Final] = {dir'[Final]}
  BY <1>1, <1>3
<1>11. /\ TextOf(dir'[Final]) \in allowed' \/ (treeLost' /\ dir'[Final] = Absent)
       /\ TextOf(dir'[Final]) # Torn
  BY PowerLossValues, AbsentText, InstallerAssumption DEF IInv, NeverTorn, AcknowledgedSurvives
<1>12. NeverTorn' /\ AcknowledgedSurvives'
  <2>1. /\ TextOf(dir[Final])' \in allowed' \/ (treeLost' /\ dir'[Final] = Absent)
        /\ TextOf(dir[Final])' # Torn
    BY <1>11, PowerLossValues
  <2>2. dir'[Final] # Absent => dir'[Final] \in synced'
    BY <1>1, <1>3, PowerLossValues
  <2> QED
    BY <1>10, <2>1, <2>2 DEF NeverTorn, AcknowledgedSurvives
<1>13. \A n \in Names : dir'[n] \in pending'[n]
  BY <1>3
<1>14. Ownership'
  BY <1>2, <1>3 DEF Ownership
<1>15. NoTree'
  <2>1. tree' = "absent" => dir'[Final] = Absent
    BY PowerLossValues DEF IInv, NoTree
  <2> QED
    BY <1>2, <1>10, <2>1 DEF NoTree, Outcomes
<1> QED
  BY <1>2, <1>9, <1>12, <1>13, <1>14, <1>15 DEF IInv

\* Neither the write-back of a new directory nor a stuttering step is seen by anybody.
LEMMA UnseenStep ==
    ASSUME IInv, WriteBackTree \/ NoMoreCalls \/ UNCHANGED vars
    PROVE  IInv'
<1>1. /\ UNCHANGED <<threadVars, diskVars, calls, losses, allowed, treeLost, orphans>>
      /\ tree' = tree \/ tree' = "safe"
  BY DEF WriteBackTree, NoMoreCalls, vars
<1>2. TypeOK'
  BY <1>1 DEF IInv, TypeOK, threadVars, diskVars
<1>3. NeverTorn' /\ AcknowledgedSurvives'
  BY <1>1, FinalFrame, NamesDiffer DEF IInv, diskVars
<1>4. ASSUME NEW v \in Workers PROVE Thread(v)'
  <2>1. Owns(v) => LeavesTemp(v)
    BY <1>1, OwnTemp DEF LeavesTemp, threadVars, diskVars
  <2> QED
    BY <1>1, <2>1, ThreadFrame DEF IInv, Unmoved, threadVars, diskVars
<1>5. Ownership'
  BY <1>1 DEF IInv, Ownership, Owns, Tmp, Temp, threadVars, diskVars
<1>6. NoTree'
  BY <1>1 DEF IInv, NoTree, threadVars, diskVars
<1> QED
  BY <1>1, <1>2, <1>3, <1>4, <1>5, <1>6 DEF IInv, diskVars

LEMMA NextInv == IInv /\ [Next]_vars => IInv'
<1> SUFFICES ASSUME IInv, [Next]_vars PROVE IInv'
  OBVIOUS
<1>1. ASSUME NEW w \in Workers, Start(w) \/ Step(w) PROVE IInv'
  BY <1>1, CallStep, EnsureAdminTreeStep, FailureStep, NameTakenStep, LstatStep, OpenStep, ReadStep,
     CreateStep, WriteStep, FsyncStep, WriteFailsStep, RenameStep, UnlinkStep, FsyncDirectoryStep
  DEF Step
<1> QED
  BY <1>1, CrashStep, PowerLossStep, UnseenStep DEF Next
-----------------------------------------------------------------------------
\* The invariant holds of every behaviour.
THEOREM Invariant == Spec => []IInv
<1> QED
  BY InitInv, NextInv, PTL DEF Spec

\* The variables of the installer keep their types: no call goes past the last chunk or
\* tries more than MaxAttempts names, and no snapshot is a torn text.
THEOREM TypeCorrect == Spec => []TypeOK
<1> QED
  BY Invariant, PTL DEF IInv

\* What the Quadlet denotes, now or after a power loss, is absent or one whole text on
\* disk, whoever else installs, fails or crashes.
THEOREM QuadletIsWhole == Spec => []NeverTorn
<1> QED
  BY Invariant, PTL DEF IInv

\* After install, restore or remove has returned success no power loss brings back an
\* older text, unless it takes the user's own directory, whose entry in its parent the
\* code never fsyncs: then the Quadlet may be missing until the next success.
THEOREM AcknowledgedStays == Spec => []AcknowledgedSurvives
<1> QED
  BY Invariant, PTL DEF IInv

LEMMA OneOwner == IInv => TempsAreOwned
<1> SUFFICES ASSUME IInv, NEW n \in Temps, dir[n] # Absent, n \notin orphans
             PROVE  Cardinality({w \in Workers : Tmp(w) = n /\ Owns(w)}) = 1
  BY DEF TempsAreOwned, Owns
<1>1. PICK v \in Workers : Owns(v) /\ Tmp(v) = n
  BY DEF IInv, Ownership
<1>2. {w \in Workers : Tmp(w) = n /\ Owns(w)} = {v}
  BY <1>1 DEF IInv, Ownership
<1> QED
  BY <1>2, FS_Singleton

\* A temporary file in the directory belongs to exactly one call that is still writing
\* it, unless a crash or a failing unlinkat orphaned it.
THEOREM TempsHaveOneOwner == Spec => []TempsAreOwned
<1> QED
  BY Invariant, OneOwner, PTL

LEMMA WholeSnapshots == IInv => SnapshotsAreWhole
BY InstallerAssumption DEF IInv, TypeOK, Thread, SnapshotsAreWhole

\* A snapshot is one whole text, although lstat, open and the reads are separate calls.
THEOREM SnapshotsWhole == Spec => []SnapshotsAreWhole
<1> QED
  BY Invariant, WholeSnapshots, PTL

\* A worker's step leaves every other worker where it is.
LEMMA ActsAlone ==
    ASSUME TypeOK, NEW v \in Workers, Start(v) \/ Step(v), NEW w \in Workers, w # v
    PROVE  pc'[w] = pc[w]
<1>1. \E x : pc' = [pc EXCEPT ![v] = x]
  <2>1. Start(v) => pc' = [pc EXCEPT ![v] = "tree"]
    BY DEF Start, StartInstall, StartRestore, StartRemove, StartSnapshot, Call, Goto
  <2>2. \A o : Return(v, o) => pc' = [pc EXCEPT ![v] = o]
    BY DEF Return, Goto
  <2>3. \A s : Goto(v, s) => pc' = [pc EXCEPT ![v] = s]
    BY DEF Goto
  <2>4. UNCHANGED pc => pc' = [pc EXCEPT ![v] = pc[v]]
    BY DEF TypeOK
  <2>5. Step(v) => UNCHANGED pc \/ (\E o : Return(v, o)) \/ (\E s : Goto(v, s))
    BY DEF Step, EnsureAdminTree, EnsureAdminTreeFails, CreateTemp, NameTaken, CreateFails, WriteChunk,
      FsyncTemp, WriteFails, RenameTemp, UnlinkFinal, UnlinkFails, FsyncDirectory, FsyncDirectoryFails,
      LstatFinal, OpenFinal, ReadChunk, SnapshotFails
  <2> QED
    BY <2>1, <2>2, <2>3, <2>4, <2>5
<1> QED
  BY <1>1 DEF TypeOK

\* The text that RenameTemp makes visible is the one its call was given.
LEMMA RenamedText ==
    ASSUME IInv, NEW w \in Workers, RenameTemp(w)
    PROVE  /\ TextOf(dir[Final])' = text[w] /\ text[w] \in Texts
           /\ {TextOf(i) : i \in pending[Final]}' = {TextOf(i) : i \in pending[Final]} \cup {text[w]}
<1> DEFINE j == dir[Tmp(w)]
<1>1. Owns(w) /\ pc[w] = "rename" /\ data' = data
  BY DEF RenameTemp, Owns
<1>2. /\ TypeOK /\ j \in Inodes /\ text[w] \in Texts /\ Tmp(w) \in Names
      /\ Tmp(w) # Final /\ Final \in Names /\ Whole(j, text[w])
  BY <1>1, OwnTemp DEF Writer
<1>3. dir'[Final] = j /\ pending'[Final] = pending[Final] \cup {j}
  BY <1>2 DEF TypeOK, RenameTemp
<1>4. TextOf(j) = text[w]
  BY <1>2, WholeText
<1>5. \A i : TextOf(i)' = TextOf(i)
  BY <1>1 DEF TextOf, Whole
<1> QED
  BY <1>2, <1>3, <1>4, <1>5

LEMMA OnlyRename ==
    ASSUME IInv, [Next]_vars, NEW w \in Workers, pc[w] = "rename", pc'[w] = "fsyncDir"
    PROVE  RenameTemp(w)
<1>1. TypeOK /\ pc'[w] # pc[w]
  BY DEF IInv
<1>2. \E v \in Workers : Start(v) \/ Step(v)
  <2>1. ~(\E p \in Pids : Crash(p)) /\ ~PowerLoss
    BY <1>1 DEF Crash, PowerLoss, StopWorkers
  <2>2. ~(WriteBackTree \/ NoMoreCalls \/ UNCHANGED vars)
    BY <1>1 DEF WriteBackTree, NoMoreCalls, vars, threadVars
  <2> QED
    BY <2>1, <2>2 DEF Next
<1>3. Start(w) \/ Step(w)
  BY <1>1, <1>2, ActsAlone
<1>4. ~Start(w)
  BY DEF Start, StartInstall, StartRestore, StartRemove, StartSnapshot, Call, Busy, Writing
<1>5. ~WriteFails(w)
  BY <1>1 DEF WriteFails, Return, Goto, TypeOK
<1> QED
  BY <1>3, <1>4, <1>5 DEF Step, EnsureAdminTree, EnsureAdminTreeFails, CreateTemp, NameTaken, CreateFails,
     WriteChunk, FsyncTemp, UnlinkFinal, UnlinkFails, FsyncDirectory, FsyncDirectoryFails,
     LstatFinal, OpenFinal, ReadChunk, SnapshotFails, Reading

\* Nobody's renameat publishes the text of another worker or attempt.
THEOREM RenamesOwnText == Spec => RenamePublishesOwnText
<1>1. IInv /\ [Next]_vars =>
        \A w \in Workers :
          pc[w] = "rename" /\ pc'[w] = "fsyncDir" => TextOf(dir[Final])' = text[w]
  BY OnlyRename, RenamedText
<1> QED
  BY <1>1, Invariant, PTL DEF Spec, RenamePublishesOwnText
-----------------------------------------------------------------------------
\* The refinement of AtomicFile: renameat and unlinkat replace the file, fsync and the
\* write-back of a directory make it durable, and every other step stutters.

OnDisk == {TextOf(i) : i \in pending[Final]}

\* Steps that leave the Quadlet, and the texts it may have on disk, as they are.
LEMMA SameFile ==
    ASSUME TypeOK,
           dir'[Final] = dir[Final], pending'[Final] = pending[Final],
           \A i \in Inodes \cap (pending[Final] \cup {dir[Final]}) : data'[i] = data[i]
    PROVE  TextOf(dir[Final])' = TextOf(dir[Final]) /\ OnDisk' = OnDisk
<1>1. pending[Final] \cup {dir[Final]} \subseteq Inodes \cup {Absent}
  BY NamesDiffer DEF TypeOK
<1>2. \A i \in pending[Final] \cup {dir[Final]} : TextOf(i)' = TextOf(i)
  BY <1>1, TextFrame DEF TextOf
<1> QED
  BY <1>2 DEF OnDisk

\* The steps of atomic_write_file before renameat are not seen under the Quadlet's name.
LEMMA TempStutters ==
    ASSUME IInv, NEW w \in Workers,
           CreateTemp(w) \/ WriteChunk(w) \/ FsyncTemp(w) \/ WriteFails(w)
    PROVE  TextOf(dir[Final])' = TextOf(dir[Final]) /\ OnDisk' = OnDisk /\ tree' = tree
<1>1. TypeOK /\ Final \in Names /\ dir[Final] \in pending[Final]
  BY NamesDiffer DEF IInv
<1>2. CASE CreateTemp(w)
  <2>1. Tmp(w) # Final
    BY <1>1, <1>2, NamesDiffer DEF CreateTemp
  <2>2. PICK i \in Inodes : /\ ~InUse(i)
                            /\ Link(Tmp(w), i)
                            /\ data' = [data EXCEPT ![i] = [k \in 1..Chunks |-> Hole]]
    BY <1>2 DEF CreateTemp
  <2>3. i \notin pending[Final]
    BY <1>1, <2>2 DEF InUse
  <2>4. \A k \in Inodes \cap (pending[Final] \cup {dir[Final]}) : data'[k] = data[k]
    BY <1>1, <2>2, <2>3 DEF TypeOK
  <2>5. dir'[Final] = dir[Final] /\ pending'[Final] = pending[Final]
    BY <1>1, <2>1, <2>2 DEF Link, TypeOK
  <2> QED
    BY <1>1, <1>2, <2>4, <2>5, SameFile DEF CreateTemp
<1>3. CASE WriteChunk(w)
  <2>1. Owns(w) /\ fd[w] \notin pending[Final]
    <3>1. Owns(w) /\ pc[w] = "write"
      BY <1>3 DEF WriteChunk, Owns
    <3> QED
      BY <3>1, OwnTemp DEF Writer
  <2>2. \A k \in Inodes \cap (pending[Final] \cup {dir[Final]}) : data'[k] = data[k]
    BY <1>1, <1>3, <2>1 DEF WriteChunk, TypeOK
  <2> QED
    BY <1>1, <1>3, <2>2, SameFile DEF WriteChunk
<1>4. CASE FsyncTemp(w)
  BY <1>1, <1>4, SameFile DEF FsyncTemp
<1>5. CASE WriteFails(w)
  <2>1. Tmp(w) # Final
    BY <1>5, OwnTemp DEF WriteFails, Owns
  <2>2. dir'[Final] = dir[Final] /\ pending'[Final] = pending[Final]
    BY <1>1, <1>5, <2>1 DEF WriteFails, Link, TypeOK
  <2> QED
    BY <1>1, <1>5, <2>2, SameFile DEF WriteFails
<1> QED
  BY <1>2, <1>3, <1>4, <1>5

\* Steps that leave the disk alone.
LEMMA QuietStutters ==
    ASSUME IInv, UNCHANGED diskVars
    PROVE  TextOf(dir[Final])' = TextOf(dir[Final]) /\ OnDisk' = OnDisk
BY SameFile DEF IInv, diskVars

\* The first use of a missing directory makes nothing durable: there was no Quadlet.
LEMMA TreeStutters ==
    ASSUME IInv, NEW w \in Workers, EnsureAdminTree(w)
    PROVE  TextOf(dir[Final])' = TextOf(dir[Final]) /\ Durable' = Durable
<1>1. TextOf(dir[Final])' = TextOf(dir[Final]) /\ OnDisk' = OnDisk
  BY QuietStutters DEF EnsureAdminTree
<1>2. tree = "absent" => OnDisk = {Absent}
  BY AbsentText DEF IInv, NoTree, OnDisk
<1>3. Durable = OnDisk \cup (IF tree = "fresh" THEN {Absent} ELSE {})
      /\ Durable' = OnDisk' \cup (IF tree' = "fresh" THEN {Absent} ELSE {})
  BY DEF Durable, OnDisk
<1>4. tree' = "fresh" <=> tree \in {"absent", "fresh"}
  BY DEF EnsureAdminTree
<1> QED
  BY <1>1, <1>2, <1>3, <1>4

LEMMA WorkerRefines ==
    ASSUME IInv, NEW w \in Workers, Start(w) \/ Step(w)
    PROVE  \/ TextOf(dir[Final])' = TextOf(dir[Final]) /\ Durable' = Durable
           \/ \E v \in Texts \cup {Absent} : A!Replace(v)
           \/ A!Sync
<1>1. Durable = OnDisk \cup (IF tree = "fresh" THEN {Absent} ELSE {})
      /\ Durable' = OnDisk' \cup (IF tree' = "fresh" THEN {Absent} ELSE {})
  BY DEF Durable, OnDisk
<1>2. CASE \/ Start(w) \/ EnsureAdminTreeFails(w) \/ NameTaken(w) \/ CreateFails(w)
           \/ UnlinkFails(w) \/ FsyncDirectoryFails(w)
           \/ LstatFinal(w) \/ OpenFinal(w) \/ ReadChunk(w) \/ SnapshotFails(w)
  <2>1. UNCHANGED <<diskVars, tree>>
    BY <1>2 DEF Start, StartInstall, StartRestore, StartRemove, StartSnapshot, Call, EnsureAdminTreeFails,
       NameTaken, CreateFails, UnlinkFails, FsyncDirectoryFails, LstatFinal, OpenFinal, ReadChunk,
       SnapshotFails
  <2> QED
    BY <1>1, <2>1, QuietStutters
<1>3. CASE EnsureAdminTree(w)
  BY <1>3, TreeStutters
<1>4. CASE CreateTemp(w) \/ WriteChunk(w) \/ FsyncTemp(w) \/ WriteFails(w)
  BY <1>1, <1>4, TempStutters
<1>5. CASE RenameTemp(w)
  <2>1. TextOf(dir[Final])' = text[w] /\ OnDisk' = OnDisk \cup {text[w]} /\ text[w] \in Texts
    BY <1>5, RenamedText DEF OnDisk
  <2>2. tree' = tree
    BY <1>5 DEF RenameTemp
  <2>3. A!Replace(text[w])
    BY <1>1, <2>1, <2>2 DEF A!Replace
  <2> QED
    BY <2>1, <2>3
<1>6. CASE UnlinkFinal(w)
  <2>1. dir'[Final] = Absent /\ pending'[Final] = pending[Final] \cup {Absent} /\ data' = data /\ tree' = tree
    BY <1>6, NamesDiffer DEF IInv, TypeOK, UnlinkFinal, Link
  <2>2. \A i : TextOf(i)' = TextOf(i)
    BY <2>1 DEF TextOf, Whole
  <2>3. TextOf(dir[Final])' = Absent /\ OnDisk' = OnDisk \cup {Absent}
    BY <2>1, <2>2, AbsentText DEF OnDisk
  <2>4. A!Replace(Absent)
    BY <1>1, <2>1, <2>3 DEF A!Replace
  <2> QED
    BY <2>4
<1>7. CASE FsyncDirectory(w)
  <2>1. Final \in Names /\ dir[Final] \in pending[Final] /\ dir[Final] \in Inodes \cup {Absent}
    BY NamesDiffer DEF IInv, TypeOK
  <2>2. dir' = dir /\ tree' = tree /\ pending'[Final] = {dir[Final]}
    BY <1>7, <2>1 DEF FsyncDirectory
  <2>3. dir[Final] \in Inodes => data'[dir[Final]] = data[dir[Final]]
    BY <1>7, <2>1 DEF FsyncDirectory
  <2>4. TextOf(dir[Final])' = TextOf(dir[Final])
    BY <2>1, <2>2, <2>3 DEF TextOf, Whole
  <2>5. OnDisk' = {TextOf(dir[Final])} /\ TextOf(dir[Final]) \in OnDisk
    BY <2>1, <2>2, <2>4 DEF OnDisk
  <2>6. A!Sync
    BY <1>1, <2>2, <2>4, <2>5 DEF A!Sync
  <2> QED
    BY <2>6
<1> QED
  BY <1>2, <1>3, <1>4, <1>5, <1>6, <1>7 DEF Step

LEMMA PowerLossRefines ==
    ASSUME IInv, PowerLoss
    PROVE  A!PowerLoss
<1>1. Final \in Names /\ pending' = [n \in Names |-> {dir'[n]}]
  BY NamesDiffer DEF PowerLoss
<1>2. TextOf(dir[Final])' = TextOf(dir'[Final])
  BY PowerLossValues
<1>3. TextOf(dir'[Final]) \in Durable
  BY PowerLossValues, AbsentText DEF Durable
<1>4. Durable' = {TextOf(dir[Final])'}
  <2>1. tree' # "fresh"
    BY PowerLossValues
  <2>2. pending'[Final] = {dir'[Final]}
    BY <1>1
  <2> QED
    BY <2>1, <2>2 DEF Durable
<1> QED
  BY <1>2, <1>3, <1>4 DEF A!PowerLoss

LEMMA RefinementInit == Init => A!Init
<1> SUFFICES ASSUME Init PROVE A!Init
  OBVIOUS
<1>1. dir[Final] = Absent /\ pending[Final] = {Absent} /\ tree # "fresh"
  BY NamesDiffer, InstallerAssumption DEF Init
<1>2. Durable = {Absent}
  BY <1>1, AbsentText DEF Durable
<1> QED
  BY <1>1, <1>2, AbsentText DEF A!Init, A!Values

LEMMA RefinementStep ==
    IInv /\ [Next]_vars => [A!Next]_<<TextOf(dir[Final]), Durable>>
<1> SUFFICES ASSUME IInv, [Next]_vars PROVE [A!Next]_<<TextOf(dir[Final]), Durable>>
  OBVIOUS
<1>1. Durable = OnDisk \cup (IF tree = "fresh" THEN {Absent} ELSE {})
      /\ Durable' = OnDisk' \cup (IF tree' = "fresh" THEN {Absent} ELSE {})
  BY DEF Durable, OnDisk
<1>2. ASSUME NEW w \in Workers, Start(w) \/ Step(w)
      PROVE  [A!Next]_<<TextOf(dir[Final]), Durable>>
  BY <1>2, WorkerRefines DEF A!Next, A!Values
<1>3. CASE PowerLoss
  BY <1>3, PowerLossRefines DEF A!Next
<1>4. CASE WriteBackTree
  <2>1. TextOf(dir[Final])' = TextOf(dir[Final]) /\ OnDisk' = OnDisk
    BY <1>4, QuietStutters DEF WriteBackTree
  <2>2. TextOf(dir[Final]) \in OnDisk /\ tree' = "safe"
    BY <1>4 DEF WriteBackTree, IInv, OnDisk, Names
  <2>3. A!Sync
    BY <1>1, <2>1, <2>2 DEF A!Sync
  <2> QED
    BY <2>3 DEF A!Next
<1>5. CASE (\E p \in Pids : Crash(p)) \/ NoMoreCalls \/ UNCHANGED vars
  <2>1. UNCHANGED <<diskVars, tree>>
    BY <1>5 DEF Crash, NoMoreCalls, vars
  <2> QED
    BY <1>1, <2>1, QuietStutters
<1> QED
  BY <1>2, <1>3, <1>4, <1>5 DEF Next

\* The system calls together implement a file that is replaced in one step and after a
\* power loss is one of the texts it has had since it was last made durable.
THEOREM Refinement == Spec => AtomicReplacement
<1> QED
  BY RefinementInit, RefinementStep, Invariant, PTL DEF Spec, AtomicReplacement, A!Spec
=============================================================================
