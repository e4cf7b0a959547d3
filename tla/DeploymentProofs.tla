-------------------------- MODULE DeploymentProofs --------------------------
(***************************************************************************)
(* Theorems about Deployment, for any number of deployers, users, units    *)
(* and texts.  The inductive invariant says, for every step of deploy(),   *)
(* what the deployer there knows of its slot; what holds of a slot at rest *)
(* follows because a slot changes only in the hands of its lock's holder.  *)
(***************************************************************************)
EXTENDS Deployment, TLAPS

AtCommitted(s) == s \notin suspect => file[s] = committed[s]

AtLoaded(s) == s \notin stale => loaded[s] = file[s]

\* A reload has made the change of the file of d's slot known to the manager.
Reloaded(d) ==
    \/ pc[d] \in {"restart", "verify", "status", "rbRestart", "rbVerify"}
    \/ pc[d] = "restore" /\ failedAt[d] # "reload"

\* What d knows of the file of its slot: committed before it installs, its own
\* text until the rollback, the snapshot after it.
FileKnown(d) ==
    /\ pc[d] \in {"socket", "image", "snapshot", "install"} => AtCommitted(Slot(d))
    /\ pc[d] = "install" => snapshot[d] = file[Slot(d)]
    /\ pc[d] \in Installed =>
          /\ file[Slot(d)] = req[d].contents
          /\ Slot(d) \notin suspect => snapshot[d] = committed[Slot(d)]
    /\ pc[d] \in {"rbReload", "rbRestart", "rbVerify"} =>
          /\ file[Slot(d)] = snapshot[d]
          /\ AtCommitted(Slot(d))

\* What d knows of the unit of its slot.
UnitKnown(d) ==
    /\ pc[d] \in {"socket", "image", "snapshot", "install"} => AtLoaded(Slot(d))
    /\ Reloaded(d) => loaded[Slot(d)] = file[Slot(d)]
    /\ pc[d] = "status" => "restart_unit" \notin req[d].options
    /\ pc[d] = "verify" => running[Slot(d)] \in {req[d].contents, Absent}
    /\ pc[d] = "rbVerify" => running[Slot(d)] \in {snapshot[d], Absent}

\* Past the image step, the archive of the request has been imported.
ImageKnown(d) ==
    pc[d] \in Steps \ {"lock", "socket", "image"} /\ UsesArchive(req[d]) =>
        <<req[d].uid, req[d].contents>> \in images

\* Everything the invariant says of a deployer.
Mine(d) ==
    /\ pc[d] \in Steps => Admissible(req[d])
    /\ Critical(d) => holder[Slot(d)] = d
    /\ FileKnown(d)
    /\ UnitKnown(d)
    /\ ImageKnown(d)

\* Everything it says of a slot: held by a deployer at work on it, or at rest.
Resting(s) ==
    /\ holder[s] # Free => Critical(holder[s]) /\ Slot(holder[s]) = s
    /\ holder[s] = Free => AtCommitted(s) /\ AtLoaded(s)

IInv ==
    /\ TypeOK
    /\ \A d \in Deployers : Mine(d)
    /\ \A s \in Slots : Resting(s)
-----------------------------------------------------------------------------
\* An admissible request names a slot, an accepted text and a known user.
LEMMA AdmissibleSlot ==
    ASSUME NEW r \in Requests, Admissible(r)
    PROVE  /\ <<r.uid, r.unit>> \in Slots
           /\ r.uid \in Known \ {Root}
           /\ r.contents \in Contents
<1>1. r \in Bundles
  BY ConstantsAssumption
<1>2. r.unit \in Units /\ r.uid \in Known \ {Root}
  BY <1>1 DEF Bundles, Admissible, ValidBundle
<1>3. r.contents \in Contents
  BY <1>1 DEF Bundles
<1> QED
  BY <1>2, <1>3 DEF Slots

\* daemon-reload loads the files of one user and leaves the others' units alone.
LEMMA ReloadLoads ==
    ASSUME TypeOK, NEW u \in Known \ {Root}, ReloadManager(u)
    PROVE  /\ loaded' \in [Slots -> Revisions]
           /\ \A s \in Slots : s \in OfUser(u) => loaded'[s] = file[s]
           /\ \A s \in Slots : s \notin OfUser(u) => loaded'[s] = loaded[s]
           /\ \A s \in Slots : loaded'[s] \in {file[s], loaded[s]}
BY DEF TypeOK, ReloadManager, OfUser

\* The slot of d belongs to the user its request names.
LEMMA SlotOfUser ==
    ASSUME NEW d \in Deployers, Slot(d) \in Slots
    PROVE  Slot(d) \in OfUser(req[d].uid)
BY DEF Slot, OfUser

LEMMA InitInv == Init => IInv
<1> SUFFICES ASSUME Init PROVE IInv
  OBVIOUS
<1> USE DEF Init
<1>1. TypeOK
  <2>1. running \in [Slots -> Revisions] /\ file \in [Slots -> Revisions]
    OBVIOUS
  <2> QED
    BY <2>1, ConstantsAssumption DEF TypeOK, Outcomes, Revisions
<1>2. \A d \in Deployers : pc[d] = "idle"
  OBVIOUS
<1>3. \A d \in Deployers : Mine(d)
  BY <1>2 DEF Mine, Critical, FileKnown, UnitKnown, ImageKnown, Reloaded, Installed, Steps
<1>4. \A s \in Slots : Resting(s)
  BY DEF Resting, AtCommitted, AtLoaded
<1> QED
  BY <1>1, <1>3, <1>4 DEF IInv
-----------------------------------------------------------------------------
\* Frame rules: what a step does not touch stays known.

\* The deployer e takes no part in the step.
SameThread(e) ==
    /\ pc'[e] = pc[e] /\ req'[e] = req[e]
    /\ snapshot'[e] = snapshot[e] /\ failedAt'[e] = failedAt[e]

\* The step leaves the slot s alone, except that the manager may load its file.
SameSlot(s) ==
    /\ holder'[s] = holder[s] /\ file'[s] = file[s]
    /\ running'[s] = running[s] /\ committed'[s] = committed[s]
    /\ s \in suspect' <=> s \in suspect
    /\ \/ loaded'[s] = loaded[s] /\ (s \in stale' <=> s \in stale)
       \/ loaded'[s] = file[s]

LEMMA ThreadFrame ==
    ASSUME NEW e \in Deployers, Mine(e), SameThread(e), images \subseteq images',
           Critical(e) => SameSlot(Slot(e))
    PROVE  Mine(e)'
<1>1. Slot(e)' = Slot(e) /\ (UsesArchive(req[e])' <=> UsesArchive(req[e]))
      /\ (Admissible(req[e])' <=> Admissible(req[e]))
      /\ (Critical(e)' <=> Critical(e)) /\ (Reloaded(e)' <=> Reloaded(e))
  BY DEF SameThread, Slot, UsesArchive, Admissible, ValidBundle, Critical, Reloaded
<1>2. CASE ~Critical(e)
  BY <1>1, <1>2 DEF Mine, SameThread, Critical, FileKnown, UnitKnown, ImageKnown, Reloaded,
     Steps, Installed
<1>3. CASE Critical(e)
  <2>1. FileKnown(e)'
    BY <1>1, <1>3 DEF Mine, SameThread, SameSlot, FileKnown, AtCommitted
  <2>2. UnitKnown(e)'
    BY <1>1, <1>3 DEF Mine, SameThread, SameSlot, UnitKnown, AtLoaded
  <2>3. ImageKnown(e)'
    BY <1>1, <1>3 DEF Mine, SameThread, ImageKnown
  <2> QED
    BY <1>1, <1>3, <2>1, <2>2, <2>3 DEF Mine, SameThread, SameSlot
<1> QED
  BY <1>2, <1>3

LEMMA SlotFrame ==
    ASSUME NEW s \in Slots, Resting(s), SameSlot(s),
           holder[s] # Free => SameThread(holder[s])
    PROVE  Resting(s)'
BY DEF Resting, SameSlot, SameThread, Critical, Slot, AtCommitted, AtLoaded

\* A step of a deployer on a slot nobody else holds: only its own part and that
\* slot are left to check.
LEMMA SlotStep ==
    ASSUME IInv, NEW d \in Deployers, NEW s \in Slots, s = Slot(d), holder[s] \in {Free, d},
           TypeOK', images \subseteq images',
           \A e \in Deployers \ {d} : SameThread(e),
           \A r \in Slots \ {s} : SameSlot(r),
           Mine(d)', Resting(s)'
    PROVE  IInv'
<1>2. \A e \in Deployers \ {d} : Mine(e)'
  <2> TAKE e \in Deployers \ {d}
  <2>1. Critical(e) => Slot(e) \in Slots \ {s}
    BY AdmissibleSlot, ConstantsAssumption DEF IInv, TypeOK, Mine, Slot, Critical
  <2> QED
    BY <2>1, ThreadFrame DEF IInv
<1>3. \A r \in Slots \ {s} : Resting(r)'
  <2> TAKE r \in Slots \ {s}
  <2>1. holder[r] # Free => holder[r] \in Deployers \ {d}
    BY DEF IInv, TypeOK, Resting
  <2> QED
    BY <2>1, SlotFrame DEF IInv
<1> QED
  BY <1>2, <1>3 DEF IInv

\* A step that touches no slot and, of the deployers, only d, which holds no lock
\* before or after it.
LEMMA UnlockedStep ==
    ASSUME IInv, NEW d \in Deployers, ~Critical(d), TypeOK',
           UNCHANGED <<holder, file, unitVars, history>>,
           \A e \in Deployers \ {d} : SameThread(e),
           ~Critical(d)', pc'[d] \in Steps => Admissible(req[d])'
    PROVE  IInv'
<1>1. \A s \in Slots : SameSlot(s)
  BY DEF SameSlot, unitVars, history
<1>2. \A e \in Deployers \ {d} : Mine(e)'
  <2> TAKE e \in Deployers \ {d}
  <2>1. Critical(e) => Slot(e) \in Slots
    BY AdmissibleSlot DEF IInv, TypeOK, Mine, Slot, Critical
  <2> QED
    BY <1>1, <2>1, ThreadFrame DEF IInv, unitVars
<1>3. Mine(d)'
  BY DEF Mine, Critical, FileKnown, UnitKnown, ImageKnown, Reloaded, Steps, Installed
<1>4. \A s \in Slots : Resting(s)'
  <2> TAKE s \in Slots
  <2>1. holder[s] # Free => holder[s] \in Deployers \ {d}
    BY DEF IInv, TypeOK, Resting
  <2> QED
    BY <1>1, <2>1, SlotFrame DEF IInv
<1> QED
  BY <1>2, <1>3, <1>4 DEF IInv

\* A deployer past the lock works on a slot it holds, for an admissible request.
LEMMA AtWork ==
    ASSUME IInv, NEW d \in Deployers, Critical(d)
    PROVE  /\ TypeOK /\ Mine(d) /\ Admissible(req[d])
           /\ Slot(d) \in Slots /\ holder[Slot(d)] = d
           /\ Slot(d) \in OfUser(req[d].uid)
           /\ req[d].uid \in Known \ {Root} /\ req[d].contents \in Contents
<1>1. TypeOK /\ Mine(d) /\ Admissible(req[d]) /\ holder[Slot(d)] = d
  BY DEF IInv, Mine, Critical
<1>2. req[d] \in Requests
  BY <1>1 DEF TypeOK
<1> QED
  BY <1>1, <1>2, AdmissibleSlot, SlotOfUser DEF Slot

\* deploy() returns: the slot must be as a slot at rest.
LEMMA ReturnStep ==
    ASSUME IInv, NEW d \in Deployers, Critical(d), NEW s \in Slots, s = Slot(d),
           NEW o \in Outcomes, Return(d, o), TypeOK', images \subseteq images',
           \A r \in Slots \ {s} : holder'[r] = holder[r] => SameSlot(r),
           AtCommitted(s)', AtLoaded(s)'
    PROVE  IInv'
<1>1. TypeOK
  BY DEF IInv
<1>2. \A e \in Deployers \ {d} : SameThread(e)
  BY <1>1 DEF TypeOK, SameThread, Return, Goto
<1>3. pc'[d] = o /\ o \notin Steps
  BY <1>1 DEF TypeOK, Return, Goto, Outcomes, Steps
<1>4. Mine(d)'
  BY <1>3 DEF Mine, Critical, FileKnown, UnitKnown, ImageKnown, Reloaded, Steps, Installed
<1>5. holder'[s] = Free /\ \A r \in Slots \ {s} : SameSlot(r)
  BY <1>1 DEF TypeOK, Return
<1>6. Resting(s)'
  BY <1>5 DEF Resting
<1>7. holder[s] = d
  BY AtWork
<1> QED
  BY <1>2, <1>4, <1>5, <1>6, <1>7, SlotStep

\* The deployer keeps the lock.
LEMMA KeepsLockStep ==
    ASSUME IInv, NEW d \in Deployers, Critical(d), NEW s \in Slots, s = Slot(d),
           NEW step \in Steps \ {"lock"}, Goto(d, step), TypeOK',
           UNCHANGED <<req, holder>>, images \subseteq images',
           \A e \in Deployers \ {d} : snapshot'[e] = snapshot[e] /\ failedAt'[e] = failedAt[e],
           \A r \in Slots \ {s} : SameSlot(r),
           FileKnown(d)', UnitKnown(d)', ImageKnown(d)'
    PROVE  IInv'
<1>1. TypeOK /\ holder[s] = d /\ Admissible(req[d])
  BY AtWork
<1>2. \A e \in Deployers \ {d} : SameThread(e)
  BY <1>1 DEF TypeOK, SameThread, Goto
<1>3. pc'[d] = step /\ Slot(d)' = Slot(d) /\ Admissible(req[d])'
  BY <1>1 DEF TypeOK, Goto, Slot, Admissible, ValidBundle, UsesArchive
<1>4. Mine(d)'
  BY <1>1, <1>3 DEF Mine, Critical
<1>5. Resting(s)'
  BY <1>1, <1>3, ConstantsAssumption DEF Resting, Critical
<1> QED
  BY <1>2, <1>1, <1>4, <1>5, SlotStep
-----------------------------------------------------------------------------
\* One lemma per action.

LEMMA CallInv ==
    ASSUME IInv, NEW d \in Deployers, NEW r \in Requests, Call(d, r)
    PROVE  IInv'
<1>1. TypeOK /\ ~Critical(d)
  BY DEF IInv, Call, Reject, DryRun, Admit, Idle, Critical, Steps, Outcomes
<1>2. TypeOK'
  BY <1>1 DEF Call, Reject, DryRun, Admit, Goto, TypeOK, Steps, Outcomes, unitVars, history
<1>3. \A e \in Deployers \ {d} : SameThread(e)
  BY <1>1 DEF Call, Reject, DryRun, Admit, Goto, TypeOK, SameThread
<1>4. req'[d] = r /\ (pc'[d] \in Steps => pc'[d] = "lock" /\ Admissible(r))
  BY <1>1 DEF Call, Reject, DryRun, Admit, Goto, TypeOK, Steps
<1>5. ~Critical(d)' /\ (pc'[d] \in Steps => Admissible(req[d])')
  BY <1>4 DEF Critical, Admissible, ValidBundle, UsesArchive
<1>6. UNCHANGED <<holder, file, unitVars, history>>
  BY DEF Call, Reject, DryRun, Admit
<1> QED
  BY <1>1, <1>2, <1>3, <1>5, <1>6, UnlockedStep

LEMMA LockFailsInv ==
    ASSUME IInv, NEW d \in Deployers, LockFails(d)
    PROVE  IInv'
<1>1. TypeOK /\ ~Critical(d)
  BY DEF IInv, LockFails, Critical
<1>2. TypeOK'
  BY <1>1 DEF LockFails, Goto, TypeOK, Steps, Outcomes, unitVars, history
<1>3. \A e \in Deployers \ {d} : SameThread(e)
  BY <1>1 DEF LockFails, Goto, TypeOK, SameThread
<1>4. pc'[d] = "failed"
  BY <1>1 DEF LockFails, Goto, TypeOK
<1>5. ~Critical(d)' /\ pc'[d] \notin Steps
  BY <1>4 DEF Critical, Steps
<1>6. UNCHANGED <<holder, file, unitVars, history>>
  BY DEF LockFails
<1> QED
  BY <1>1, <1>2, <1>3, <1>5, <1>6, UnlockedStep

LEMMA AcquireLockInv ==
    ASSUME IInv, NEW d \in Deployers, AcquireLock(d)
    PROVE  IInv'
<1>1. TypeOK /\ Mine(d) /\ Admissible(req[d]) /\ req[d] \in Requests
  BY DEF IInv, Mine, TypeOK, AcquireLock, Steps
<1>2. PICK s \in Slots : s = Slot(d) /\ holder[s] = Free
  BY <1>1, AdmissibleSlot DEF Slot, AcquireLock
<1>3. pc'[d] \in {"snapshot", "socket", "image"} /\ (pc'[d] = "snapshot" => ~UsesArchive(req[d]))
  BY <1>1 DEF AcquireLock, Goto, TypeOK
<1>4. TypeOK'
  BY <1>1, <1>2 DEF AcquireLock, Goto, TypeOK, Steps, unitVars, history
<1>5. \A e \in Deployers \ {d} : SameThread(e)
  BY <1>1 DEF AcquireLock, Goto, TypeOK, SameThread
<1>6. \A r \in Slots \ {s} : SameSlot(r)
  BY <1>1, <1>2 DEF AcquireLock, TypeOK, SameSlot, unitVars, history
<1>7. Slot(d)' = s /\ holder'[s] = d /\ Critical(d)'
  <2>1. Slot(d)' = s
    BY <1>2 DEF AcquireLock, Slot
  <2>2. holder'[s] = d
    BY <1>1, <1>2 DEF AcquireLock, TypeOK
  <2>3. Critical(d)'
    BY <1>3 DEF Critical, Steps
  <2> QED
    BY <2>1, <2>2, <2>3
<1>8. AtCommitted(s)' /\ AtLoaded(s)'
  BY <1>2 DEF IInv, Resting, AtCommitted, AtLoaded, AcquireLock, unitVars, history
<1>9. Mine(d)'
  <2>1. FileKnown(d)' /\ UnitKnown(d)'
    BY <1>3, <1>7, <1>8 DEF FileKnown, UnitKnown, Reloaded, Installed
  <2>2. ImageKnown(d)'
    BY <1>3 DEF ImageKnown, AcquireLock, UsesArchive, Steps
  <2>3. Admissible(req[d])'
    BY <1>1 DEF AcquireLock, Admissible, ValidBundle, UsesArchive
  <2> QED
    BY <1>7, <2>1, <2>2, <2>3 DEF Mine
<1>10. Resting(s)'
  BY <1>7, ConstantsAssumption DEF Resting
<1>11. images \subseteq images'
  BY DEF AcquireLock, unitVars
<1> QED
  BY <1>2, <1>4, <1>5, <1>6, <1>9, <1>10, <1>11, SlotStep

LEMMA ValidateSocketInv ==
    ASSUME IInv, NEW d \in Deployers, ValidateSocket(d)
    PROVE  IInv'
<1>1. Critical(d) /\ UNCHANGED <<file, unitVars, history>>
  BY DEF ValidateSocket, Critical, Steps
<1>2. PICK s \in Slots : TypeOK /\ Mine(d) /\ s = Slot(d)
  BY <1>1, AtWork
<1>3. TypeOK'
  BY <1>2, ConstantsAssumption
     DEF ValidateSocket, Return, Goto, TypeOK, Steps, Outcomes, unitVars, history, Revisions
<1>4. AtCommitted(s) /\ AtLoaded(s)
  BY <1>2 DEF ValidateSocket, Mine, FileKnown, UnitKnown
<1>5. AtCommitted(s)' /\ AtLoaded(s)'
  BY <1>1, <1>4 DEF AtCommitted, AtLoaded, unitVars, history
<1>6. \A r \in Slots \ {s} : holder'[r] = holder[r] => SameSlot(r)
  BY <1>1 DEF SameSlot, unitVars, history
<1>7. CASE Return(d, "failed")
  <2>1. "failed" \in Outcomes /\ images \subseteq images'
    BY <1>1 DEF Outcomes, unitVars
  <2> QED
    BY <1>1, <1>2, <1>3, <1>5, <1>6, <1>7, <2>1, ReturnStep
<1>8. CASE Goto(d, "image") /\ UNCHANGED <<req, snapshot, failedAt, holder>>
  <2>1. pc'[d] = "image" /\ Slot(d)' = s
    BY <1>2, <1>8 DEF TypeOK, Goto, Slot
  <2>2. FileKnown(d)' /\ UnitKnown(d)' /\ ImageKnown(d)'
    BY <1>5, <2>1 DEF FileKnown, UnitKnown, ImageKnown, Reloaded, Installed
  <2>3. "image" \in Steps \ {"lock"} /\ images \subseteq images'
    BY <1>1 DEF Steps, unitVars
  <2> QED
    BY <1>1, <1>2, <1>3, <1>6, <1>8, <2>2, <2>3, KeepsLockStep
<1> QED
  BY <1>7, <1>8 DEF ValidateSocket

LEMMA LoadImageInv ==
    ASSUME IInv, NEW d \in Deployers, LoadImage(d)
    PROVE  IInv'
<1>1. Critical(d)
  BY DEF LoadImage, Critical, Steps
<1>2. PICK s \in Slots : TypeOK /\ Mine(d) /\ s = Slot(d)
                         /\ req[d].uid \in Known \ {Root} /\ req[d].contents \in Contents
  BY <1>1, AtWork
<1>3. TypeOK'
  BY <1>2 DEF LoadImage, Goto, TypeOK, Steps, history
<1>4. pc'[d] = "snapshot" /\ Slot(d)' = s
  BY <1>2 DEF LoadImage, Goto, TypeOK, Slot
<1>5. \A r \in Slots : SameSlot(r)
  BY DEF LoadImage, SameSlot, history
<1>6. AtCommitted(s)' /\ AtLoaded(s)'
  BY <1>2 DEF LoadImage, Mine, FileKnown, UnitKnown, AtCommitted, AtLoaded, history
<1>7. FileKnown(d)' /\ UnitKnown(d)'
  BY <1>4, <1>6 DEF FileKnown, UnitKnown, Reloaded, Installed
<1>8. ImageKnown(d)' /\ images \subseteq images'
  BY DEF LoadImage, ImageKnown
<1> QED
  BY <1>1, <1>2, <1>3, <1>5, <1>7, <1>8, KeepsLockStep DEF LoadImage, Steps

LEMMA LoadImageFailsInv ==
    ASSUME IInv, NEW d \in Deployers, LoadImageFails(d)
    PROVE  IInv'
<1>1. Critical(d)
  BY DEF LoadImageFails, Critical, Steps
<1>2. PICK s \in Slots : TypeOK /\ Mine(d) /\ s = Slot(d)
                         /\ req[d].uid \in Known \ {Root} /\ req[d].contents \in Contents
  BY <1>1, AtWork
<1>3. TypeOK'
  <2>1. images' \subseteq Known \X Contents
    BY <1>2 DEF LoadImageFails, TypeOK
  <2> QED
    BY <1>2, <2>1, ConstantsAssumption
       DEF LoadImageFails, Return, Goto, TypeOK, Outcomes, Revisions, history
<1>4. \A r \in Slots \ {s} : holder'[r] = holder[r] => SameSlot(r)
  BY DEF LoadImageFails, SameSlot, history
<1>5. AtCommitted(s)' /\ AtLoaded(s)'
  BY <1>2 DEF LoadImageFails, Mine, FileKnown, UnitKnown, AtCommitted, AtLoaded, history
<1> QED
  BY <1>1, <1>2, <1>3, <1>4, <1>5, ReturnStep DEF LoadImageFails, Outcomes

LEMMA TakeSnapshotInv ==
    ASSUME IInv, NEW d \in Deployers, TakeSnapshot(d)
    PROVE  IInv'
<1>1. Critical(d)
  BY DEF TakeSnapshot, Critical, Steps
<1>2. PICK s \in Slots : TypeOK /\ Mine(d) /\ s = Slot(d)
  BY <1>1, AtWork
<1>3. TypeOK'
  BY <1>2 DEF TakeSnapshot, Goto, TypeOK, Steps, unitVars, history
<1>4. pc'[d] = "install" /\ Slot(d)' = s /\ snapshot'[d] = file[s]
  BY <1>2 DEF TakeSnapshot, Goto, TypeOK, Slot
<1>5. \A r \in Slots : SameSlot(r)
  BY DEF TakeSnapshot, SameSlot, unitVars, history
<1>6. AtCommitted(s)' /\ AtLoaded(s)'
  BY <1>2 DEF TakeSnapshot, Mine, FileKnown, UnitKnown, AtCommitted, AtLoaded, unitVars, history
<1>7. FileKnown(d)' /\ UnitKnown(d)'
  BY <1>4, <1>6 DEF TakeSnapshot, FileKnown, UnitKnown, Reloaded, Installed
<1>8. ImageKnown(d)' /\ images \subseteq images'
  BY <1>2 DEF TakeSnapshot, Mine, ImageKnown, Steps, UsesArchive, unitVars
<1>9. \A e \in Deployers \ {d} : snapshot'[e] = snapshot[e] /\ failedAt'[e] = failedAt[e]
  BY <1>2 DEF TakeSnapshot, TypeOK
<1> QED
  BY <1>1, <1>2, <1>3, <1>5, <1>7, <1>8, <1>9, KeepsLockStep DEF TakeSnapshot, Steps

LEMMA SnapshotFailsInv ==
    ASSUME IInv, NEW d \in Deployers, SnapshotFails(d)
    PROVE  IInv'
<1>1. Critical(d)
  BY DEF SnapshotFails, Critical, Steps
<1>2. PICK s \in Slots : TypeOK /\ Mine(d) /\ s = Slot(d)
  BY <1>1, AtWork
<1>3. TypeOK'
  BY <1>2, ConstantsAssumption
     DEF SnapshotFails, Return, Goto, TypeOK, Outcomes, Revisions, unitVars, history
<1>4. \A r \in Slots \ {s} : holder'[r] = holder[r] => SameSlot(r)
  BY DEF SnapshotFails, SameSlot, unitVars, history
<1>5. AtCommitted(s)' /\ AtLoaded(s)' /\ images \subseteq images'
  BY <1>2 DEF SnapshotFails, Mine, FileKnown, UnitKnown, AtCommitted, AtLoaded, unitVars, history
<1> QED
  BY <1>1, <1>2, <1>3, <1>4, <1>5, ReturnStep DEF SnapshotFails, Outcomes

LEMMA InstallInv ==
    ASSUME IInv, NEW d \in Deployers, Install(d)
    PROVE  IInv'
<1>1. Critical(d)
  BY DEF Install, Critical, Steps
<1>2. PICK s \in Slots : TypeOK /\ Mine(d) /\ s = Slot(d) /\ req[d].contents \in Contents
  BY <1>1, AtWork
<1>3. TypeOK'
  BY <1>2 DEF Install, Goto, TypeOK, Steps, Revisions, unitVars, history
<1>4. pc'[d] = "reload" /\ Slot(d)' = s
  BY <1>2 DEF Install, Goto, TypeOK, Slot
<1>5. file'[s] = req[d].contents /\ \A r \in Slots \ {s} : SameSlot(r)
  BY <1>2 DEF Install, SameSlot, TypeOK, unitVars, history
<1>6. s \notin suspect => snapshot[d] = committed[s]
  BY <1>2 DEF Install, Mine, FileKnown, AtCommitted
<1>7. FileKnown(d)' /\ UnitKnown(d)'
  BY <1>4, <1>5, <1>6 DEF Install, FileKnown, UnitKnown, Reloaded, Installed, history
<1>8. ImageKnown(d)' /\ images \subseteq images'
  BY <1>2 DEF Install, Mine, ImageKnown, Steps, UsesArchive, unitVars
<1> QED
  BY <1>1, <1>2, <1>3, <1>5, <1>7, <1>8, KeepsLockStep DEF Install, Steps

LEMMA InstallFailsInv ==
    ASSUME IInv, NEW d \in Deployers, InstallFails(d)
    PROVE  IInv'
<1>1. Critical(d)
  BY DEF InstallFails, Critical, Steps
<1>2. PICK s \in Slots : TypeOK /\ s = Slot(d) /\ req[d].contents \in Contents
  BY <1>1, AtWork
<1>3. TypeOK'
  <2>1. file' \in [Slots -> Revisions]
    BY <1>2 DEF InstallFails, TypeOK, Revisions
  <2>2. suspect' \subseteq Slots /\ stale' \subseteq Slots
    BY <1>2 DEF InstallFails, TypeOK
  <2> QED
    BY <1>2, <2>1, <2>2, ConstantsAssumption
       DEF InstallFails, Return, Goto, TypeOK, Outcomes, Revisions, unitVars
<1>4. \A r \in Slots \ {s} : holder'[r] = holder[r] => SameSlot(r)
  BY <1>2 DEF InstallFails, SameSlot, TypeOK, unitVars
<1>5. AtCommitted(s)' /\ AtLoaded(s)' /\ images \subseteq images'
  BY <1>2 DEF InstallFails, AtCommitted, AtLoaded, unitVars
<1> QED
  BY <1>1, <1>2, <1>3, <1>4, <1>5, ReturnStep DEF InstallFails, Outcomes

\* What a reload for d's user, or an attempt at one that may have failed, does to
\* the slots: those of other users and of other deployers stay known.
LEMMA ReloadFrame ==
    ASSUME TypeOK, NEW u \in Known \ {Root}, ReloadManager(u),
           UNCHANGED <<holder, file, running, committed, suspect>>,
           stale' = stale \ OfUser(u)
    PROVE  \A r \in Slots : SameSlot(r)
<1> TAKE r \in Slots
<1>1. CASE r \in OfUser(u)
  BY <1>1, ReloadLoads DEF SameSlot
<1>2. CASE r \notin OfUser(u)
  BY <1>2, ReloadLoads DEF SameSlot
<1> QED
  BY <1>1, <1>2

LEMMA ReloadInv ==
    ASSUME IInv, NEW d \in Deployers, Reload(d)
    PROVE  IInv'
<1>1. Critical(d)
  BY DEF Reload, Critical, Steps
<1>2. PICK s \in Slots : TypeOK /\ Mine(d) /\ s = Slot(d) /\ s \in OfUser(req[d].uid)
                         /\ req[d].uid \in Known \ {Root}
  BY <1>1, AtWork
<1>3. ReloadManager(req[d].uid)
  BY DEF Reload
<1>4. loaded' \in [Slots -> Revisions] /\ loaded'[s] = file[s]
  BY <1>2, <1>3, ReloadLoads
<1>5. TypeOK'
  BY <1>2, <1>4 DEF Reload, Goto, TypeOK, Steps
<1>6. /\ pc'[d] \in {"restart", "status"} /\ Slot(d)' = s
      /\ pc'[d] = "status" => "restart_unit" \notin req'[d].options
  BY <1>2 DEF Reload, Goto, TypeOK, Slot
<1>7. \A r \in Slots : SameSlot(r)
  BY <1>2, <1>3, ReloadFrame DEF Reload
<1>8. FileKnown(d)' /\ UnitKnown(d)'
  BY <1>2, <1>4, <1>6 DEF Reload, Mine, FileKnown, UnitKnown, Reloaded, Installed
<1>9. ImageKnown(d)' /\ images \subseteq images'
  BY <1>2 DEF Reload, Mine, ImageKnown, Steps, UsesArchive
<1>10. Goto(d, "restart") \/ Goto(d, "status")
  BY DEF Reload
<1> QED
  BY <1>1, <1>2, <1>5, <1>7, <1>8, <1>9, <1>10, KeepsLockStep DEF Reload, Steps

LEMMA ReloadFailsInv ==
    ASSUME IInv, NEW d \in Deployers, ReloadFails(d)
    PROVE  IInv'
<1>1. Critical(d)
  BY DEF ReloadFails, Critical, Steps
<1>2. PICK s \in Slots : TypeOK /\ Mine(d) /\ s = Slot(d) /\ req[d].uid \in Known \ {Root}
  BY <1>1, AtWork
<1>3. /\ loaded' \in [Slots -> Revisions]
      /\ \A r \in Slots : loaded'[r] \in {file[r], loaded[r]}
  BY <1>2, ReloadLoads DEF ReloadFails, TypeOK
<1>4. TypeOK'
  BY <1>2, <1>3 DEF ReloadFails, Goto, TypeOK, Steps, history
<1>5. pc'[d] = "restore" /\ failedAt'[d] = "reload" /\ Slot(d)' = s
  BY <1>2 DEF ReloadFails, Goto, TypeOK, Slot
<1>6. \A r \in Slots : SameSlot(r)
  BY <1>3 DEF ReloadFails, SameSlot, history
<1>7. FileKnown(d)' /\ UnitKnown(d)'
  BY <1>2, <1>5 DEF ReloadFails, Mine, FileKnown, UnitKnown, Reloaded, Installed, history
<1>8. ImageKnown(d)' /\ images \subseteq images'
  BY <1>2 DEF ReloadFails, Mine, ImageKnown, Steps, UsesArchive
<1>9. \A e \in Deployers \ {d} : snapshot'[e] = snapshot[e] /\ failedAt'[e] = failedAt[e]
  BY <1>2 DEF ReloadFails, TypeOK
<1> QED
  BY <1>1, <1>2, <1>4, <1>6, <1>7, <1>8, <1>9, KeepsLockStep DEF ReloadFails, Steps

LEMMA RestartInv ==
    ASSUME IInv, NEW d \in Deployers, Restart(d)
    PROVE  IInv'
<1>1. Critical(d)
  BY DEF Restart, Critical, Steps
<1>2. PICK s \in Slots : TypeOK /\ Mine(d) /\ s = Slot(d)
  BY <1>1, AtWork
<1>3. TypeOK'
  BY <1>2 DEF Restart, Goto, TypeOK, Steps, history
<1>4. pc'[d] = "verify" /\ Slot(d)' = s /\ running'[s] = loaded[s]
  BY <1>2 DEF Restart, Goto, TypeOK, Slot
<1>5. \A r \in Slots \ {s} : SameSlot(r)
  BY <1>2 DEF Restart, SameSlot, TypeOK, history
<1>6. loaded[s] = file[s] /\ file[s] = req[d].contents
  BY <1>2 DEF Restart, Mine, FileKnown, UnitKnown, Reloaded, Installed
<1>7. FileKnown(d)' /\ UnitKnown(d)'
  BY <1>2, <1>4, <1>6 DEF Restart, Mine, FileKnown, UnitKnown, Reloaded, Installed, history
<1>8. ImageKnown(d)' /\ images \subseteq images'
  BY <1>2 DEF Restart, Mine, ImageKnown, Steps, UsesArchive
<1> QED
  BY <1>1, <1>2, <1>3, <1>5, <1>7, <1>8, KeepsLockStep DEF Restart, Steps

LEMMA RestartFailsInv ==
    ASSUME IInv, NEW d \in Deployers, RestartFails(d)
    PROVE  IInv'
<1>1. Critical(d)
  BY DEF RestartFails, Critical, Steps
<1>2. PICK s \in Slots : TypeOK /\ Mine(d) /\ s = Slot(d)
  BY <1>1, AtWork
<1>3. running' \in [Slots -> Revisions] /\ \A r \in Slots \ {s} : running'[r] = running[r]
  BY <1>2 DEF RestartFails, TypeOK, Revisions
<1>4. TypeOK'
  BY <1>2, <1>3 DEF RestartFails, Goto, TypeOK, Steps, history
<1>5. pc'[d] = "restore" /\ Slot(d)' = s
  BY <1>2 DEF RestartFails, Goto, TypeOK, Slot
<1>6. \A r \in Slots \ {s} : SameSlot(r)
  BY <1>3 DEF RestartFails, SameSlot, history
<1>7. FileKnown(d)' /\ UnitKnown(d)'
  BY <1>2, <1>5 DEF RestartFails, Mine, FileKnown, UnitKnown, Reloaded, Installed, history
<1>8. ImageKnown(d)' /\ images \subseteq images'
  BY <1>2 DEF RestartFails, Mine, ImageKnown, Steps, UsesArchive
<1>9. \A e \in Deployers \ {d} : snapshot'[e] = snapshot[e] /\ failedAt'[e] = failedAt[e]
  BY <1>2 DEF RestartFails, TypeOK
<1> QED
  BY <1>1, <1>2, <1>4, <1>6, <1>7, <1>8, <1>9, KeepsLockStep DEF RestartFails, Steps

LEMMA VerifyFailsInv ==
    ASSUME IInv, NEW d \in Deployers, VerifyFails(d)
    PROVE  IInv'
<1>1. Critical(d)
  BY DEF VerifyFails, Critical, Steps
<1>2. PICK s \in Slots : TypeOK /\ Mine(d) /\ s = Slot(d)
  BY <1>1, AtWork
<1>3. TypeOK'
  BY <1>2 DEF VerifyFails, Goto, TypeOK, Steps, unitVars, history
<1>4. pc'[d] = "restore" /\ Slot(d)' = s
  BY <1>2 DEF VerifyFails, Goto, TypeOK, Slot
<1>5. \A r \in Slots : SameSlot(r)
  BY DEF VerifyFails, SameSlot, unitVars, history
<1>6. FileKnown(d)' /\ UnitKnown(d)'
  BY <1>2, <1>4 DEF VerifyFails, Mine, FileKnown, UnitKnown, Reloaded, Installed, unitVars, history
<1>7. ImageKnown(d)' /\ images \subseteq images'
  BY <1>2 DEF VerifyFails, Mine, ImageKnown, Steps, UsesArchive, unitVars
<1>8. \A e \in Deployers \ {d} : snapshot'[e] = snapshot[e] /\ failedAt'[e] = failedAt[e]
  BY <1>2 DEF VerifyFails, TypeOK
<1> QED
  BY <1>1, <1>2, <1>3, <1>5, <1>6, <1>7, <1>8, KeepsLockStep DEF VerifyFails, Steps

\* VerifyHealthy and QueryStatus commit the text of d.
LEMMA CommitInv ==
    ASSUME IInv, NEW d \in Deployers, VerifyHealthy(d) \/ QueryStatus(d)
    PROVE  IInv'
<1>1. /\ Critical(d) /\ Return(d, "ok") /\ Reloaded(d)
      /\ committed' = [committed EXCEPT ![Slot(d)] = req[d].contents]
      /\ suspect' = suspect \ {Slot(d)}
      /\ UNCHANGED <<file, unitVars, stale>>
  BY DEF VerifyHealthy, QueryStatus, Critical, Steps, Reloaded
<1>2. PICK s \in Slots : TypeOK /\ Mine(d) /\ s = Slot(d) /\ req[d].contents \in Contents
  BY <1>1, AtWork
<1>3. TypeOK'
  BY <1>1, <1>2, ConstantsAssumption
     DEF Return, Goto, TypeOK, Outcomes, Revisions, unitVars
<1>4. \A r \in Slots \ {s} : holder'[r] = holder[r] => SameSlot(r)
  BY <1>1, <1>2 DEF SameSlot, TypeOK, unitVars
<1>5. file[s] = req[d].contents /\ loaded[s] = file[s]
  BY <1>1, <1>2 DEF VerifyHealthy, QueryStatus, Mine, FileKnown, UnitKnown, Installed
<1>6. AtCommitted(s)' /\ AtLoaded(s)' /\ images \subseteq images'
  BY <1>1, <1>2, <1>5 DEF AtCommitted, AtLoaded, TypeOK, unitVars
<1> QED
  BY <1>1, <1>2, <1>3, <1>4, <1>6, ReturnStep DEF Outcomes

LEMMA RestoreInv ==
    ASSUME IInv, NEW d \in Deployers, Restore(d)
    PROVE  IInv'
<1>1. Critical(d)
  BY DEF Restore, Critical, Steps
<1>2. PICK s \in Slots : TypeOK /\ Mine(d) /\ s = Slot(d)
  BY <1>1, AtWork
<1>3. TypeOK'
  BY <1>2 DEF Restore, Goto, TypeOK, Steps, unitVars, history
<1>4. pc'[d] = "rbReload" /\ Slot(d)' = s
  BY <1>2 DEF Restore, Goto, TypeOK, Slot
<1>5. file'[s] = snapshot[d] /\ \A r \in Slots \ {s} : SameSlot(r)
  BY <1>2 DEF Restore, SameSlot, TypeOK, unitVars, history
<1>6. s \notin suspect => snapshot[d] = committed[s]
  BY <1>2 DEF Restore, Mine, FileKnown, Installed
<1>7. FileKnown(d)' /\ UnitKnown(d)'
  BY <1>4, <1>5, <1>6 DEF Restore, FileKnown, UnitKnown, Reloaded, Installed, AtCommitted, history
<1>8. ImageKnown(d)' /\ images \subseteq images'
  BY <1>2 DEF Restore, Mine, ImageKnown, Steps, UsesArchive, unitVars
<1> QED
  BY <1>1, <1>2, <1>3, <1>5, <1>7, <1>8, KeepsLockStep DEF Restore, Steps

LEMMA RestoreFailsInv ==
    ASSUME IInv, NEW d \in Deployers, RestoreFails(d)
    PROVE  IInv'
<1>1. Critical(d)
  BY DEF RestoreFails, Critical, Steps
<1>2. PICK s \in Slots : TypeOK /\ s = Slot(d)
  BY <1>1, AtWork
<1>3. TypeOK'
  <2>1. file' \in [Slots -> Revisions]
    BY <1>2 DEF RestoreFails, TypeOK
  <2>2. suspect' \subseteq Slots /\ stale' \subseteq Slots
    BY <1>2 DEF RestoreFails, TypeOK
  <2> QED
    BY <1>2, <2>1, <2>2, ConstantsAssumption
       DEF RestoreFails, Return, Goto, TypeOK, Outcomes, Revisions, unitVars
<1>4. \A r \in Slots \ {s} : holder'[r] = holder[r] => SameSlot(r)
  BY <1>2 DEF RestoreFails, SameSlot, TypeOK, unitVars
<1>5. AtCommitted(s)' /\ AtLoaded(s)' /\ images \subseteq images'
  BY <1>2 DEF RestoreFails, AtCommitted, AtLoaded, unitVars
<1> QED
  BY <1>1, <1>2, <1>3, <1>4, <1>5, ReturnStep DEF RestoreFails, Outcomes

LEMMA RollbackReloadInv ==
    ASSUME IInv, NEW d \in Deployers, RollbackReload(d)
    PROVE  IInv'
<1>1. Critical(d)
  BY DEF RollbackReload, Critical, Steps
<1>2. PICK s \in Slots : TypeOK /\ Mine(d) /\ s = Slot(d) /\ s \in OfUser(req[d].uid)
                         /\ req[d].uid \in Known \ {Root}
  BY <1>1, AtWork
<1>3. ReloadManager(req[d].uid)
  BY DEF RollbackReload
<1>4. loaded' \in [Slots -> Revisions] /\ loaded'[s] = file[s]
  BY <1>2, <1>3, ReloadLoads
<1>5. TypeOK'
  <2>1. stale' \subseteq Slots
    BY <1>2 DEF RollbackReload, TypeOK
  <2>2. pc' \in [Deployers -> Steps \cup Outcomes]
    BY <1>2 DEF RollbackReload, Return, Goto, TypeOK, Steps, Outcomes
  <2>3. /\ snapshot' \in [Deployers -> Revisions]
        /\ failedAt' \in [Deployers -> {"none", "reload", "restart"}]
        /\ holder' \in [Slots -> Deployers \cup {Free}]
    BY <1>2, ConstantsAssumption DEF RollbackReload, Return, TypeOK, Revisions
  <2>4. UNCHANGED <<req, file, running, images, committed, suspect>>
    BY DEF RollbackReload, Return
  <2> QED
    BY <1>2, <1>4, <2>1, <2>2, <2>3, <2>4 DEF TypeOK
<1>6. \A r \in Slots : file'[r] = file[r] /\ running'[r] = running[r]
                       /\ committed'[r] = committed[r] /\ (r \in suspect' <=> r \in suspect)
  BY DEF RollbackReload
<1>7. \A r \in Slots : holder'[r] = holder[r] => SameSlot(r)
  <2> TAKE r \in Slots
  <2>1. CASE r \in OfUser(req[d].uid)
    BY <1>2, <1>3, <1>6, <2>1, ReloadLoads DEF SameSlot
  <2>2. CASE r \notin OfUser(req[d].uid)
    <3>1. loaded'[r] = loaded[r] /\ (r \in stale' <=> r \in stale)
      BY <1>2, <1>3, <2>2, ReloadLoads DEF RollbackReload
    <3> QED
      BY <1>6, <3>1 DEF SameSlot
  <2> QED
    BY <2>1, <2>2
<1>8. file[s] = snapshot[d] /\ AtCommitted(s)
  BY <1>2 DEF RollbackReload, Mine, FileKnown
<1>9. AtCommitted(s)' /\ AtLoaded(s)'
  BY <1>2, <1>4, <1>6, <1>8 DEF AtCommitted, AtLoaded
<1>10. images \subseteq images'
  BY DEF RollbackReload
<1>11. CASE Return(d, "rolled_back")
  BY <1>1, <1>2, <1>5, <1>7, <1>9, <1>10, <1>11, ReturnStep DEF Outcomes
<1>12. CASE Goto(d, "rbRestart") /\ UNCHANGED <<req, snapshot, failedAt, holder>>
  <2>1. pc'[d] = "rbRestart" /\ Slot(d)' = s
    BY <1>2, <1>12 DEF Goto, TypeOK, Slot
  <2>2. FileKnown(d)' /\ UnitKnown(d)'
    BY <1>4, <1>6, <1>8, <1>9, <1>12, <2>1 DEF FileKnown, UnitKnown, Reloaded, Installed
  <2>3. ImageKnown(d)'
    BY <1>2, <1>12 DEF RollbackReload, Mine, ImageKnown, Steps, UsesArchive
  <2> QED
    BY <1>1, <1>2, <1>5, <1>7, <1>10, <1>12, <2>2, <2>3, KeepsLockStep DEF Steps
<1> QED
  BY <1>11, <1>12 DEF RollbackReload

LEMMA RollbackReloadFailsInv ==
    ASSUME IInv, NEW d \in Deployers, RollbackReloadFails(d)
    PROVE  IInv'
<1>1. Critical(d)
  BY DEF RollbackReloadFails, Critical, Steps
<1>2. PICK s \in Slots : TypeOK /\ Mine(d) /\ s = Slot(d) /\ req[d].uid \in Known \ {Root}
  BY <1>1, AtWork
<1>3. /\ loaded' \in [Slots -> Revisions]
      /\ \A r \in Slots : loaded'[r] \in {file[r], loaded[r]}
  BY <1>2, ReloadLoads DEF RollbackReloadFails, TypeOK
<1>4. TypeOK'
  BY <1>2, <1>3, ConstantsAssumption
     DEF RollbackReloadFails, Return, Goto, TypeOK, Outcomes, Revisions
<1>5. \A r \in Slots \ {s} : holder'[r] = holder[r] => SameSlot(r)
  BY <1>2, <1>3 DEF RollbackReloadFails, SameSlot
<1>6. AtCommitted(s)' /\ AtLoaded(s)' /\ images \subseteq images'
  BY <1>2 DEF RollbackReloadFails, Mine, FileKnown, AtCommitted, AtLoaded
<1> QED
  BY <1>1, <1>2, <1>4, <1>5, <1>6, ReturnStep DEF RollbackReloadFails, Outcomes

LEMMA RollbackRestartInv ==
    ASSUME IInv, NEW d \in Deployers, RollbackRestart(d)
    PROVE  IInv'
<1>1. Critical(d)
  BY DEF RollbackRestart, Critical, Steps
<1>2. PICK s \in Slots : TypeOK /\ Mine(d) /\ s = Slot(d)
  BY <1>1, AtWork
<1>3. TypeOK'
  BY <1>2 DEF RollbackRestart, Goto, TypeOK, Steps, history
<1>4. pc'[d] = "rbVerify" /\ Slot(d)' = s /\ running'[s] = loaded[s]
  BY <1>2 DEF RollbackRestart, Goto, TypeOK, Slot
<1>5. \A r \in Slots \ {s} : SameSlot(r)
  BY <1>2 DEF RollbackRestart, SameSlot, TypeOK, history
<1>6. loaded[s] = file[s] /\ file[s] = snapshot[d] /\ AtCommitted(s)
  BY <1>2 DEF RollbackRestart, Mine, FileKnown, UnitKnown, Reloaded
<1>7. FileKnown(d)' /\ UnitKnown(d)'
  BY <1>2, <1>4, <1>6 DEF RollbackRestart, FileKnown, UnitKnown, Reloaded, Installed,
     AtCommitted, history
<1>8. ImageKnown(d)' /\ images \subseteq images'
  BY <1>2 DEF RollbackRestart, Mine, ImageKnown, Steps, UsesArchive
<1> QED
  BY <1>1, <1>2, <1>3, <1>5, <1>7, <1>8, KeepsLockStep DEF RollbackRestart, Steps

\* RollbackRestartFails and RollbackVerify end a rollback that has restored the
\* file and reloaded the manager.
LEMMA RollbackEndsInv ==
    ASSUME IInv, NEW d \in Deployers, RollbackRestartFails(d) \/ RollbackVerify(d)
    PROVE  IInv'
<1>1. PICK o \in Outcomes :
         /\ Critical(d) /\ Return(d, o) /\ pc[d] \in {"rbRestart", "rbVerify"}
         /\ UNCHANGED <<file, loaded, images, history>>
  BY DEF RollbackRestartFails, RollbackVerify, Critical, Steps, Outcomes, unitVars
<1>2. PICK s \in Slots : TypeOK /\ Mine(d) /\ s = Slot(d)
  BY <1>1, AtWork
<1>3. running' \in [Slots -> Revisions] /\ \A r \in Slots \ {s} : running'[r] = running[r]
  BY <1>2 DEF RollbackRestartFails, RollbackVerify, TypeOK, Revisions, unitVars
<1>4. TypeOK'
  BY <1>1, <1>2, <1>3, ConstantsAssumption DEF Return, Goto, TypeOK, Revisions, history
<1>5. \A r \in Slots \ {s} : holder'[r] = holder[r] => SameSlot(r)
  BY <1>1, <1>3 DEF SameSlot, history
<1>6. AtCommitted(s)' /\ AtLoaded(s)' /\ images \subseteq images'
  BY <1>1, <1>2 DEF Mine, FileKnown, UnitKnown, Reloaded, AtCommitted, AtLoaded, history
<1> QED
  BY <1>1, <1>2, <1>4, <1>5, <1>6, ReturnStep

LEMMA CrashInv ==
    ASSUME IInv, NEW d \in Deployers, Crash(d)
    PROVE  IInv'
<1>1. TypeOK /\ Mine(d)
  BY DEF IInv
<1>2. CASE pc[d] = "lock"
  <2>1. ~Critical(d) /\ UNCHANGED <<holder, file, unitVars, history>>
    BY <1>2 DEF Crash, Critical, Installed, Unloaded, history
  <2>2. TypeOK'
    BY <1>1, <2>1, ConstantsAssumption
       DEF Crash, Goto, TypeOK, Outcomes, Revisions, unitVars, history
  <2>3. pc'[d] = "crashed" /\ \A e \in Deployers \ {d} : SameThread(e)
    BY <1>1 DEF Crash, Goto, TypeOK, SameThread
  <2>4. pc'[d] \notin Steps /\ ~Critical(d)'
    BY <2>3 DEF Steps, Critical
  <2> QED
    BY <2>1, <2>2, <2>3, <2>4, UnlockedStep
<1>3. CASE pc[d] # "lock"
  <2>1. Critical(d) /\ Return(d, "crashed")
    BY <1>3 DEF Crash, Critical, Return
  <2>2. PICK s \in Slots : s = Slot(d)
    BY <2>1, AtWork
  <2>3. TypeOK'
    BY <1>1, <2>1, <2>2, ConstantsAssumption
       DEF Crash, Return, Goto, TypeOK, Outcomes, Revisions, unitVars
  <2>4. \A r \in Slots \ {s} : holder'[r] = holder[r] => SameSlot(r)
    BY <2>2 DEF Crash, SameSlot, unitVars
  <2>5. AtCommitted(s)'
    BY <1>1, <1>3, <2>2 DEF Crash, Mine, FileKnown, AtCommitted, Installed, Steps
  <2>6. Unloaded(d) \/ AtLoaded(s)
    BY <1>1, <1>3, <2>2 DEF Crash, Mine, UnitKnown, AtLoaded, Unloaded, Reloaded, Steps
  <2>7. AtLoaded(s)' /\ images \subseteq images'
    BY <2>2, <2>6 DEF Crash, AtLoaded, unitVars
  <2> QED
    BY <2>1, <2>2, <2>3, <2>4, <2>5, <2>7, ReturnStep DEF Outcomes
<1> QED
  BY <1>2, <1>3

LEMMA UnitChangesInv ==
    ASSUME IInv, NEW s \in Slots, UnitChanges(s)
    PROVE  IInv'
<1>1. TypeOK /\ UNCHANGED <<pc, req, snapshot, failedAt, holder, file, loaded, images, history>>
  BY DEF IInv, UnitChanges, codeVars
<1>2. /\ running' \in [Slots -> Revisions]
      /\ running'[s] \in {loaded[s], Absent}
      /\ \A r \in Slots \ {s} : running'[r] = running[r]
  BY <1>1 DEF UnitChanges, TypeOK, Revisions
<1>3. TypeOK'
  BY <1>1, <1>2 DEF TypeOK, history
<1>4. \A d \in Deployers : Mine(d)'
  <2> TAKE d \in Deployers
  <2>1. Mine(d)
    BY DEF IInv
  <2>2. Slot(d)' = Slot(d) /\ (Critical(d) => Slot(d) \in Slots)
    BY <1>1, AtWork DEF Slot
  <2>3. FileKnown(d)' /\ ImageKnown(d)'
    BY <1>1, <2>1, <2>2 DEF Mine, FileKnown, ImageKnown, AtCommitted, UsesArchive, history
  <2>4. UnitKnown(d)'
    <3>1. pc[d] = "verify" => loaded[Slot(d)] = req[d].contents
      BY <2>1 DEF Mine, FileKnown, UnitKnown, Reloaded, Installed
    <3>2. pc[d] = "rbVerify" => loaded[Slot(d)] = snapshot[d]
      BY <2>1 DEF Mine, FileKnown, UnitKnown, Reloaded
    <3>3. pc[d] \in {"verify", "rbVerify"} => Slot(d) \in Slots
      BY <2>2 DEF Critical, Steps
    <3>4. AtLoaded(Slot(d))' <=> AtLoaded(Slot(d))
      BY <1>1, <2>2 DEF AtLoaded, history
    <3>5. Reloaded(d)' <=> Reloaded(d)
      BY <1>1 DEF Reloaded
    <3> QED
      BY <1>1, <1>2, <2>1, <2>2, <3>1, <3>2, <3>3, <3>4, <3>5 DEF Mine, UnitKnown
  <2>5. Admissible(req[d])' <=> Admissible(req[d])
    BY <1>1 DEF Admissible, ValidBundle, UsesArchive
  <2> QED
    BY <1>1, <2>1, <2>2, <2>3, <2>4, <2>5 DEF Mine, Critical
<1>5. \A r \in Slots : Resting(r)'
  BY <1>1 DEF IInv, Resting, Critical, Slot, AtCommitted, AtLoaded, history
<1> QED
  BY <1>3, <1>4, <1>5 DEF IInv

LEMMA ManagerReloadsInv ==
    ASSUME IInv, NEW u \in Known \ {Root}, ManagerReloads(u)
    PROVE  IInv'
<1>1. TypeOK /\ ReloadManager(u)
  BY DEF IInv, ManagerReloads
<1>2. TypeOK'
  BY <1>1, ReloadLoads DEF ManagerReloads, TypeOK, codeVars
<1>3. \A r \in Slots : SameSlot(r)
  BY <1>1, ReloadFrame DEF ManagerReloads
<1>4. images \subseteq images' /\ \A e \in Deployers : SameThread(e)
  BY DEF ManagerReloads, SameThread, codeVars
<1>5. \A e \in Deployers : Mine(e)'
  <2> TAKE e \in Deployers
  <2>1. Critical(e) => Slot(e) \in Slots
    BY AtWork
  <2> QED
    BY <1>3, <1>4, <2>1, ThreadFrame DEF IInv
<1>6. \A r \in Slots : Resting(r)'
  <2> TAKE r \in Slots
  <2>1. holder[r] # Free => holder[r] \in Deployers
    BY <1>1 DEF TypeOK
  <2> QED
    BY <1>3, <1>4, <2>1, SlotFrame DEF IInv
<1> QED
  BY <1>2, <1>5, <1>6 DEF IInv
-----------------------------------------------------------------------------
LEMMA ProceedInv ==
    ASSUME IInv, NEW d \in Deployers, Proceed(d)
    PROVE  IInv'
BY AcquireLockInv, LockFailsInv, ValidateSocketInv, LoadImageInv, LoadImageFailsInv,
   TakeSnapshotInv, SnapshotFailsInv, InstallInv, InstallFailsInv, ReloadInv,
   ReloadFailsInv, RestartInv, RestartFailsInv, VerifyFailsInv, CommitInv, RestoreInv,
   RestoreFailsInv, RollbackReloadInv, RollbackReloadFailsInv, RollbackRestartInv,
   RollbackEndsInv
   DEF Proceed

LEMMA NextInv == IInv /\ [Next]_vars => IInv'
<1> SUFFICES ASSUME IInv, [Next]_vars PROVE IInv'
  OBVIOUS
<1>1. CASE \E d \in Deployers, r \in Requests : Call(d, r)
  BY <1>1, CallInv
<1>2. CASE \E d \in Deployers : Proceed(d)
  BY <1>2, ProceedInv
<1>3. CASE \E d \in Deployers : Crash(d)
  BY <1>3, CrashInv
<1>4. CASE \E s \in Slots : UnitChanges(s)
  BY <1>4, UnitChangesInv
<1>5. CASE \E u \in Known \ {Root} : ManagerReloads(u)
  BY <1>5, ManagerReloadsInv
<1>6. CASE UNCHANGED vars
  <2>1. UNCHANGED <<pc, req, snapshot, failedAt, holder, file, loaded, running, images,
                    committed, suspect, stale>>
    BY <1>6 DEF vars, codeVars, unitVars, history
  <2>2. TypeOK'
    BY <2>1 DEF IInv, TypeOK
  <2>3. (\A d \in Deployers : SameThread(d)) /\ (\A s \in Slots : SameSlot(s))
    BY <2>1 DEF SameThread, SameSlot
  <2>4. \A d \in Deployers : Mine(d)'
    BY <2>1, <2>3, AtWork, ThreadFrame DEF IInv
  <2>5. \A s \in Slots : Resting(s)'
    BY <2>1, <2>3, SlotFrame DEF IInv, TypeOK
  <2> QED
    BY <2>2, <2>4, <2>5 DEF IInv
<1> QED
  BY <1>1, <1>2, <1>3, <1>4, <1>5, <1>6 DEF Next

LEMMA AlwaysInv == Spec => []IInv
BY InitInv, NextInv, PTL DEF Spec

LEMMA InvImplies ==
    IInv => /\ TypeOK /\ LockOwnership /\ RestingFileIsCommitted
            /\ RestingUnitIsLoaded /\ JudgedRevision
<1> SUFFICES ASSUME IInv
             PROVE  /\ TypeOK /\ LockOwnership /\ RestingFileIsCommitted
                    /\ RestingUnitIsLoaded /\ JudgedRevision
  OBVIOUS
<1>1. TypeOK
  BY DEF IInv
<1>2. LockOwnership
  BY DEF IInv, Mine, LockOwnership
<1>3. RestingFileIsCommitted /\ RestingUnitIsLoaded
  BY DEF IInv, Resting, RestingFileIsCommitted, RestingUnitIsLoaded, AtCommitted, AtLoaded
<1>4. JudgedRevision
  BY DEF IInv, Mine, UnitKnown, JudgedRevision
<1> QED
  BY <1>1, <1>2, <1>3, <1>4

-----------------------------------------------------------------------------
\* What a deployer past the checks of deploy() works on: a Quadlet of a known user
\* other than root, with a text the policy accepted.
WorksOnSlots ==
    \A d \in Deployers : pc[d] \in Steps =>
        Slot(d) \in Slots /\ req[d].uid \in Known \ {Root} /\ req[d].contents \in Accepted

LEMMA InvWorksOnSlots == IInv => WorksOnSlots
<1> SUFFICES ASSUME IInv, NEW d \in Deployers, pc[d] \in Steps
             PROVE  Slot(d) \in Slots /\ req[d].uid \in Known \ {Root} /\ req[d].contents \in Accepted
  BY DEF WorksOnSlots
<1>1. Admissible(req[d]) /\ req[d] \in Requests
  BY DEF IInv, Mine, TypeOK
<1> QED
  BY <1>1, AdmissibleSlot DEF Slot, Admissible

\* Every variable of the orchestrator keeps its type, and every deployer at work, from
\* lock_deployment to the end of the rollback, works on a Quadlet of a known user other
\* than root with an accepted text: what validate_deployment_bundle, resolve_uid and
\* expected_install found at the start of deploy() holds to its end.
THEOREM TypeCorrect == Spec => [](TypeOK /\ WorksOnSlots)
BY AlwaysInv, InvImplies, InvWorksOnSlots, PTL

\* Deployments of one Quadlet exclude each other from the snapshot to the end of
\* the rollback, whatever crashes.
THEOREM LockIsOwned == Spec => []LockOwnership
BY AlwaysInv, InvImplies, PTL

\* With nobody deploying, the Quadlet on disk is that of the last successful
\* deployment, unless a crash, a failed install or a failed restore left another.
THEOREM FileAtRest == Spec => []RestingFileIsCommitted
BY AlwaysInv, InvImplies, PTL

\* With nobody deploying, the manager has loaded the Quadlet on disk, unless an
\* operation that should have reloaded it died or reported that it did not.
THEOREM UnitAtRest == Spec => []RestingUnitIsLoaded
BY AlwaysInv, InvImplies, PTL

\* deploy() judges the health of its own revision, and rollback that of the
\* snapshot.
THEOREM OwnRevisionJudged == Spec => []JudgedRevision
BY AlwaysInv, InvImplies, PTL

\* A file is written by an install or a restore, that of a deployer on its own slot.
LEMMA FileWritten ==
    ASSUME IInv, Next, NEW s \in Slots, file'[s] # file[s]
    PROVE  \E d \in Deployers :
              /\ Install(d) \/ InstallFails(d) \/ Restore(d) \/ RestoreFails(d)
              /\ TypeOK /\ Admissible(req[d]) /\ holder[s] = d /\ s = Slot(d)
<1>1. PICK d \in Deployers : Install(d) \/ InstallFails(d) \/ Restore(d) \/ RestoreFails(d)
  BY DEF Next, Call, Reject, DryRun, Admit, Proceed, AcquireLock, LockFails,
     ValidateSocket, LoadImage, LoadImageFails, TakeSnapshot, SnapshotFails, Reload,
     ReloadFails, Restart, RestartFails, VerifyHealthy, VerifyFails, QueryStatus,
     RollbackReload, RollbackReloadFails, RollbackRestart, RollbackRestartFails,
     RollbackVerify, Crash, UnitChanges, ManagerReloads
<1>2. Critical(d)
  BY <1>1 DEF Install, InstallFails, Restore, RestoreFails, Critical, Steps
<1>3. TypeOK /\ holder[Slot(d)] = d /\ Admissible(req[d])
  BY <1>2, AtWork
<1>4. s = Slot(d)
  BY <1>1, <1>3 DEF Install, InstallFails, Restore, RestoreFails, TypeOK
<1> QED
  BY <1>1, <1>3, <1>4

\* Only the holder of a slot's lock changes its Quadlet.
THEOREM HolderWrites == Spec => OnlyHolderWrites
<1>1. IInv /\ [Next]_vars =>
         [\A s \in Slots : file'[s] # file[s] => WrittenByHolder(s)]_vars
  <2> SUFFICES ASSUME IInv, Next, NEW s \in Slots, file'[s] # file[s]
               PROVE  WrittenByHolder(s)
    OBVIOUS
  <2>1. PICK d \in Deployers :
           /\ Install(d) \/ InstallFails(d) \/ Restore(d) \/ RestoreFails(d)
           /\ TypeOK /\ holder[s] = d
    BY FileWritten
  <2>2. pc[d] \in {"install", "restore"} /\ pc'[d] # pc[d]
    BY <2>1 DEF Install, InstallFails, Restore, RestoreFails, Return, Goto, TypeOK
  <2> QED
    BY <2>1, <2>2 DEF WrittenByHolder
<1> QED
  BY <1>1, AlwaysInv, PTL DEF Spec, OnlyHolderWrites

\* No text gets on disk that was not accepted by the policy or read from that file
\* by the deployer that restores it.
THEOREM AcceptedTextsAppear == Spec => OnlyAcceptedTextsAppear
<1> DEFINE Appears == \A s \in Slots : file'[s] # file[s] =>
              file'[s] \in Accepted \/ \E d \in Deployers : holder[s] = d /\ file'[s] = snapshot[d]
<1>1. IInv /\ [Next]_vars => [Appears]_vars
  <2> SUFFICES ASSUME IInv, Next, NEW s \in Slots, file'[s] # file[s]
               PROVE  \/ file'[s] \in Accepted
                      \/ \E d \in Deployers : holder[s] = d /\ file'[s] = snapshot[d]
    OBVIOUS
  <2>1. PICK d \in Deployers :
           /\ Install(d) \/ InstallFails(d) \/ Restore(d) \/ RestoreFails(d)
           /\ TypeOK /\ Admissible(req[d]) /\ holder[s] = d /\ s = Slot(d)
    BY FileWritten
  <2>2. file'[s] \in {req[d].contents, snapshot[d]}
    BY <2>1 DEF Install, InstallFails, Restore, RestoreFails, TypeOK
  <2> QED
    BY <2>1, <2>2 DEF Admissible
<1> QED
  BY <1>1, AlwaysInv, PTL DEF Spec, OnlyAcceptedTextsAppear

\* A deployment that reports success has its text installed and loaded, running
\* if it was to restart the unit, and its archive imported.
THEOREM SuccessVerified == Spec => SuccessIsVerified
<1> DEFINE Verified == \A d \in Deployers :
              pc[d] \in Steps /\ pc'[d] = "ok" =>
                  /\ file[Slot(d)] = req[d].contents
                  /\ loaded[Slot(d)] = req[d].contents
                  /\ "restart_unit" \in req[d].options => running[Slot(d)] = req[d].contents
                  /\ UsesArchive(req[d]) => <<req[d].uid, req[d].contents>> \in images
<1>1. IInv /\ [Next]_vars => [Verified]_vars
  <2> SUFFICES ASSUME IInv, Next, NEW d \in Deployers, pc[d] \in Steps, pc'[d] = "ok"
               PROVE  /\ file[Slot(d)] = req[d].contents
                      /\ loaded[Slot(d)] = req[d].contents
                      /\ "restart_unit" \in req[d].options => running[Slot(d)] = req[d].contents
                      /\ UsesArchive(req[d]) => <<req[d].uid, req[d].contents>> \in images
    OBVIOUS
  <2>1. VerifyHealthy(d) \/ QueryStatus(d)
    BY DEF IInv, TypeOK, Goto, Return, Steps, Outcomes, Idle, codeVars,
       Next, Call, Reject, DryRun, Admit, Proceed, AcquireLock, LockFails,
       ValidateSocket, LoadImage, LoadImageFails, TakeSnapshot, SnapshotFails, Reload,
       Install, InstallFails, Restore, RestoreFails,
       ReloadFails, Restart, RestartFails, VerifyHealthy, VerifyFails, QueryStatus,
       RollbackReload, RollbackReloadFails, RollbackRestart, RollbackRestartFails,
       RollbackVerify, Crash, UnitChanges, ManagerReloads
  <2>2. Mine(d)
    BY DEF IInv
  <2> QED
    BY <2>1, <2>2 DEF VerifyHealthy, QueryStatus, Healthy, Mine, FileKnown, UnitKnown,
       ImageKnown, Installed, Reloaded
<1> QED
  BY <1>1, AlwaysInv, PTL DEF Spec, SuccessIsVerified
-----------------------------------------------------------------------------
\* The refinement of DeploymentTransaction.

\* Settled without its CHOOSE: a slot whose holder is between install and outcome
\* has that holder's snapshot, every other one its file.
LEMMA SettledValue ==
    ASSUME NEW s \in Slots
    PROVE  /\ \A d \in Deployers : holder[s] = d /\ pc[d] \in Installed => Settled[s] = snapshot[d]
           /\ (\A d \in Deployers : holder[s] = d => pc[d] \notin Installed) => Settled[s] = file[s]
<1>1. \A d \in Deployers : holder[s] = d => (CHOOSE e \in Deployers : holder[s] = e) = d
  OBVIOUS
<1> QED
  BY <1>1 DEF Settled

\* The same of the next state.
LEMMA SettledNext ==
    ASSUME NEW s \in Slots
    PROVE  /\ \A d \in Deployers : holder'[s] = d /\ pc'[d] \in Installed => Settled'[s] = snapshot'[d]
           /\ (\A d \in Deployers : holder'[s] = d => pc'[d] \notin Installed) => Settled'[s] = file'[s]
<1>1. \A d \in Deployers : holder'[s] = d => (CHOOSE e \in Deployers : holder'[s] = e) = d
  OBVIOUS
<1> QED
  BY <1>1 DEF Settled

\* No call, deployer or slot but d and its own takes part in the step.
OnlySlotOf(d) ==
    /\ \A e \in Deployers \ {d} : pc'[e] = pc[e] /\ snapshot'[e] = snapshot[e]
    /\ \A r \in Slots \ {Slot(d)} : holder'[r] = holder[r] /\ file'[r] = file[r]

\* A deployer past the lock settles its own slot and no other.
LEMMA SettlesOwnSlot ==
    ASSUME IInv, NEW d \in Deployers, Critical(d), OnlySlotOf(d), NEW v, Settled'[Slot(d)] = v
    PROVE  Settled' = [Settled EXCEPT ![Slot(d)] = v]
<1>1. TypeOK /\ \A s \in Slots : Resting(s)
  BY DEF IInv
<1>2. ASSUME NEW r \in Slots \ {Slot(d)} PROVE Settled'[r] = Settled[r]
  <2>1. holder[r] # d /\ holder[r] \in Deployers \cup {Free}
    BY <1>1, ConstantsAssumption DEF Resting, TypeOK
  <2>2. holder'[r] = holder[r] /\ file'[r] = file[r]
    BY DEF OnlySlotOf
  <2>3. CASE \E e \in Deployers : holder[r] = e /\ pc[e] \in Installed
    <3>1. PICK e \in Deployers : holder[r] = e /\ pc[e] \in Installed
      BY <2>3
    <3>2. pc'[e] = pc[e] /\ snapshot'[e] = snapshot[e]
      BY <2>1, <3>1 DEF OnlySlotOf
    <3> QED
      BY <2>2, <3>1, <3>2, SettledValue, SettledNext
  <2>4. CASE \A e \in Deployers : holder[r] = e => pc[e] \notin Installed
    <3>1. \A e \in Deployers : holder'[r] = e => pc'[e] \notin Installed
      BY <2>1, <2>2, <2>4 DEF OnlySlotOf
    <3> QED
      BY <2>2, <2>4, <3>1, SettledValue, SettledNext
  <2> QED
    BY <2>3, <2>4
<1>3. Settled = [s \in Slots |-> Settled[s]] /\ Settled' = [s \in Slots |-> Settled'[s]]
  BY DEF Settled
<1> QED
  BY <1>2, <1>3

\* A deployer changes no file, and what lock it takes or gives up it holds outside
\* of install and outcome.
QuietStep(d) ==
    /\ UNCHANGED <<file, committed, suspect>>
    /\ \A e \in Deployers \ {d} : pc'[e] = pc[e] /\ snapshot'[e] = snapshot[e]
    /\ \A s \in Slots : \/ holder'[s] = holder[s]
                        \/ pc[d] \notin Installed /\ {holder[s], holder'[s]} \subseteq {d, Free}
    /\ pc'[d] \in Installed <=> pc[d] \in Installed
    /\ pc[d] \in Installed => snapshot'[d] = snapshot[d]

\* Such a step is none of a transaction.
LEMMA QuietStutters ==
    ASSUME NEW d \in Deployers, QuietStep(d)
    PROVE  UNCHANGED <<Settled, committed, suspect>>
<1>1. ASSUME NEW s \in Slots PROVE Settled'[s] = Settled[s]
  <2>1. CASE \E e \in Deployers : holder[s] = e /\ pc[e] \in Installed
    <3>1. PICK e \in Deployers : holder[s] = e /\ pc[e] \in Installed
      BY <2>1
    <3>2. holder'[s] = e /\ pc'[e] \in Installed /\ snapshot'[e] = snapshot[e]
      BY <3>1, ConstantsAssumption DEF QuietStep
    <3> QED
      BY <3>1, <3>2, SettledValue, SettledNext
  <2>2. CASE \A e \in Deployers : holder[s] = e => pc[e] \notin Installed
    <3>1. \A e \in Deployers : holder'[s] = e => pc'[e] \notin Installed
      BY <2>2, ConstantsAssumption DEF QuietStep
    <3> QED
      BY <2>2, <3>1, SettledValue, SettledNext DEF QuietStep
  <2> QED
    BY <2>1, <2>2
<1>2. Settled = [s \in Slots |-> Settled[s]] /\ Settled' = [s \in Slots |-> Settled'[s]]
  BY DEF Settled
<1> QED
  BY <1>1, <1>2 DEF QuietStep

LEMMA QuietActions ==
    ASSUME IInv, NEW d \in Deployers,
           \/ \E r \in Requests : Call(d, r)
           \/ AcquireLock(d) \/ LockFails(d) \/ ValidateSocket(d)
           \/ LoadImage(d) \/ LoadImageFails(d) \/ TakeSnapshot(d) \/ SnapshotFails(d)
           \/ Reload(d) \/ ReloadFails(d) \/ Restart(d) \/ RestartFails(d) \/ VerifyFails(d)
           \/ RollbackReload(d) \/ RollbackReloadFails(d)
           \/ RollbackRestart(d) \/ RollbackRestartFails(d) \/ RollbackVerify(d)
    PROVE  QuietStep(d)
<1>1. TypeOK /\ (Critical(d) => holder[Slot(d)] = d)
  BY DEF IInv, Mine
<1>2. CASE \E r \in Requests : Call(d, r)
  BY <1>1, <1>2 DEF TypeOK, Call, Reject, DryRun, Admit, Goto, Idle, QuietStep, Installed,
     Outcomes, history
<1>3. CASE AcquireLock(d) \/ LockFails(d)
  BY <1>1, <1>3 DEF TypeOK, AcquireLock, LockFails, Goto, QuietStep, Installed, history
<1>4. CASE ValidateSocket(d) \/ LoadImage(d) \/ LoadImageFails(d) \/ TakeSnapshot(d) \/ SnapshotFails(d)
  BY <1>1, <1>4 DEF TypeOK, ValidateSocket, LoadImage, LoadImageFails, TakeSnapshot, SnapshotFails,
     Return, Goto, QuietStep, Installed, Critical, Steps, history
<1>5. CASE Reload(d) \/ ReloadFails(d) \/ Restart(d) \/ RestartFails(d) \/ VerifyFails(d)
  BY <1>1, <1>5 DEF TypeOK, Reload, ReloadFails, Restart, RestartFails, VerifyFails,
     Goto, QuietStep, Installed, history
<1>6. CASE \/ RollbackReload(d) \/ RollbackReloadFails(d)
           \/ RollbackRestart(d) \/ RollbackRestartFails(d) \/ RollbackVerify(d)
  BY <1>1, <1>6 DEF TypeOK, RollbackReload, RollbackReloadFails, RollbackRestart,
     RollbackRestartFails, RollbackVerify, Return, Goto, QuietStep, Installed, Critical, Steps,
     history
<1> QED
  BY <1>2, <1>3, <1>4, <1>5, <1>6


\* Install puts a text in the file while the old one is in the snapshot; restore
\* puts the old one back.
LEMMA InstallStutters ==
    ASSUME IInv, NEW d \in Deployers, Install(d) \/ Restore(d)
    PROVE  UNCHANGED <<Settled, committed, suspect>>
<1>1. Critical(d)
  BY DEF Install, Restore, Critical, Steps
<1>2. PICK s \in Slots : TypeOK /\ Mine(d) /\ s = Slot(d) /\ holder[s] = d
  BY <1>1, AtWork
<1>3. OnlySlotOf(d)
  BY <1>2 DEF Install, Restore, Goto, OnlySlotOf, TypeOK
<1>4. holder'[s] = d /\ snapshot'[d] = snapshot[d]
  BY <1>2 DEF Install, Restore
<1>5. SUFFICES Settled'[s] = Settled[s]
  <2>1. Settled = [r \in Slots |-> Settled[r]]
    BY DEF Settled
  <2> QED
    BY <1>1, <1>2, <1>3, <2>1, SettlesOwnSlot DEF Install, Restore, history
<1>6. CASE Install(d)
  <2>1. pc[d] \notin Installed /\ pc'[d] \in Installed
    BY <1>2, <1>6 DEF Install, Goto, TypeOK, Installed
  <2>2. Settled[s] = file[s] /\ Settled'[s] = snapshot[d]
    BY <1>2, <1>4, <2>1, SettledValue, SettledNext
  <2>3. snapshot[d] = file[s]
    BY <1>2, <1>6 DEF Install, Mine, FileKnown
  <2> QED
    BY <2>2, <2>3
<1>7. CASE Restore(d)
  <2>1. pc[d] \in Installed /\ pc'[d] \notin Installed /\ file'[s] = snapshot[d]
    BY <1>2, <1>7 DEF Restore, Goto, TypeOK, Installed
  <2>2. Settled[s] = snapshot[d] /\ Settled'[s] = snapshot[d]
    BY <1>2, <1>4, <2>1, SettledValue, SettledNext
  <2> QED
    BY <2>2
<1> QED
  BY <1>6, <1>7

LEMMA CommitStep ==
    ASSUME IInv, NEW d \in Deployers, VerifyHealthy(d) \/ QueryStatus(d)
    PROVE  Transactions!Next
<1>1. /\ Critical(d) /\ pc[d] \in Installed /\ Return(d, "ok")
      /\ committed' = [committed EXCEPT ![Slot(d)] = req[d].contents]
      /\ suspect' = suspect \ {Slot(d)}
      /\ UNCHANGED file
  BY DEF VerifyHealthy, QueryStatus, Critical, Steps, Installed
<1>2. PICK s \in Slots : TypeOK /\ Mine(d) /\ s = Slot(d) /\ holder[s] = d /\ Admissible(req[d])
  BY <1>1, AtWork
<1>3. OnlySlotOf(d)
  BY <1>1, <1>2 DEF Return, Goto, OnlySlotOf, TypeOK
<1>4. file'[s] = req[d].contents /\ holder'[s] = Free
  BY <1>1, <1>2 DEF Mine, FileKnown, Return, TypeOK
<1>5. Settled'[s] = req[d].contents
  BY <1>4, SettledNext, ConstantsAssumption
<1>6. Transactions!Commit(s, req[d].contents)
  BY <1>1, <1>2, <1>3, <1>5, SettlesOwnSlot DEF Transactions!Commit
<1>7. req[d].contents \in Accepted
  BY <1>2 DEF Admissible
<1> QED
  BY <1>6, <1>7 DEF Transactions!Next

\* A failed install or restore, and the death of a deployer between install and
\* outcome, leave the deployer's text or the one it found.
LEMMA LeaveBehindStep ==
    ASSUME IInv, NEW d \in Deployers,
           InstallFails(d) \/ RestoreFails(d) \/ (Crash(d) /\ pc[d] \in Installed)
    PROVE  Transactions!Next
<1>1. Critical(d)
  BY DEF InstallFails, RestoreFails, Crash, Critical, Steps, Installed
<1>2. PICK s \in Slots : TypeOK /\ Mine(d) /\ s = Slot(d) /\ holder[s] = d /\ Admissible(req[d])
  BY <1>1, AtWork
<1>3. OnlySlotOf(d) /\ holder'[s] = Free
  BY <1>2 DEF InstallFails, RestoreFails, Crash, Return, Goto, OnlySlotOf, TypeOK, Installed
<1>4. Settled'[s] = file'[s]
  BY <1>3, SettledNext, ConstantsAssumption
<1>5. suspect' = suspect \cup {s} /\ UNCHANGED committed
  BY <1>2 DEF InstallFails, RestoreFails, Crash
<1>6. Transactions!LeaveBehind(s, file'[s])
  BY <1>1, <1>2, <1>3, <1>4, <1>5, SettlesOwnSlot DEF Transactions!LeaveBehind
<1>7. file'[s] \in {req[d].contents, Settled[s]}
  <2>1. CASE InstallFails(d)
    <3>1. Settled[s] = file[s]
      BY <1>2, <2>1, SettledValue DEF InstallFails, Installed
    <3> QED
      BY <1>2, <2>1, <3>1 DEF InstallFails, TypeOK
  <2>2. CASE RestoreFails(d)
    <3>1. Settled[s] = snapshot[d] /\ file[s] = req[d].contents
      BY <1>2, <2>2, SettledValue DEF RestoreFails, Installed, Mine, FileKnown
    <3> QED
      BY <1>2, <2>2, <3>1 DEF RestoreFails, TypeOK
  <2>3. CASE Crash(d) /\ pc[d] \in Installed
    BY <1>2, <2>3 DEF Crash, Mine, FileKnown
  <2> QED
    BY <2>1, <2>2, <2>3
<1>8. req[d].contents \in Accepted
  BY <1>2 DEF Admissible
<1> QED
  BY <1>6, <1>7, <1>8 DEF Transactions!Next

LEMMA RefinementStep == IInv /\ [Next]_vars => [Transactions!Next]_<<Settled, committed, suspect>>
<1> SUFFICES ASSUME IInv, [Next]_vars
             PROVE  Transactions!Next \/ UNCHANGED <<Settled, committed, suspect>>
  OBVIOUS
<1>1. CASE \E d \in Deployers : (\E r \in Requests : Call(d, r)) \/ Proceed(d)
  <2>1. PICK d \in Deployers : (\E r \in Requests : Call(d, r)) \/ Proceed(d)
    BY <1>1
  <2>2. CASE Install(d) \/ Restore(d)
    BY <2>2, InstallStutters
  <2>3. CASE VerifyHealthy(d) \/ QueryStatus(d)
    BY <2>3, CommitStep
  <2>4. CASE InstallFails(d) \/ RestoreFails(d)
    BY <2>4, LeaveBehindStep
  <2>5. CASE QuietStep(d)
    BY <2>5, QuietStutters
  <2> QED
    BY <2>1, <2>2, <2>3, <2>4, <2>5, QuietActions DEF Proceed
<1>2. CASE \E d \in Deployers : Crash(d)
  <2>1. PICK d \in Deployers : Crash(d)
    BY <1>2
  <2>2. CASE pc[d] \in Installed
    BY <2>1, <2>2, LeaveBehindStep
  <2>3. CASE pc[d] \notin Installed
    <3>1. TypeOK /\ (Critical(d) => holder[Slot(d)] = d)
      BY DEF IInv, Mine
    <3>2. QuietStep(d)
      BY <2>1, <2>3, <3>1 DEF TypeOK, Crash, Goto, QuietStep, Installed, Critical
    <3> QED
      BY <3>2, QuietStutters
  <2> QED
    BY <2>2, <2>3
<1>3. CASE (\E s \in Slots : UnitChanges(s)) \/ (\E u \in Known \ {Root} : ManagerReloads(u))
  BY <1>3 DEF UnitChanges, ManagerReloads, codeVars, history, Settled
<1>4. CASE UNCHANGED vars
  BY <1>4 DEF vars, codeVars, history, Settled
<1> QED
  BY <1>1, <1>2, <1>3, <1>4 DEF Next

LEMMA RefinementInit == Init => Transactions!Init
<1> SUFFICES ASSUME Init PROVE Transactions!Init
  OBVIOUS
<1>1. \A s \in Slots : Settled[s] = file[s]
  BY SettledValue DEF Init, Installed
<1>2. Settled = [s \in Slots |-> Settled[s]]
  BY DEF Settled
<1>3. Settled = file
  BY <1>1, <1>2 DEF Init
<1> QED
  BY <1>3 DEF Init, Transactions!Init

\* Every behaviour of any number of deployers is a sequence of transactions on
\* single Quadlets: deploy() commits its text in one step or amounts to nothing,
\* unless install or restore failed or the deployer died.
THEOREM Refinement == Spec => Transaction
BY AlwaysInv, RefinementInit, RefinementStep, PTL DEF Spec, Transaction, Transactions!Spec
=============================================================================
