------------------------------ MODULE UnitJob ------------------------------
(***************************************************************************)
(* SdbusUserSystemdController (src/src/systemd_sdbus.cpp) as run by        *)
(* several threads against one user's systemd manager: unit_job_and_wait   *)
(* subscribes to JobRemoved, calls a method that queues a job, waits for   *)
(* the signal of that job, with a timeout, and reads the unit's status     *)
(* property by property.                                                   *)
(*                                                                         *)
(* Signals that reach a connection are queued until its event loop runs.   *)
(* They are kept as a set: the code must not depend on their order.        *)
(***************************************************************************)
EXTENDS Naturals, FiniteSets

CONSTANTS
    Callers,    \* threads calling the controller
    Units,      \* unit names that validate_systemd_unit_name accepts
    BadName,    \* one that it refuses
    Requested,  \* operations the callers use
    MaxJobs,    \* bound: jobs of the manager
    None        \* no job, no result, nothing read

Jobs == 1..MaxJobs
Methods == {"StartUnit", "RestartUnit", "StopUnit"}
Operations == Methods \cup {"Reload", "status"}

\* Results of a job; "pending" until it is removed.
Results == {"done", "failed", "canceled"}

ASSUME UnitJobAssumption ==
    /\ MaxJobs \in Nat
    /\ Requested \subseteq Operations
    /\ BadName \notin Units
    /\ None \notin Nat
    /\ None \notin Results \cup {"loaded", "not-found", "active", "inactive", "running", "dead"}

\* SubState refines ActiveState and follows it.
UnitStates == {s \in [LoadState : {"loaded", "not-found"}, ActiveState : {"active", "inactive"},
                      SubState : {"running", "dead"}] :
                  s.ActiveState = "active" <=> s.SubState = "running"}

Properties == {"LoadState", "ActiveState", "SubState"}
Values == {"loaded", "not-found", "active", "inactive", "running", "dead", None}

Idle == {"idle", "ok", "error", "timeout"}
Waiting == {"reply", "wait", "leave"}  \* subscribed to JobRemoved
Reading == {"LoadUnit", "LoadState", "ActiveState", "SubState"}
Steps == {"reload", "subscribe", "call"} \cup Waiting \cup Reading

VARIABLES
    pc,        \* next step of each caller, or how its last call ended
    op,        \* operation each caller runs
    unit,      \* its unit
    reply,     \* answer to its method call, once the manager has sent it
    queued,    \* JobRemoved signals on its connection, not dispatched yet
    expected,  \* *expected_job
    promise,   \* job_result
    out        \* UnitStatus being gathered

callerVars == <<pc, op, unit, reply, queued, expected, promise, out>>

VARIABLES
    unitState, \* what the manager's properties say of each unit
    current,   \* the job of each unit in the manager's queue
    next,      \* id of the next job
    jobUnit, jobMethod, result

managerVars == <<unitState, current, next, jobUnit, jobMethod, result>>

\* History variable: whether the unit has been loaded and active at one moment
\* since its status is being read.
VARIABLE seenHealthy

vars == <<callerVars, managerVars, seenHealthy>>
-----------------------------------------------------------------------------
Goto(c, step) == pc' = [pc EXCEPT ![c] = step]

\* The call returns an error: what it gathered is dropped, the connection is closed
\* with what is queued on it.
Return(c, outcome) ==
    /\ Goto(c, outcome)
    /\ expected' = [expected EXCEPT ![c] = None]
    /\ out' = [out EXCEPT ![c] = [p \in Properties |-> None]]
    /\ reply' = [reply EXCEPT ![c] = None]
    /\ queued' = [queued EXCEPT ![c] = {}]
    /\ promise' = [promise EXCEPT ![c] = None]

Healthy(s) == s.LoadState = "loaded" /\ s.ActiveState = "active"

\* How the history variable starts to watch a unit, and follows it.
Watch(c) == seenHealthy' = [seenHealthy EXCEPT ![c] = Healthy(unitState[unit[c]])]

Observe ==
    seenHealthy' = [c \in Callers |->
        seenHealthy[c] \/ (pc[c] \in Reading /\ Healthy(unitState'[unit[c]]))]

Init ==
    /\ pc = [c \in Callers |-> "idle"]
    /\ op = [c \in Callers |-> "status"]
    /\ unit \in [Callers -> Units]
    /\ reply = [c \in Callers |-> None]
    /\ queued = [c \in Callers |-> {}]
    /\ expected = [c \in Callers |-> None]
    /\ promise = [c \in Callers |-> None]
    /\ out = [c \in Callers |-> [p \in Properties |-> None]]
    /\ unitState \in [Units -> UnitStates]
    /\ current = [u \in Units |-> None]
    /\ next = 1
    /\ jobUnit = [j \in Jobs |-> None]
    /\ jobMethod = [j \in Jobs |-> None]
    /\ result = [j \in Jobs |-> "pending"]
    /\ seenHealthy = [c \in Callers |-> FALSE]
-----------------------------------------------------------------------------
\* The controller.

FirstStep(o) ==
    CASE o = "Reload" -> "reload"
      [] o = "status" -> "LoadUnit"
      [] OTHER -> "subscribe"

\* An operation is called; daemon_reload names no unit.
Call(c, o, u) ==
    /\ pc[c] \in Idle
    /\ Goto(c, FirstStep(o))
    /\ op' = [op EXCEPT ![c] = o]
    /\ unit' = [unit EXCEPT ![c] = u]
    /\ expected' = [expected EXCEPT ![c] = None]
    /\ out' = [out EXCEPT ![c] = [p \in Properties |-> None]]
    /\ seenHealthy' = [seenHealthy EXCEPT ![c] = o = "status" /\ Healthy(unitState[u])]
    /\ UNCHANGED <<reply, queued, promise, managerVars>>

\* validate_systemd_unit_name refuses the name before anything else is done.
RefuseName(c, name) ==
    /\ pc[c] \in Idle
    /\ name = BadName
    /\ Goto(c, "error")
    /\ op' = [op EXCEPT ![c] = "status"]
    /\ expected' = [expected EXCEPT ![c] = None]
    /\ out' = [out EXCEPT ![c] = [p \in Properties |-> None]]
    /\ seenHealthy' = [seenHealthy EXCEPT ![c] = FALSE]
    /\ UNCHANGED <<unit, reply, queued, promise, managerVars>>

\* Opening the bus, a method call or a property read throws sdbus::Error, also
\* when no answer arrives within sdbus-c++'s own timeout.
CallFails(c) ==
    /\ pc[c] \in {"reload", "subscribe", "call", "reply"} \cup Reading
    /\ Return(c, "error")
    /\ UNCHANGED <<op, unit, managerVars, seenHealthy>>

\* uponSignal("JobRemoved"): from here on signals are queued on the connection.
Subscribe(c) ==
    /\ pc[c] = "subscribe"
    /\ Goto(c, "call")
    /\ UNCHANGED <<op, unit, reply, queued, expected, promise, out, managerVars, seenHealthy>>

\* Signals of the removal of the jobs R, with their results in r.
Removals(R, r) == {<<j, r[j]>> : j \in R}

\* Who gets them: every connection that has subscribed.
Broadcast(R, r) ==
    queued' = [c \in Callers |->
        IF pc[c] \in {"call"} \cup Waiting THEN queued[c] \cup Removals(R, r) ELSE queued[c]]

\* Jobs of these methods are merged, others replace what they conflict with.
Compatible(m, n) == m = n \/ "StopUnit" \notin {m, n}

\* Effect on the manager of a job of method m for unit u, in mode "replace":
\* j is the job, R the ones it removed.
Queue(u, m, j, R) ==
    LET old == current[u]
    IN  \/ /\ old # None
           /\ Compatible(m, jobMethod[old])
           /\ j = old /\ R = {}
           /\ jobMethod' = [jobMethod EXCEPT ![old] = m]
           /\ UNCHANGED <<current, next, jobUnit, result>>
        \/ /\ old # None => ~Compatible(m, jobMethod[old])
           /\ j = next /\ next \in Jobs
           /\ R = {old} \ {None}
           /\ next' = next + 1
           /\ current' = [current EXCEPT ![u] = j]
           /\ jobUnit' = [jobUnit EXCEPT ![j] = u]
           /\ jobMethod' = [jobMethod EXCEPT ![j] = m]
           /\ result' = [k \in Jobs |-> IF k \in R THEN "canceled" ELSE result[k]]

\* callMethod: the manager queues the job and answers with its path; or it refuses
\* or never answers, which CallFails follows.
CallMethod(c) ==
    /\ pc[c] = "call"
    /\ Goto(c, "reply")
    /\ \/ \E j \in Jobs, R \in SUBSET Jobs :
             /\ Queue(unit[c], op[c], j, R)
             /\ reply' = [reply EXCEPT ![c] = j]
             /\ Broadcast(R, result')
       \/ UNCHANGED <<reply, queued, current, next, jobUnit, jobMethod, result>>
    /\ UNCHANGED <<op, unit, expected, promise, out, unitState, seenHealthy>>

\* Mutant: the proxy runs an event loop of its own, as sdbus-c++'s proxies do by
\* default, so that signals are dispatched, and ignored, before the assignment.
ReceiveReply_LoopRunning(c) ==
    /\ pc[c] = "reply"
    /\ reply[c] # None
    /\ expected' = [expected EXCEPT ![c] = reply[c]]
    /\ queued' = [queued EXCEPT ![c] = {}]
    /\ reply' = [reply EXCEPT ![c] = None]
    /\ Goto(c, "wait")
    /\ UNCHANGED <<op, unit, promise, out, managerVars, seenHealthy>>

\* The job's path is stored and only then enterEventLoopAsync called.
ReceiveReply(c) ==
    /\ pc[c] = "reply"
    /\ reply[c] # None
    /\ expected' = [expected EXCEPT ![c] = reply[c]]
    /\ reply' = [reply EXCEPT ![c] = None]
    /\ Goto(c, "wait")
    /\ UNCHANGED <<op, unit, queued, promise, out, managerVars, seenHealthy>>

\* Mutant: any job's removal is taken for that of the expected one.
Dispatch_AnyJob(c) ==
    /\ pc[c] \in {"wait", "leave"}
    /\ \E s \in queued[c] :
          /\ queued' = [queued EXCEPT ![c] = @ \ {s}]
          /\ promise' = IF promise[c] = None THEN [promise EXCEPT ![c] = s[2]] ELSE promise
    /\ UNCHANGED <<pc, op, unit, reply, expected, out, managerVars, seenHealthy>>

\* The event loop dispatches a signal to the callback; it runs until the caller
\* has left it.
Dispatch(c) ==
    /\ pc[c] \in {"wait", "leave"}
    /\ \E s \in queued[c] :
          /\ queued' = [queued EXCEPT ![c] = @ \ {s}]
          /\ promise' = IF promise[c] = None /\ s[1] = expected[c]
                        THEN [promise EXCEPT ![c] = s[2]] ELSE promise
    /\ UNCHANGED <<pc, op, unit, reply, expected, out, managerVars, seenHealthy>>

\* Mutant: what the job ended with is not looked at.
JobReady_AnyResult(c) ==
    /\ pc[c] = "wait"
    /\ promise[c] # None
    /\ Goto(c, "LoadUnit")
    /\ queued' = [queued EXCEPT ![c] = {}]
    /\ promise' = [promise EXCEPT ![c] = None]
    /\ Watch(c)
    /\ UNCHANGED <<op, unit, reply, expected, out, managerVars>>

\* wait_for is ready and the event loop left; a result other than "done" is an
\* error.
JobReady(c) ==
    /\ pc[c] = "wait"
    /\ promise[c] # None
    /\ \/ /\ promise[c] = "done"
          /\ Goto(c, "LoadUnit")
          /\ queued' = [queued EXCEPT ![c] = {}]
          /\ promise' = [promise EXCEPT ![c] = None]
          /\ Watch(c)
          /\ UNCHANGED <<reply, expected, out>>
       \/ /\ promise[c] # "done"
          /\ Return(c, "error")
          /\ UNCHANGED seenHealthy
    /\ UNCHANGED <<op, unit, managerVars>>

\* Mutant: wait() instead of wait_for().
WaitTimeout_Never(c) == FALSE /\ UNCHANGED vars

\* wait_for times out; the signal may still arrive while the loop is left.
WaitTimeout(c) ==
    /\ pc[c] = "wait"
    /\ promise[c] = None
    /\ Goto(c, "leave")
    /\ UNCHANGED <<op, unit, reply, queued, expected, promise, out, managerVars, seenHealthy>>

LeaveEventLoop(c) ==
    /\ pc[c] = "leave"
    /\ Return(c, "timeout")
    /\ UNCHANGED <<op, unit, managerVars, seenHealthy>>

\* Mutant: the unit is asked whether it is active before whether it is loaded.
NextRead_ActiveFirst(step) ==
    CASE step = "LoadUnit" -> "ActiveState"
      [] step = "ActiveState" -> "LoadState"
      [] step = "LoadState" -> "SubState"
      [] OTHER -> "ok"

\* Mutant: one more property is read than UnitStatus has members.
NextRead_Four(step) ==
    CASE step = "LoadUnit" -> "LoadState"
      [] step = "LoadState" -> "ActiveState"
      [] step = "ActiveState" -> "SubState"
      [] OTHER -> "Result"

\* Order of the calls of status().
NextRead(step) ==
    CASE step = "LoadUnit" -> "LoadState"
      [] step = "LoadState" -> "ActiveState"
      [] step = "ActiveState" -> "SubState"
      [] OTHER -> "ok"

\* LoadUnit on one connection, then one Get per property on another.
ReadStatus(c) ==
    /\ pc[c] \in Reading
    /\ Goto(c, NextRead(pc[c]))
    /\ out' = IF pc[c] = "LoadUnit" THEN out
              ELSE [out EXCEPT ![c][pc[c]] = unitState[unit[c]][pc[c]]]
    /\ UNCHANGED <<op, unit, reply, queued, expected, promise, managerVars, seenHealthy>>

\* A reload of the manager finds a unit's definition, or finds it gone; it leaves
\* what runs alone.
Reloaded(s) ==
    \A u \in Units : /\ s[u].ActiveState = unitState[u].ActiveState
                     /\ s[u].SubState = unitState[u].SubState

DaemonReload(c) ==
    /\ pc[c] = "reload"
    /\ \E s \in [Units -> UnitStates] : Reloaded(s) /\ unitState' = s
    /\ Goto(c, "ok")
    /\ Observe
    /\ UNCHANGED <<op, unit, reply, queued, expected, promise, out,
                   current, next, jobUnit, jobMethod, result>>
-----------------------------------------------------------------------------
\* The manager and its other clients.

\* A unit's activity changes only to active while it is loaded.
Becomes(u, active) ==
    /\ active = "active" => unitState[u].LoadState = "loaded"
    /\ unitState' = [unitState EXCEPT ![u].ActiveState = active,
                                      ![u].SubState = IF active = "active" THEN "running" ELSE "dead"]
    /\ Observe

\* A job ends; its effect shows before its JobRemoved is sent.
FinishJob(u, r) ==
    LET j == current[u]
    IN  /\ j # None
        /\ r \in {"done", "failed"}
        /\ Becomes(u, IF r = "done" /\ jobMethod[j] # "StopUnit" THEN "active" ELSE "inactive")
        /\ result' = [result EXCEPT ![j] = r]
        /\ current' = [current EXCEPT ![u] = None]
        /\ Broadcast({j}, result')
        /\ UNCHANGED <<pc, op, unit, reply, expected, promise, out, next, jobUnit, jobMethod>>

\* Another client, or the manager itself, queues a job for a unit.  This is also
\* the call of a caller that gave up waiting for the answer.
ForeignJob(u, m) ==
    /\ \E j \in Jobs, R \in SUBSET Jobs : Queue(u, m, j, R) /\ Broadcast(R, result')
    /\ UNCHANGED <<pc, op, unit, reply, expected, promise, out, unitState, seenHealthy>>

\* A unit stops by itself, or is restarted by the manager.
UnitChanges(u, active) ==
    /\ active # unitState[u].ActiveState
    /\ Becomes(u, active)
    /\ UNCHANGED <<callerVars, current, next, jobUnit, jobMethod, result>>

ForeignReload ==
    /\ \E s \in [Units -> UnitStates] : Reloaded(s) /\ unitState' = s
    /\ Observe
    /\ UNCHANGED <<callerVars, current, next, jobUnit, jobMethod, result>>
-----------------------------------------------------------------------------
Work(c) ==
    \/ CallFails(c) \/ DaemonReload(c)
    \/ Subscribe(c) \/ CallMethod(c) \/ ReceiveReply(c)
    \/ Dispatch(c) \/ JobReady(c) \/ WaitTimeout(c) \/ LeaveEventLoop(c)
    \/ ReadStatus(c)

Manager ==
    \/ \E u \in Units, r \in Results : FinishJob(u, r)
    \/ \E u \in Units, m \in Methods : ForeignJob(u, m)
    \/ \E u \in Units, a \in {"active", "inactive"} : UnitChanges(u, a)
    \/ ForeignReload

Next ==
    \/ \E c \in Callers, o \in Requested, u \in Units : Call(c, o, u)
    \/ \E c \in Callers : RefuseName(c, BadName) \/ Work(c)
    \/ Manager

Spec == Init /\ [][Next]_vars

\* The caller's thread and its event loop go on; nothing is assumed of the
\* manager, which may never answer nor finish a job.
FairSpec == Spec /\ \A c \in Callers : WF_vars(Work(c))
-----------------------------------------------------------------------------
\* Properties.

\* Type invariant of the controller's and the manager's variables.
TypeOK ==
    /\ pc \in [Callers -> Idle \cup Steps]
    /\ op \in [Callers -> Operations]
    /\ unit \in [Callers -> Units]
    /\ reply \in [Callers -> Jobs \cup {None}]
    /\ queued \in [Callers -> SUBSET (Jobs \X Results)]
    /\ expected \in [Callers -> Jobs \cup {None}]
    /\ promise \in [Callers -> Results \cup {None}]
    /\ out \in [Callers -> [Properties -> Values]]
    /\ unitState \in [Units -> UnitStates]
    /\ current \in [Units -> Jobs \cup {None}]
    /\ next \in 1..(MaxJobs + 1)
    /\ jobUnit \in [Jobs -> Units \cup {None}]
    /\ jobMethod \in [Jobs -> Methods \cup {None}]
    /\ result \in [Jobs -> Results \cup {"pending"}]
    /\ seenHealthy \in [Callers -> BOOLEAN]

\* The result a caller acts on is that of the job its own call was answered with,
\* a job of its own unit, whatever other jobs end or are replaced meanwhile: the
\* callback compares the job's path with *expected_job.
OwnResult ==
    \A c \in Callers : promise[c] # None =>
        /\ expected[c] \in Jobs
        /\ jobUnit[expected[c]] = unit[c]
        /\ promise[c] = result[expected[c]]

\* However early the job ends, a caller that waits has its signal in the promise
\* or still to be dispatched: it subscribes before the call and runs the event
\* loop only after *expected_job is set.
NoLostSignal ==
    \A c \in Callers : pc[c] = "wait" /\ result[expected[c]] # "pending" =>
        promise[c] # None \/ <<expected[c], result[expected[c]]>> \in queued[c]

\* The final status of a lifecycle method is read after its job was done, never
\* while it is pending or after it failed or was replaced.
StatusAfterJob ==
    \A c \in Callers : pc[c] \in Reading \cup {"ok"} /\ op[c] \in Methods =>
        expected[c] \in Jobs /\ result[expected[c]] = "done"

\* A status that deployed_status_is_healthy accepts, although put together from
\* separate reads between which units stop, start and vanish, is one the unit
\* really had since the reading began: LoadState is read before ActiveState.
HealthyWasReal ==
    \A c \in Callers : pc[c] = "ok" /\ Healthy(out[c]) => seenHealthy[c]

\* Every operation returns, even if the manager never answers or never ends the
\* job: calls have a timeout and wait_for has one.
CallReturns == \A c \in Callers : pc[c] \in Steps ~> pc[c] \in Idle
=============================================================================
