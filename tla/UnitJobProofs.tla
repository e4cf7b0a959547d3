---------------------------- MODULE UnitJobProofs ----------------------------
(***************************************************************************)
(* Theorems about UnitJob, for any number of callers, units and jobs.  The *)
(* inductive invariant follows one job from the manager's answer to the    *)
(* promise: until the caller has its result, the result is still pending   *)
(* or its signal is queued on the caller's connection.                     *)
(***************************************************************************)
EXTENDS UnitJob, TLAPS

\* What a caller knows of the jobs it has heard of.
JobInv(c) ==
    /\ \A s \in queued[c] : s[1] < next /\ s[2] = result[s[1]]
    /\ reply[c] # None =>
          /\ pc[c] = "reply"
          /\ reply[c] < next /\ jobUnit[reply[c]] = unit[c]
          /\ result[reply[c]] # "pending" => <<reply[c], result[reply[c]]>> \in queued[c]
    /\ expected[c] # None => expected[c] < next /\ jobUnit[expected[c]] = unit[c]
    /\ promise[c] # None =>
          pc[c] \in {"wait", "leave"} /\ expected[c] # None /\ promise[c] = result[expected[c]]
    /\ pc[c] = "wait" =>
          /\ expected[c] # None
          /\ result[expected[c]] # "pending" =>
                promise[c] # None \/ <<expected[c], result[expected[c]]>> \in queued[c]
    /\ pc[c] = "reload" => op[c] = "Reload"
    /\ pc[c] \in {"subscribe", "call"} \cup Waiting => op[c] \in Methods
    /\ pc[c] \in Reading \cup {"ok"} /\ op[c] \in Methods =>
          expected[c] # None /\ result[expected[c]] = "done"

\* What a caller that reads a status has missed: a unit that was loaded when that was
\* read can have become active only in sight of the history variable.
StatusInv(c) ==
    /\ pc[c] \in Steps \ {"ActiveState", "SubState"} => out[c]["LoadState"] = None
    /\ pc[c] \in Reading /\ Healthy(unitState[unit[c]]) => seenHealthy[c]
    /\ /\ pc[c] = "ActiveState" /\ out[c]["LoadState"] = "loaded"
       /\ unitState[unit[c]].ActiveState = "active"
       => seenHealthy[c]
    /\ pc[c] \in {"SubState", "ok"} /\ Healthy(out[c]) => seenHealthy[c]

\* The job of a unit in the manager's queue is pending, and so are those to come.
ManagerInv ==
    /\ \A u \in Units : current[u] # None =>
          current[u] < next /\ result[current[u]] = "pending" /\ jobUnit[current[u]] = u
    /\ \A j \in Jobs : j >= next => result[j] = "pending"

IInv ==
    /\ TypeOK
    /\ ManagerInv
    /\ \A c \in Callers : JobInv(c) /\ StatusInv(c)
-----------------------------------------------------------------------------
\* What a step does to the callers that do not take it.

Unmoved(c) ==
    /\ pc'[c] = pc[c] /\ op'[c] = op[c] /\ unit'[c] = unit[c] /\ reply'[c] = reply[c]
    /\ expected'[c] = expected[c] /\ promise'[c] = promise[c] /\ out'[c] = out[c]

\* What the manager never takes back: whose a job is, and how it ended.
JobsKept ==
    /\ next <= next'
    /\ \A j \in Jobs : j < next =>
          jobUnit'[j] = jobUnit[j] /\ (result[j] # "pending" => result'[j] = result[j])

\* The signals that reach the connection of c tell how jobs ended, and none is missed
\* once c has subscribed.
Signalled(c) ==
    /\ queued[c] \subseteq queued'[c]
    /\ \A s \in queued'[c] \ queued[c] : s[1] < next' /\ s[2] = result'[s[1]]
    /\ pc[c] \in {"call"} \cup Waiting =>
          \A j \in Jobs : result[j] = "pending" /\ result'[j] # "pending" => <<j, result'[j]>> \in queued'[c]

LEMMA JobFrame ==
    ASSUME IInv, TypeOK', NEW c \in Callers, Unmoved(c), JobsKept, Signalled(c)
    PROVE  JobInv(c)'
<1>1. TypeOK /\ JobInv(c) /\ next \in Nat /\ next' \in Nat
  BY UnitJobAssumption DEF IInv, TypeOK
<1>2. \A j \in Jobs : j < next => j < next'
  BY <1>1 DEF JobsKept, Jobs
<1>3. \A s \in queued'[c] : s[1] < next' /\ s[2] = result'[s[1]]
  <2> SUFFICES ASSUME NEW s \in queued[c] PROVE s[1] < next' /\ s[2] = result'[s[1]]
    BY DEF Signalled
  <2>1. s[1] \in Jobs /\ s[2] \in Results /\ s[1] < next /\ s[2] = result[s[1]]
    BY <1>1 DEF TypeOK, JobInv
  <2> QED
    BY <1>2, <2>1 DEF JobsKept, Results
<1>4. reply'[c] # None =>
          /\ pc'[c] = "reply"
          /\ reply'[c] < next' /\ jobUnit'[reply'[c]] = unit'[c]
          /\ result'[reply'[c]] # "pending" => <<reply'[c], result'[reply'[c]]>> \in queued'[c]
  <2> SUFFICES ASSUME reply[c] # None
               PROVE  /\ pc[c] = "reply"
                      /\ reply[c] < next' /\ jobUnit'[reply[c]] = unit[c]
                      /\ result'[reply[c]] # "pending" => <<reply[c], result'[reply[c]]>> \in queued'[c]
    BY DEF Unmoved
  <2>1. reply[c] \in Jobs /\ reply[c] < next /\ pc[c] = "reply"
    BY <1>1 DEF TypeOK, JobInv
  <2>2. result'[reply[c]] # "pending" => <<reply[c], result'[reply[c]]>> \in queued'[c]
    BY <1>1, <2>1 DEF JobInv, JobsKept, Signalled, Waiting
  <2> QED
    BY <1>1, <1>2, <2>1, <2>2 DEF JobInv, JobsKept
<1>5. expected[c] # None => expected[c] \in Jobs /\ expected[c] < next
  BY <1>1 DEF TypeOK, JobInv
<1>6. expected'[c] # None => expected'[c] < next' /\ jobUnit'[expected'[c]] = unit'[c]
  BY <1>1, <1>2, <1>5 DEF JobInv, JobsKept, Unmoved
<1>7. promise'[c] # None =>
          pc'[c] \in {"wait", "leave"} /\ expected'[c] # None /\ promise'[c] = result'[expected'[c]]
  <2>1. promise[c] # None => promise[c] # "pending"
    BY <1>1, UnitJobAssumption DEF TypeOK, Results
  <2> QED
    BY <1>1, <1>5, <2>1 DEF JobInv, JobsKept, Unmoved
<1>8. pc'[c] = "wait" =>
          /\ expected'[c] # None
          /\ result'[expected'[c]] # "pending" =>
                promise'[c] # None \/ <<expected'[c], result'[expected'[c]]>> \in queued'[c]
  BY <1>1, <1>5 DEF JobInv, JobsKept, Unmoved, Signalled, Waiting
<1>9. pc'[c] \in Reading \cup {"ok"} /\ op'[c] \in Methods =>
          expected'[c] # None /\ result'[expected'[c]] = "done"
  BY <1>1, <1>5 DEF JobInv, JobsKept, Unmoved
<1>10. /\ pc'[c] = "reload" => op'[c] = "Reload"
       /\ pc'[c] \in {"subscribe", "call"} \cup Waiting => op'[c] \in Methods
  BY <1>1 DEF JobInv, Unmoved
<1> QED
  BY <1>3, <1>4, <1>6, <1>7, <1>8, <1>9, <1>10 DEF JobInv

LEMMA StatusFrame ==
    ASSUME NEW c \in Callers, StatusInv(c), Unmoved(c),
           unitState' = unitState, seenHealthy'[c] = seenHealthy[c]
    PROVE  StatusInv(c)'
BY DEF StatusInv, Unmoved, Healthy

\* Steps of one caller that leave the manager alone.
LEMMA CallerStep ==
    ASSUME IInv, TypeOK', NEW c \in Callers, UNCHANGED managerVars,
           \A d \in Callers \ {c} : /\ Unmoved(d) /\ queued'[d] = queued[d]
                                    /\ seenHealthy'[d] = seenHealthy[d],
           JobInv(c)', StatusInv(c)'
    PROVE  IInv'
<1>1. next \in Nat
  BY UnitJobAssumption DEF IInv, TypeOK
<1>2. ASSUME NEW d \in Callers, d # c PROVE JobInv(d)' /\ StatusInv(d)'
  <2>1. JobsKept /\ Signalled(d)
    BY <1>1, <1>2 DEF JobsKept, Signalled, managerVars
  <2> QED
    BY <1>2, <2>1, JobFrame, StatusFrame DEF IInv, managerVars
<1>3. ManagerInv'
  BY DEF IInv, ManagerInv, managerVars
<1> QED
  BY <1>2, <1>3 DEF IInv

LEMMA InitInv == Init => IInv
<1> SUFFICES ASSUME Init PROVE IInv
  OBVIOUS
<1>1. TypeOK
  BY UnitJobAssumption DEF Init, TypeOK, Operations, Idle, Values, Jobs
<1>2. ManagerInv
  BY DEF Init, ManagerInv
<1>3. \A c \in Callers : JobInv(c)
  BY DEF Init, JobInv, Reading, Waiting
<1>4. \A c \in Callers : StatusInv(c)
  BY DEF Init, StatusInv, Reading, Steps, Waiting, Properties
<1> QED
  BY <1>1, <1>2, <1>3, <1>4 DEF IInv
-----------------------------------------------------------------------------
\* Steps of the controller.

\* A call that fails forgets its job.
LEMMA ReturnStep ==
    ASSUME IInv, NEW c \in Callers, NEW o \in {"error", "timeout"}, Return(c, o),
           UNCHANGED <<op, unit, managerVars, seenHealthy>>
    PROVE  IInv'
<1>1. TypeOK
  BY DEF IInv
<1>2. TypeOK'
  <2>1. [p \in Properties |-> None] \in [Properties -> Values]
    BY DEF Values
  <2> QED
    BY <1>1, <2>1 DEF TypeOK, Return, Goto, Idle, managerVars
<1>3. /\ pc'[c] = o /\ expected'[c] = None /\ reply'[c] = None /\ queued'[c] = {} /\ promise'[c] = None
      /\ out'[c]["LoadState"] = None /\ out'[c] = [p \in Properties |-> None]
  BY <1>1 DEF TypeOK, Return, Goto, Properties
<1>4. JobInv(c)'
  BY <1>3 DEF JobInv, Reading, Waiting
<1>5. StatusInv(c)'
  BY <1>3 DEF StatusInv, Reading, Steps, Waiting
<1>6. \A d \in Callers \ {c} : Unmoved(d) /\ queued'[d] = queued[d] /\ seenHealthy'[d] = seenHealthy[d]
  BY <1>1 DEF TypeOK, Return, Goto, Unmoved
<1> QED
  BY <1>2, <1>4, <1>5, <1>6, CallerStep

LEMMA CallStep ==
    ASSUME IInv, NEW c \in Callers, NEW o \in Requested, NEW u \in Units, Call(c, o, u)
    PROVE  IInv'
<1>1. TypeOK /\ o \in Operations /\ JobInv(c) /\ pc[c] \in Idle
  BY UnitJobAssumption DEF IInv, Call
<1>2. FirstStep(o) \in {"reload", "LoadUnit", "subscribe"}
      /\ (FirstStep(o) = "reload" => o = "Reload")
      /\ (FirstStep(o) = "LoadUnit" => o = "status")
      /\ (FirstStep(o) = "subscribe" => o \in Methods)
  BY <1>1 DEF FirstStep, Operations, Methods
<1>3. [p \in Properties |-> None] \in [Properties -> Values]
  BY DEF Values
<1>4. TypeOK'
  <2>1. FirstStep(o) \in Idle \cup Steps
    BY <1>2 DEF Steps, Reading
  <2>2. seenHealthy' \in [Callers -> BOOLEAN]
    BY <1>1 DEF TypeOK, Call
  <2>3. pc' \in [Callers -> Idle \cup Steps] /\ op' \in [Callers -> Operations] /\ unit' \in [Callers -> Units]
    BY <1>1, <2>1 DEF TypeOK, Call, Goto
  <2>4. expected' \in [Callers -> Jobs \cup {None}] /\ out' \in [Callers -> [Properties -> Values]]
    BY <1>1, <1>3 DEF TypeOK, Call
  <2> QED
    BY <1>1, <2>2, <2>3, <2>4 DEF TypeOK, Call, managerVars
<1>5. /\ pc'[c] = FirstStep(o) /\ op'[c] = o /\ unit'[c] = u /\ expected'[c] = None
      /\ queued'[c] = queued[c] /\ reply'[c] = reply[c] /\ promise'[c] = promise[c]
      /\ out'[c]["LoadState"] = None
  BY <1>1 DEF TypeOK, Call, Goto, Properties
<1>6. UNCHANGED managerVars
  BY DEF Call
<1>7. JobInv(c)'
  <2>1. reply[c] = None /\ promise[c] = None
    BY <1>1 DEF JobInv, Idle
  <2>2. o \in Methods => FirstStep(o) = "subscribe"
    BY DEF FirstStep, Methods
  <2>3. pc'[c] \notin {"wait", "ok", "leave", "call", "reply"} /\ (pc'[c] \in Reading => o \notin Methods)
    BY <1>2, <1>5, <2>2 DEF Reading
  <2>4. \A s \in queued'[c] : s[1] < next' /\ s[2] = result'[s[1]]
    BY <1>1, <1>5, <1>6 DEF JobInv, managerVars
  <2> QED
    BY <1>2, <1>5, <2>1, <2>3, <2>4 DEF JobInv, Waiting
<1>8. StatusInv(c)'
  <2>1. seenHealthy'[c] = (o = "status" /\ Healthy(unitState[u]))
    BY <1>1 DEF TypeOK, Call
  <2>2. unitState' = unitState
    BY <1>6 DEF managerVars
  <2> QED
    BY <1>2, <1>5, <2>1, <2>2 DEF StatusInv, Reading, Healthy
<1>9. \A d \in Callers \ {c} : Unmoved(d) /\ queued'[d] = queued[d] /\ seenHealthy'[d] = seenHealthy[d]
  BY <1>1 DEF TypeOK, Call, Goto, Unmoved
<1> QED
  BY <1>4, <1>6, <1>7, <1>8, <1>9, CallerStep

LEMMA RefuseNameStep ==
    ASSUME IInv, NEW c \in Callers, RefuseName(c, BadName)
    PROVE  IInv'
<1>1. TypeOK /\ JobInv(c) /\ pc[c] \in Idle
  BY DEF IInv, RefuseName
<1>2. TypeOK'
  <2>1. [p \in Properties |-> None] \in [Properties -> Values]
    BY DEF Values
  <2>2. pc' \in [Callers -> Idle \cup Steps] /\ op' \in [Callers -> Operations]
        /\ seenHealthy' \in [Callers -> BOOLEAN]
    BY <1>1 DEF TypeOK, RefuseName, Goto, Idle, Operations
  <2>3. expected' \in [Callers -> Jobs \cup {None}] /\ out' \in [Callers -> [Properties -> Values]]
    BY <1>1, <2>1 DEF TypeOK, RefuseName
  <2> QED
    BY <1>1, <2>2, <2>3 DEF TypeOK, RefuseName, managerVars
<1>3. /\ pc'[c] = "error" /\ expected'[c] = None /\ out'[c]["LoadState"] = None
      /\ queued'[c] = queued[c] /\ reply'[c] = reply[c] /\ promise'[c] = promise[c]
      /\ UNCHANGED managerVars
  BY <1>1 DEF TypeOK, RefuseName, Goto, Properties
<1>4. JobInv(c)'
  BY <1>1, <1>3 DEF JobInv, Idle, Reading, Waiting, managerVars
<1>5. StatusInv(c)'
  BY <1>3 DEF StatusInv, Reading, Steps, Waiting
<1>6. \A d \in Callers \ {c} : Unmoved(d) /\ queued'[d] = queued[d] /\ seenHealthy'[d] = seenHealthy[d]
  BY <1>1 DEF TypeOK, RefuseName, Goto, Unmoved
<1> QED
  BY <1>2, <1>3, <1>4, <1>5, <1>6, CallerStep

LEMMA SubscribeStep ==
    ASSUME IInv, NEW c \in Callers, Subscribe(c)
    PROVE  IInv'
<1>1. TypeOK /\ JobInv(c) /\ StatusInv(c) /\ pc[c] = "subscribe"
      /\ UNCHANGED <<op, unit, reply, queued, expected, promise, out, managerVars, seenHealthy>>
  BY DEF IInv, Subscribe
<1>2. TypeOK'
  BY <1>1 DEF TypeOK, Subscribe, Goto, Steps, managerVars
<1>3. pc'[c] = "call"
  BY <1>1 DEF TypeOK, Subscribe, Goto
<1>4. JobInv(c)'
  BY <1>1, <1>3 DEF JobInv, Waiting, Reading, managerVars
<1>5. StatusInv(c)'
  BY <1>1, <1>3 DEF StatusInv, Reading, Steps, Waiting
<1>6. \A d \in Callers \ {c} : Unmoved(d) /\ queued'[d] = queued[d] /\ seenHealthy'[d] = seenHealthy[d]
  BY <1>1 DEF TypeOK, Subscribe, Goto, Unmoved
<1> QED
  BY <1>1, <1>2, <1>4, <1>5, <1>6, CallerStep

\* Whatever became of the job before its path was stored is still queued.
LEMMA ReceiveReplyStep ==
    ASSUME IInv, NEW c \in Callers, ReceiveReply(c)
    PROVE  IInv'
<1>1. TypeOK /\ JobInv(c) /\ StatusInv(c) /\ pc[c] = "reply" /\ reply[c] # None
      /\ UNCHANGED <<op, unit, queued, promise, out, managerVars, seenHealthy>>
  BY DEF IInv, ReceiveReply
<1>2. TypeOK'
  BY <1>1 DEF TypeOK, ReceiveReply, Goto, Steps, Waiting, managerVars
<1>3. pc'[c] = "wait" /\ expected'[c] = reply[c] /\ reply'[c] = None
  BY <1>1 DEF TypeOK, ReceiveReply, Goto
<1>4. JobInv(c)'
  <2>1. promise'[c] = None
    BY <1>1 DEF JobInv
  <2>2. \A s \in queued'[c] : s[1] < next' /\ s[2] = result'[s[1]]
    BY <1>1 DEF JobInv, managerVars
  <2>3. expected'[c] # None /\ expected'[c] < next' /\ jobUnit'[expected'[c]] = unit'[c]
    BY <1>1, <1>3 DEF JobInv, managerVars
  <2>4. result'[expected'[c]] # "pending" => <<expected'[c], result'[expected'[c]]>> \in queued'[c]
    BY <1>1, <1>3 DEF JobInv, managerVars
  <2>5. op'[c] \in Methods
    BY <1>1 DEF JobInv, Waiting
  <2> QED
    BY <1>3, <2>1, <2>2, <2>3, <2>4, <2>5 DEF JobInv, Reading
<1>5. StatusInv(c)'
  BY <1>1, <1>3 DEF StatusInv, Reading, Steps, Waiting
<1>6. \A d \in Callers \ {c} : Unmoved(d) /\ queued'[d] = queued[d] /\ seenHealthy'[d] = seenHealthy[d]
  BY <1>1 DEF TypeOK, ReceiveReply, Goto, Unmoved
<1> QED
  BY <1>1, <1>2, <1>4, <1>5, <1>6, CallerStep

\* The callback takes the signal of *expected_job off the queue only to fill the promise.
LEMMA DispatchStep ==
    ASSUME IInv, NEW c \in Callers, Dispatch(c)
    PROVE  IInv'
<1>1. TypeOK /\ JobInv(c) /\ StatusInv(c) /\ pc[c] \in {"wait", "leave"}
      /\ UNCHANGED <<pc, op, unit, reply, expected, out, managerVars, seenHealthy>>
  BY DEF IInv, Dispatch
<1>2. PICK s \in queued[c] :
          /\ queued' = [queued EXCEPT ![c] = @ \ {s}]
          /\ promise' = IF promise[c] = None /\ s[1] = expected[c]
                        THEN [promise EXCEPT ![c] = s[2]] ELSE promise
  BY DEF Dispatch
<1>3. s[1] \in Jobs /\ s[2] \in Results /\ s = <<s[1], s[2]>> /\ s[1] < next /\ s[2] = result[s[1]]
  BY <1>1 DEF TypeOK, JobInv
<1>4. TypeOK'
  <2>1. promise' \in [Callers -> Results \cup {None}] /\ queued' \in [Callers -> SUBSET (Jobs \X Results)]
    BY <1>1, <1>2, <1>3 DEF TypeOK
  <2> QED
    BY <1>1, <2>1 DEF TypeOK, managerVars
<1>5. /\ queued'[c] = queued[c] \ {s}
      /\ promise'[c] = IF promise[c] = None /\ s[1] = expected[c] THEN s[2] ELSE promise[c]
  BY <1>1, <1>2 DEF TypeOK
<1>6. JobInv(c)'
  <2>1. \A r \in queued'[c] : r[1] < next' /\ r[2] = result'[r[1]]
    BY <1>1, <1>5 DEF JobInv, managerVars
  <2>2. reply'[c] = None
    BY <1>1 DEF JobInv
  <2>3. promise'[c] # None => expected'[c] # None /\ promise'[c] = result'[expected'[c]]
    <3>1. s[1] # None /\ s[2] # None
      BY <1>3, UnitJobAssumption DEF Jobs
    <3> QED
      BY <1>1, <1>3, <1>5, <3>1 DEF JobInv, managerVars
  <2>4. pc[c] = "wait" /\ result[expected[c]] # "pending" =>
            promise'[c] # None \/ <<expected[c], result[expected[c]]>> \in queued'[c]
    <3> SUFFICES ASSUME pc[c] = "wait", result[expected[c]] # "pending", promise'[c] = None
                 PROVE  <<expected[c], result[expected[c]]>> \in queued'[c]
      OBVIOUS
    <3>1. s[2] # None
      BY <1>3, UnitJobAssumption
    <3>2. promise[c] = None /\ s[1] # expected[c]
      BY <1>5, <3>1
    <3>3. <<expected[c], result[expected[c]]>> \in queued[c]
      BY <1>1, <3>2 DEF JobInv
    <3> QED
      BY <1>3, <1>5, <3>2, <3>3
  <2>5. /\ expected'[c] = expected[c] /\ pc'[c] = pc[c] /\ op'[c] = op[c] /\ unit'[c] = unit[c]
        /\ next' = next /\ jobUnit' = jobUnit /\ result' = result
    BY <1>1 DEF managerVars
  <2>6. expected[c] # None => expected[c] < next /\ jobUnit[expected[c]] = unit[c]
    BY <1>1 DEF JobInv
  <2>7. (pc[c] = "wait" => expected[c] # None) /\ op[c] \in Methods
    BY <1>1 DEF JobInv, Waiting
  <2> QED
    BY <1>1, <2>1, <2>2, <2>3, <2>4, <2>5, <2>6, <2>7 DEF JobInv, Reading
<1>7. StatusInv(c)'
  BY <1>1 DEF StatusInv, managerVars
<1>8. \A d \in Callers \ {c} : Unmoved(d) /\ queued'[d] = queued[d] /\ seenHealthy'[d] = seenHealthy[d]
  BY <1>1, <1>2 DEF TypeOK, Unmoved
<1> QED
  BY <1>1, <1>4, <1>6, <1>7, <1>8, CallerStep

LEMMA JobReadyStep ==
    ASSUME IInv, NEW c \in Callers, JobReady(c)
    PROVE  IInv'
<1>1. TypeOK /\ JobInv(c) /\ StatusInv(c) /\ pc[c] = "wait" /\ promise[c] # None
      /\ UNCHANGED <<op, unit, managerVars>>
  BY DEF IInv, JobReady
<1>2. CASE Return(c, "error") /\ UNCHANGED seenHealthy
  BY <1>1, <1>2, ReturnStep
<1>3. CASE /\ promise[c] = "done"
           /\ Goto(c, "LoadUnit")
           /\ queued' = [queued EXCEPT ![c] = {}]
           /\ promise' = [promise EXCEPT ![c] = None]
           /\ Watch(c)
           /\ UNCHANGED <<reply, expected, out>>
  <2>1. TypeOK'
    <3>1. seenHealthy' \in [Callers -> BOOLEAN]
      BY <1>1, <1>3 DEF TypeOK, Watch, Healthy
    <3> QED
      BY <1>1, <1>3, <3>1 DEF TypeOK, Goto, Steps, Reading, managerVars
  <2>2. /\ pc'[c] = "LoadUnit" /\ queued'[c] = {} /\ promise'[c] = None
        /\ seenHealthy'[c] = Healthy(unitState[unit[c]])
    BY <1>1, <1>3 DEF TypeOK, Goto, Watch
  <2>3. JobInv(c)'
    <3>1. expected[c] # None /\ result[expected[c]] = "done" /\ reply[c] = None
      BY <1>1, <1>3 DEF JobInv
    <3>2. expected[c] < next /\ jobUnit[expected[c]] = unit[c]
      BY <1>1, <3>1 DEF JobInv
    <3> QED
      BY <1>1, <1>3, <2>2, <3>1, <3>2 DEF JobInv, Waiting, managerVars
  <2>4. StatusInv(c)'
    <3>1. out[c]["LoadState"] = None
      BY <1>1 DEF StatusInv, Steps, Waiting
    <3> QED
      BY <1>1, <1>3, <2>2, <3>1 DEF StatusInv, Healthy, managerVars
  <2>5. \A d \in Callers \ {c} : Unmoved(d) /\ queued'[d] = queued[d] /\ seenHealthy'[d] = seenHealthy[d]
    BY <1>1, <1>3 DEF TypeOK, Goto, Watch, Unmoved
  <2> QED
    BY <1>1, <2>1, <2>3, <2>4, <2>5, CallerStep
<1> QED
  BY <1>2, <1>3 DEF JobReady

LEMMA WaitTimeoutStep ==
    ASSUME IInv, NEW c \in Callers, WaitTimeout(c)
    PROVE  IInv'
<1>1. TypeOK /\ JobInv(c) /\ StatusInv(c) /\ pc[c] = "wait"
      /\ UNCHANGED <<op, unit, reply, queued, expected, promise, out, managerVars, seenHealthy>>
  BY DEF IInv, WaitTimeout
<1>2. TypeOK'
  BY <1>1 DEF TypeOK, WaitTimeout, Goto, Steps, Waiting, managerVars
<1>3. pc'[c] = "leave"
  BY <1>1 DEF TypeOK, WaitTimeout, Goto
<1>4. JobInv(c)'
  BY <1>1, <1>3 DEF JobInv, Waiting, Reading, managerVars
<1>5. StatusInv(c)'
  BY <1>1, <1>3 DEF StatusInv, Reading, Steps, Waiting
<1>6. \A d \in Callers \ {c} : Unmoved(d) /\ queued'[d] = queued[d] /\ seenHealthy'[d] = seenHealthy[d]
  BY <1>1 DEF TypeOK, WaitTimeout, Goto, Unmoved
<1> QED
  BY <1>1, <1>2, <1>4, <1>5, <1>6, CallerStep

LEMMA StateValues ==
    ASSUME TypeOK, NEW c \in Callers, NEW p \in Properties
    PROVE  unitState[unit[c]][p] \in Values \ {None}
<1>1. unitState[unit[c]] \in UnitStates
  BY DEF TypeOK
<1> QED
  BY <1>1, UnitJobAssumption DEF UnitStates, Properties, Values

\* LoadState is read before ActiveState: a unit found loaded and then active has been
\* both at once.
LEMMA ReadStatusStep ==
    ASSUME IInv, NEW c \in Callers, ReadStatus(c)
    PROVE  IInv'
<1>1. TypeOK /\ JobInv(c) /\ StatusInv(c) /\ pc[c] \in Reading
      /\ UNCHANGED <<op, unit, reply, queued, expected, promise, managerVars, seenHealthy>>
  BY DEF IInv, ReadStatus
<1>2. pc'[c] = NextRead(pc[c]) /\ NextRead(pc[c]) \in (Reading \ {"LoadUnit"}) \cup {"ok"}
  BY <1>1 DEF TypeOK, ReadStatus, Goto, NextRead, Reading
<1>3. pc[c] # "LoadUnit" => pc[c] \in Properties
  BY <1>1 DEF Reading, Properties
<1>4. out' \in [Callers -> [Properties -> Values]]
  BY <1>1, <1>3, StateValues DEF TypeOK, ReadStatus
<1>5. TypeOK'
  BY <1>1, <1>2, <1>4 DEF TypeOK, ReadStatus, Goto, Idle, Steps, managerVars
<1>6. JobInv(c)'
  <2>1. reply[c] = None /\ promise[c] = None
    BY <1>1 DEF JobInv, Reading
  <2> QED
    BY <1>1, <1>2, <2>1 DEF JobInv, Waiting, Reading, managerVars
<1>7. StatusInv(c)'
  <2> DEFINE s == unitState[unit[c]]
  <2>1. out[c] \in [Properties -> Values] /\ unitState' = unitState /\ "loaded" # None
    BY <1>1, UnitJobAssumption DEF TypeOK, managerVars
  <2>2. CASE pc[c] = "LoadUnit"
    <3>1. pc'[c] = "LoadState" /\ out'[c]["LoadState"] = None
      BY <1>1, <1>2, <2>2 DEF NextRead, ReadStatus, StatusInv, Steps
    <3> QED
      BY <1>1, <2>1, <3>1 DEF StatusInv, Reading
  <2>3. CASE pc[c] = "LoadState"
    <3>1. pc'[c] = "ActiveState" /\ out'[c]["LoadState"] = s.LoadState
      BY <1>1, <1>2, <2>1, <2>3 DEF NextRead, ReadStatus, Properties, TypeOK
    <3>2. Healthy(s) => seenHealthy[c]
      BY <1>1, <2>3 DEF StatusInv
    <3> QED
      BY <1>1, <2>1, <3>1, <3>2 DEF StatusInv, Healthy
  <2>4. CASE pc[c] = "ActiveState"
    <3>1. /\ pc'[c] = "SubState" /\ out'[c]["ActiveState"] = s.ActiveState
          /\ out'[c]["LoadState"] = out[c]["LoadState"]
      BY <1>1, <1>2, <2>1, <2>4 DEF NextRead, ReadStatus, Properties, TypeOK
    <3>2. out[c]["LoadState"] = "loaded" /\ s.ActiveState = "active" => seenHealthy[c]
      BY <1>1, <2>4 DEF StatusInv
    <3>3. Healthy(s) => seenHealthy[c]
      BY <1>1, <2>4 DEF StatusInv, Reading
    <3> QED
      BY <1>1, <2>1, <3>1, <3>2, <3>3 DEF StatusInv, Healthy
  <2>5. CASE pc[c] = "SubState"
    <3>1. /\ pc'[c] = "ok" /\ out'[c]["ActiveState"] = out[c]["ActiveState"]
          /\ out'[c]["LoadState"] = out[c]["LoadState"]
      BY <1>1, <1>2, <2>1, <2>5 DEF NextRead, ReadStatus, Properties, TypeOK
    <3>2. Healthy(out[c]) => seenHealthy[c]
      BY <1>1, <2>5 DEF StatusInv
    <3> QED
      BY <1>1, <3>1, <3>2 DEF StatusInv, Healthy, Reading, Steps, Waiting
  <2> QED
    BY <1>1, <2>2, <2>3, <2>4, <2>5 DEF Reading
<1>8. \A d \in Callers \ {c} : Unmoved(d) /\ queued'[d] = queued[d] /\ seenHealthy'[d] = seenHealthy[d]
  BY <1>1 DEF TypeOK, ReadStatus, Goto, Unmoved
<1> QED
  BY <1>1, <1>5, <1>6, <1>7, <1>8, CallerStep
-----------------------------------------------------------------------------
\* Steps of the manager.

\* A unit becomes active only while it is loaded, and the history variable sees it.
LEMMA Observing ==
    ASSUME IInv, TypeOK', Observe, NEW c \in Callers, Unmoved(c),
           \A u \in Units : unitState'[u].ActiveState = "active" =>
               unitState[u].ActiveState = "active" \/ unitState'[u].LoadState = "loaded"
    PROVE  StatusInv(c)'
<1>1. TypeOK /\ StatusInv(c) /\ unit[c] \in Units /\ unit'[c] = unit[c] /\ pc'[c] = pc[c] /\ out'[c] = out[c]
  BY DEF IInv, TypeOK, Unmoved
<1>2. seenHealthy'[c] = (seenHealthy[c] \/ (pc[c] \in Reading /\ Healthy(unitState'[unit[c]])))
  BY DEF Observe
<1>3. pc[c] \in Reading /\ Healthy(unitState'[unit[c]]) => seenHealthy'[c]
  BY <1>2
<1>4. seenHealthy[c] => seenHealthy'[c]
  BY <1>2
<1>5. pc[c] = "ActiveState" /\ out[c]["LoadState"] = "loaded" /\ unitState'[unit[c]].ActiveState = "active"
      => seenHealthy'[c]
  BY <1>1, <1>3, <1>4 DEF StatusInv, Healthy, Reading
<1> QED
  BY <1>1, <1>3, <1>4, <1>5 DEF StatusInv, Healthy

LEMMA ManagerStep ==
    ASSUME IInv, TypeOK', ManagerInv', JobsKept,
           \A c \in Callers : Unmoved(c) /\ Signalled(c) /\ StatusInv(c)'
    PROVE  IInv'
BY JobFrame DEF IInv

LEMMA BecomesState ==
    ASSUME TypeOK, NEW u \in Units, NEW a \in {"active", "inactive"}, Becomes(u, a)
    PROVE  /\ unitState' \in [Units -> UnitStates] /\ seenHealthy' \in [Callers -> BOOLEAN] /\ Observe
           /\ \A v \in Units : unitState'[v].ActiveState = "active" =>
                  unitState[v].ActiveState = "active" \/ unitState'[v].LoadState = "loaded"
<1> DEFINE s == [unitState[u] EXCEPT !.ActiveState = a,
                                     !.SubState = IF a = "active" THEN "running" ELSE "dead"]
<1>1. unitState[u] \in UnitStates /\ unitState' = [unitState EXCEPT ![u] = s]
  BY DEF TypeOK, Becomes
<1>2. s \in UnitStates /\ s.ActiveState = a /\ s.LoadState = unitState[u].LoadState
  BY <1>1 DEF UnitStates
<1>3. seenHealthy' \in [Callers -> BOOLEAN]
  BY DEF TypeOK, Becomes, Observe, Healthy
<1> QED
  BY <1>1, <1>2, <1>3 DEF TypeOK, Becomes

LEMMA ReloadedState ==
    ASSUME TypeOK, NEW s \in [Units -> UnitStates], Reloaded(s), unitState' = s, Observe
    PROVE  /\ seenHealthy' \in [Callers -> BOOLEAN]
           /\ \A v \in Units : unitState'[v].ActiveState = "active" => unitState[v].ActiveState = "active"
BY DEF TypeOK, Reloaded, Observe, Healthy

LEMMA FinishJobStep ==
    ASSUME IInv, NEW u \in Units, NEW r \in Results, FinishJob(u, r)
    PROVE  IInv'
<1> DEFINE j == current[u]
           a == IF r = "done" /\ jobMethod[j] # "StopUnit" THEN "active" ELSE "inactive"
<1>1. /\ TypeOK /\ ManagerInv /\ j # None /\ j \in Jobs /\ next \in Nat /\ r # "pending"
      /\ UNCHANGED <<pc, op, unit, reply, expected, promise, out, next, jobUnit, jobMethod>>
  BY UnitJobAssumption DEF IInv, TypeOK, FinishJob, Results
<1>2. j < next /\ result[j] = "pending" /\ jobUnit[j] = u
  BY <1>1 DEF ManagerInv
<1>3. Becomes(u, a) /\ a \in {"active", "inactive"}
  BY DEF FinishJob
<1>4. /\ result' = [result EXCEPT ![j] = r] /\ current' = [current EXCEPT ![u] = None]
      /\ Broadcast({j}, result')
  BY DEF FinishJob
<1>5. \A c \in Callers : queued'[c] = IF pc[c] \in {"call"} \cup Waiting
                                      THEN queued[c] \cup {<<j, r>>} ELSE queued[c]
  <2>1. result'[j] = r
    BY <1>1, <1>4 DEF TypeOK
  <2>2. Removals({j}, result') = {<<j, r>>}
    BY <2>1 DEF Removals
  <2> QED
    BY <1>4, <2>2 DEF Broadcast
<1>6. TypeOK'
  <2>1. queued' \in [Callers -> SUBSET (Jobs \X Results)]
    <3>1. queued' = [c \in Callers |-> queued'[c]]
      BY <1>4 DEF Broadcast
    <3>2. \A c \in Callers : queued'[c] \in SUBSET (Jobs \X Results)
      <4>1. <<j, r>> \in Jobs \X Results
        BY <1>1
      <4>2. \A c \in Callers : queued[c] \in SUBSET (Jobs \X Results)
        BY <1>1 DEF TypeOK
      <4> HIDE DEF j
      <4> QED
        BY <1>5, <4>1, <4>2
    <3> QED
      BY <3>1, <3>2
  <2>2. result' \in [Jobs -> Results \cup {"pending"}] /\ current' \in [Units -> Jobs \cup {None}]
    BY <1>1, <1>4 DEF TypeOK
  <2>3. unitState' \in [Units -> UnitStates] /\ seenHealthy' \in [Callers -> BOOLEAN]
    BY <1>1, <1>3, BecomesState
  <2> QED
    BY <1>1, <2>1, <2>2, <2>3 DEF TypeOK
<1>7. ManagerInv'
  BY <1>1, <1>2, <1>4 DEF ManagerInv, TypeOK, Jobs
<1>8. JobsKept
  BY <1>1, <1>2, <1>4 DEF JobsKept, TypeOK
<1>9. \A c \in Callers : Unmoved(c)
  BY <1>1 DEF Unmoved
<1>10. \A c \in Callers : StatusInv(c)'
  BY <1>1, <1>3, <1>6, <1>9, BecomesState, Observing
<1>11. \A c \in Callers : Signalled(c)
  <2> SUFFICES ASSUME NEW c \in Callers PROVE Signalled(c)
    OBVIOUS
  <2>1. result'[j] = r /\ \A k \in Jobs \ {j} : result'[k] = result[k]
    BY <1>1, <1>4 DEF TypeOK
  <2>2. \A s \in queued'[c] \ queued[c] : s = <<j, r>>
    BY <1>5
  <2>3. queued[c] \subseteq queued'[c]
    BY <1>5
  <2>4. pc[c] \in {"call"} \cup Waiting => <<j, r>> \in queued'[c]
    BY <1>5
  <2> HIDE DEF j
  <2>5. \A k \in Jobs : result[k] = "pending" /\ result'[k] # "pending" => k = j
    BY <2>1
  <2> QED
    BY <1>1, <1>2, <2>1, <2>2, <2>3, <2>4, <2>5 DEF Signalled
<1> QED
  BY <1>6, <1>7, <1>8, <1>9, <1>10, <1>11, ManagerStep

\* Units that stop, start or are reloaded by themselves.
LEMMA UnitsStep ==
    ASSUME IInv, (\E u \in Units, a \in {"active", "inactive"} : UnitChanges(u, a)) \/ ForeignReload
    PROVE  IInv'
<1>1. /\ TypeOK /\ next \in Nat
      /\ UNCHANGED <<callerVars, current, next, jobUnit, jobMethod, result>>
  BY UnitJobAssumption DEF IInv, TypeOK, UnitChanges, ForeignReload
<1>2. /\ unitState' \in [Units -> UnitStates] /\ seenHealthy' \in [Callers -> BOOLEAN] /\ Observe
      /\ \A v \in Units : unitState'[v].ActiveState = "active" =>
             unitState[v].ActiveState = "active" \/ unitState'[v].LoadState = "loaded"
  <2>1. CASE \E u \in Units, a \in {"active", "inactive"} : UnitChanges(u, a)
    BY <1>1, <2>1, BecomesState DEF UnitChanges
  <2>2. CASE ForeignReload
    BY <1>1, <2>2, ReloadedState DEF ForeignReload
  <2> QED
    BY <2>1, <2>2
<1>3. TypeOK'
  BY <1>1, <1>2 DEF TypeOK, callerVars
<1>4. ManagerInv' /\ JobsKept
  BY <1>1 DEF IInv, ManagerInv, JobsKept
<1>5. \A c \in Callers : Unmoved(c) /\ Signalled(c)
  BY <1>1 DEF Unmoved, Signalled, callerVars
<1>6. \A c \in Callers : StatusInv(c)'
  BY <1>2, <1>3, <1>5, Observing
<1> QED
  BY <1>3, <1>4, <1>5, <1>6, ManagerStep

LEMMA DaemonReloadStep ==
    ASSUME IInv, NEW c \in Callers, DaemonReload(c)
    PROVE  IInv'
<1>1. /\ TypeOK /\ next \in Nat /\ pc[c] = "reload" /\ JobInv(c) /\ StatusInv(c)
      /\ UNCHANGED <<op, unit, reply, queued, expected, promise, out, current, next, jobUnit, jobMethod, result>>
  BY UnitJobAssumption DEF IInv, TypeOK, DaemonReload
<1>2. /\ unitState' \in [Units -> UnitStates] /\ seenHealthy' \in [Callers -> BOOLEAN] /\ Observe
      /\ \A v \in Units : unitState'[v].ActiveState = "active" => unitState[v].ActiveState = "active"
  BY <1>1, ReloadedState DEF DaemonReload
<1>3. pc'[c] = "ok" /\ pc' \in [Callers -> Idle \cup Steps]
  BY <1>1 DEF TypeOK, DaemonReload, Goto, Idle
<1>4. TypeOK'
  BY <1>1, <1>2, <1>3 DEF TypeOK
<1>5. ManagerInv' /\ JobsKept
  BY <1>1 DEF IInv, ManagerInv, JobsKept
<1>6. \A d \in Callers \ {c} : Unmoved(d) /\ Signalled(d)
  BY <1>1 DEF TypeOK, DaemonReload, Goto, Unmoved, Signalled
<1>7. \A d \in Callers \ {c} : JobInv(d)' /\ StatusInv(d)'
  BY <1>2, <1>4, <1>5, <1>6, JobFrame, Observing
<1>8. JobInv(c)'
  <2>1. op[c] \notin Methods
    BY <1>1 DEF JobInv, Methods
  <2> QED
    BY <1>1, <1>3, <2>1 DEF JobInv, Waiting
<1>9. StatusInv(c)'
  <2>1. out[c]["LoadState"] # "loaded"
    BY <1>1, UnitJobAssumption DEF StatusInv, Steps
  <2> QED
    BY <1>1, <1>3, <2>1 DEF StatusInv, Reading, Steps, Waiting, Healthy
<1> QED
  BY <1>4, <1>5, <1>7, <1>8, <1>9 DEF IInv

\* A queued job is pending, of the unit asked for; the one it replaces is removed and
\* announced to everybody.
LEMMA Queueing ==
    ASSUME IInv, NEW u \in Units, NEW m \in Methods, NEW j \in Jobs, NEW R \in SUBSET Jobs,
           Queue(u, m, j, R), Broadcast(R, result')
    PROVE  /\ current' \in [Units -> Jobs \cup {None}] /\ next' \in 1..(MaxJobs + 1)
           /\ jobUnit' \in [Jobs -> Units \cup {None}] /\ jobMethod' \in [Jobs -> Methods \cup {None}]
           /\ result' \in [Jobs -> Results \cup {"pending"}]
           /\ queued' \in [Callers -> SUBSET (Jobs \X Results)]
           /\ j < next' /\ jobUnit'[j] = u /\ result'[j] = "pending"
           /\ ManagerInv' /\ JobsKept
           /\ \A c \in Callers : Signalled(c)
<1>1. TypeOK /\ ManagerInv /\ next \in Nat /\ next \in 1..(MaxJobs + 1) /\ MaxJobs \in Nat
  BY UnitJobAssumption DEF IInv, TypeOK
<1> DEFINE old == current[u]
<1>2. old \in Jobs \cup {None} /\ (old # None => old < next /\ result[old] = "pending" /\ jobUnit[old] = u)
  BY <1>1 DEF TypeOK, ManagerInv
<1>3. /\ current' \in [Units -> Jobs \cup {None}] /\ next' \in 1..(MaxJobs + 1) /\ next' \in Nat
      /\ jobUnit' \in [Jobs -> Units \cup {None}] /\ jobMethod' \in [Jobs -> Methods \cup {None}]
      /\ result' \in [Jobs -> Results \cup {"pending"}]
      /\ j < next' /\ next <= next' /\ jobUnit'[j] = u /\ result'[j] = "pending"
      /\ \A k \in Jobs : k # next => jobUnit'[k] = jobUnit[k]
      /\ \A k \in Jobs : result'[k] = IF k \in R THEN "canceled" ELSE result[k]
      /\ R \subseteq {old} \ {None}
      /\ \A v \in Units \ {u} : current'[v] = current[v]
      /\ current'[u] = j
      /\ next' # next => j = next
      /\ R # {} => j = next
  <2>1. CASE /\ old # None
             /\ j = old /\ R = {}
             /\ jobMethod' = [jobMethod EXCEPT ![old] = m]
             /\ UNCHANGED <<current, next, jobUnit, result>>
    BY <1>1, <1>2, <2>1 DEF TypeOK
  <2>2. CASE /\ j = next /\ next \in Jobs
             /\ R = {old} \ {None}
             /\ next' = next + 1
             /\ current' = [current EXCEPT ![u] = j]
             /\ jobUnit' = [jobUnit EXCEPT ![j] = u]
             /\ jobMethod' = [jobMethod EXCEPT ![j] = m]
             /\ result' = [k \in Jobs |-> IF k \in R THEN "canceled" ELSE result[k]]
    <3>1. result[next] = "pending" /\ next \notin R
      BY <1>1, <1>2, <2>2 DEF ManagerInv
    <3>2. next + 1 \in 1..(MaxJobs + 1)
      BY <1>1, <2>2 DEF Jobs
    <3>3. result' \in [Jobs -> Results \cup {"pending"}] /\ result'[j] = "pending"
      BY <1>1, <2>2, <3>1 DEF TypeOK, Results
    <3>4. /\ current' \in [Units -> Jobs \cup {None}] /\ current'[u] = j
          /\ \A v \in Units \ {u} : current'[v] = current[v]
      BY <1>1, <2>2 DEF TypeOK
    <3>5. /\ jobUnit' \in [Jobs -> Units \cup {None}] /\ jobMethod' \in [Jobs -> Methods \cup {None}]
          /\ jobUnit'[j] = u /\ \A k \in Jobs : k # next => jobUnit'[k] = jobUnit[k]
      BY <1>1, <2>2 DEF TypeOK
    <3> QED
      BY <1>1, <2>2, <3>2, <3>3, <3>4, <3>5
  <2> QED
    BY <2>1, <2>2 DEF Queue
<1> HIDE DEF old
<1>4. JobsKept
  BY <1>1, <1>2, <1>3 DEF JobsKept, Jobs
<1>5. ManagerInv'
  <2>1. ASSUME NEW v \in Units, current'[v] # None
        PROVE  current'[v] < next' /\ result'[current'[v]] = "pending" /\ jobUnit'[current'[v]] = v
    <3>1. CASE v = u
      BY <1>3, <3>1
    <3>2. CASE v # u
      <4>1. /\ current'[v] = current[v] /\ current[v] \in Jobs /\ current[v] < next
            /\ result[current[v]] = "pending" /\ jobUnit[current[v]] = v
        BY <1>1, <1>3, <2>1, <3>2 DEF TypeOK, ManagerInv
      <4>2. current[v] \notin R
        BY <1>2, <1>3, <3>2, <4>1
      <4> QED
        BY <1>1, <1>3, <4>1, <4>2 DEF Jobs
    <3> QED
      BY <3>1, <3>2
  <2>2. ASSUME NEW k \in Jobs, k >= next' PROVE result'[k] = "pending"
    <3>1. k >= next /\ k # j
      BY <1>1, <1>3, <2>2 DEF Jobs
    <3>2. k \notin R
      BY <1>1, <1>2, <1>3, <3>1 DEF Jobs
    <3> QED
      BY <1>1, <1>3, <3>1, <3>2 DEF ManagerInv
  <2> QED
    BY <2>1, <2>2 DEF ManagerInv
<1>6. \A s \in Removals(R, result') : s \in Jobs \X Results /\ s[1] < next' /\ s[2] = result'[s[1]]
  <2>1. \A k \in R : k < next' /\ result'[k] = "canceled"
    BY <1>1, <1>2, <1>3 DEF Jobs
  <2> QED
    BY <2>1 DEF Removals, Results
<1>7. \A c \in Callers : queued'[c] = IF pc[c] \in {"call"} \cup Waiting
                                      THEN queued[c] \cup Removals(R, result') ELSE queued[c]
  BY DEF Broadcast
<1>8. queued' \in [Callers -> SUBSET (Jobs \X Results)]
  <2>1. queued' = [c \in Callers |-> queued'[c]]
    BY DEF Broadcast
  <2>2. \A c \in Callers : queued[c] \in SUBSET (Jobs \X Results)
    BY <1>1 DEF TypeOK
  <2> QED
    BY <1>6, <1>7, <2>1, <2>2
<1>9. ASSUME NEW c \in Callers PROVE Signalled(c)
  <2>1. \A k \in Jobs : result[k] = "pending" /\ result'[k] # "pending" => <<k, result'[k]>> \in Removals(R, result')
    BY <1>3 DEF Removals
  <2> QED
    BY <1>6, <1>7, <2>1 DEF Signalled
<1> QED
  BY <1>3, <1>4, <1>5, <1>8, <1>9

LEMMA ForeignJobStep ==
    ASSUME IInv, NEW u \in Units, NEW m \in Methods, ForeignJob(u, m)
    PROVE  IInv'
<1>1. TypeOK /\ UNCHANGED <<pc, op, unit, reply, expected, promise, out, unitState, seenHealthy>>
  BY DEF IInv, ForeignJob
<1>2. PICK j \in Jobs, R \in SUBSET Jobs : Queue(u, m, j, R) /\ Broadcast(R, result')
  BY DEF ForeignJob
<1>3. TypeOK'
  BY <1>1, <1>2, Queueing DEF TypeOK
<1>4. ManagerInv' /\ JobsKept /\ \A c \in Callers : Unmoved(c) /\ Signalled(c)
  BY <1>1, <1>2, Queueing DEF Unmoved
<1>5. \A c \in Callers : StatusInv(c)'
  BY <1>1, <1>4, StatusFrame DEF IInv
<1> QED
  BY <1>3, <1>4, <1>5, ManagerStep

LEMMA CallMethodStep ==
    ASSUME IInv, NEW c \in Callers, CallMethod(c)
    PROVE  IInv'
<1>1. /\ TypeOK /\ JobInv(c) /\ StatusInv(c) /\ pc[c] = "call" /\ op[c] \in Methods /\ unit[c] \in Units
      /\ reply[c] = None /\ promise[c] = None
      /\ UNCHANGED <<op, unit, expected, promise, out, unitState, seenHealthy>>
  BY DEF IInv, CallMethod, JobInv, TypeOK
<1>2. /\ pc' = [pc EXCEPT ![c] = "reply"] /\ pc'[c] = "reply" /\ pc' \in [Callers -> Idle \cup Steps]
      /\ \A d \in Callers \ {c} : pc'[d] = pc[d]
  BY <1>1 DEF TypeOK, CallMethod, Goto, Steps, Waiting
<1>3. StatusInv(c)'
  BY <1>1, <1>2 DEF StatusInv, Reading, Steps, Waiting
<1>4. CASE \E j \in Jobs, R \in SUBSET Jobs :
             /\ Queue(unit[c], op[c], j, R)
             /\ reply' = [reply EXCEPT ![c] = j]
             /\ Broadcast(R, result')
  <2>1. PICK j \in Jobs, R \in SUBSET Jobs :
             /\ Queue(unit[c], op[c], j, R)
             /\ reply' = [reply EXCEPT ![c] = j]
             /\ Broadcast(R, result')
    BY <1>4
  <2>2. TypeOK'
    <3>1. reply' \in [Callers -> Jobs \cup {None}]
      BY <1>1, <2>1 DEF TypeOK
    <3> QED
      BY <1>1, <1>2, <2>1, <3>1, Queueing DEF TypeOK
  <2>3. /\ ManagerInv' /\ JobsKept /\ j < next' /\ jobUnit'[j] = unit[c] /\ result'[j] = "pending"
        /\ \A d \in Callers : Signalled(d)
    BY <1>1, <2>1, Queueing
  <2>4. reply'[c] = j /\ \A d \in Callers \ {c} : Unmoved(d)
    BY <1>1, <1>2, <2>1 DEF TypeOK, Unmoved
  <2>5. \A d \in Callers \ {c} : JobInv(d)' /\ StatusInv(d)'
    BY <1>1, <2>2, <2>3, <2>4, JobFrame, StatusFrame DEF IInv
  <2>6. JobInv(c)'
    <3>1. next \in Nat /\ next' \in Nat
      BY <1>1, <2>2, UnitJobAssumption DEF TypeOK
    <3>2. \A s \in queued'[c] : s[1] < next' /\ s[2] = result'[s[1]]
      <4> SUFFICES ASSUME NEW s \in queued[c] PROVE s[1] < next' /\ s[2] = result'[s[1]]
        BY <2>3 DEF Signalled
      <4>1. s[1] \in Jobs /\ s[2] \in Results /\ s[1] < next /\ s[2] = result[s[1]]
        BY <1>1 DEF TypeOK, JobInv
      <4> QED
        BY <2>3, <3>1, <4>1 DEF JobsKept, Results, Jobs
    <3>3. expected[c] # None => expected[c] < next' /\ jobUnit'[expected[c]] = unit[c]
      <4> SUFFICES ASSUME expected[c] # None PROVE expected[c] < next' /\ jobUnit'[expected[c]] = unit[c]
        OBVIOUS
      <4>1. expected[c] \in Jobs /\ expected[c] < next /\ jobUnit[expected[c]] = unit[c]
        BY <1>1 DEF TypeOK, JobInv
      <4> QED
        BY <2>3, <3>1, <4>1 DEF JobsKept, Jobs
    <3> QED
      BY <1>1, <1>2, <2>3, <2>4, <3>2, <3>3 DEF JobInv, Waiting, Reading
  <2> QED
    BY <1>3, <2>2, <2>3, <2>5, <2>6 DEF IInv
<1>5. CASE UNCHANGED <<reply, queued, current, next, jobUnit, jobMethod, result>>
  <2>1. TypeOK' /\ UNCHANGED managerVars
    BY <1>1, <1>2, <1>5 DEF TypeOK, managerVars
  <2>2. JobInv(c)'
    BY <1>1, <1>2, <1>5 DEF JobInv, Waiting, Reading
  <2>3. \A d \in Callers \ {c} : Unmoved(d) /\ queued'[d] = queued[d] /\ seenHealthy'[d] = seenHealthy[d]
    BY <1>1, <1>2, <1>5 DEF Unmoved
  <2> QED
    BY <1>3, <2>1, <2>2, <2>3, CallerStep
<1> QED
  BY <1>4, <1>5 DEF CallMethod
-----------------------------------------------------------------------------
LEMMA WorkStep ==
    ASSUME IInv, NEW c \in Callers, Work(c)
    PROVE  IInv'
<1>1. CASE CallFails(c)
  BY <1>1, ReturnStep DEF CallFails
<1>2. CASE LeaveEventLoop(c)
  BY <1>2, ReturnStep DEF LeaveEventLoop
<1> QED
  BY <1>1, <1>2, DaemonReloadStep, SubscribeStep, CallMethodStep, ReceiveReplyStep, DispatchStep,
     JobReadyStep, WaitTimeoutStep, ReadStatusStep DEF Work

LEMMA StutterStep ==
    ASSUME IInv, UNCHANGED vars
    PROVE  IInv'
<1>1. TypeOK'
  BY DEF IInv, TypeOK, vars, callerVars, managerVars
<1>2. ManagerInv'
  BY DEF IInv, ManagerInv, vars, managerVars
<1>3. \A c \in Callers : JobInv(c)'
  BY DEF IInv, JobInv, vars, callerVars, managerVars
<1>4. \A c \in Callers : StatusInv(c)'
  BY DEF IInv, StatusInv, vars, callerVars, managerVars
<1> QED
  BY <1>1, <1>2, <1>3, <1>4 DEF IInv

LEMMA NextInv == IInv /\ [Next]_vars => IInv'
<1> SUFFICES ASSUME IInv, [Next]_vars PROVE IInv'
  OBVIOUS
<1>1. ASSUME NEW c \in Callers, NEW o \in Requested, NEW u \in Units, Call(c, o, u) PROVE IInv'
  BY <1>1, CallStep
<1>2. ASSUME NEW c \in Callers, RefuseName(c, BadName) \/ Work(c) PROVE IInv'
  BY <1>2, RefuseNameStep, WorkStep
<1>3. CASE Manager
  BY <1>3, FinishJobStep, ForeignJobStep, UnitsStep DEF Manager
<1> QED
  BY <1>1, <1>2, <1>3, StutterStep DEF Next

\* The invariant holds of every behaviour, whether or not the callers go on.
THEOREM Invariant == Spec => []IInv
<1> QED
  BY InitInv, NextInv, PTL DEF Spec

\* The variables of the controller and the manager keep their types.
THEOREM TypeCorrect == Spec => []TypeOK
<1> QED
  BY Invariant, PTL DEF IInv

LEMMA ResultIsOwn == IInv => OwnResult
<1> SUFFICES ASSUME IInv, NEW c \in Callers, promise[c] # None
             PROVE  /\ expected[c] \in Jobs
                    /\ jobUnit[expected[c]] = unit[c]
                    /\ promise[c] = result[expected[c]]
  BY DEF OwnResult
<1>1. expected[c] # None /\ expected[c] \in Jobs \cup {None}
  BY DEF IInv, JobInv, TypeOK
<1> QED
  BY <1>1 DEF IInv, JobInv

\* The result a caller acts on is that of the job its own call was answered with, a job of
\* its own unit.
THEOREM ResultsAreOwn == Spec => []OwnResult
<1> QED
  BY Invariant, ResultIsOwn, PTL

LEMMA SignalIsKept == IInv => NoLostSignal
BY DEF IInv, JobInv, NoLostSignal

\* However early the job ends, a waiting caller has its signal in the promise or still to be
\* dispatched.
THEOREM SignalsAreKept == Spec => []NoLostSignal
<1> QED
  BY Invariant, SignalIsKept, PTL

LEMMA JobWasDone == IInv => StatusAfterJob
<1> SUFFICES ASSUME IInv, NEW c \in Callers, pc[c] \in Reading \cup {"ok"}, op[c] \in Methods
             PROVE  expected[c] \in Jobs /\ result[expected[c]] = "done"
  BY DEF StatusAfterJob
<1>1. expected[c] \in Jobs \cup {None}
  BY DEF IInv, TypeOK
<1> QED
  BY <1>1 DEF IInv, JobInv

\* The final status of a lifecycle method is read after its job was done.
THEOREM StatusFollowsJob == Spec => []StatusAfterJob
<1> QED
  BY Invariant, JobWasDone, PTL

LEMMA HealthyIsReal == IInv => HealthyWasReal
BY DEF IInv, StatusInv, HealthyWasReal

\* A healthy status, although gathered from separate reads, is one the unit really had.
THEOREM HealthyIsSeen == Spec => []HealthyWasReal
<1> QED
  BY Invariant, HealthyIsReal, PTL
=============================================================================
