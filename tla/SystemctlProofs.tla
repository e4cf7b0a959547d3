--------------------------- MODULE SystemctlProofs ---------------------------
(***************************************************************************)
(* Theorems about SystemctlProcess, for any number of threads, any         *)
(* capacity of the pipes and any length of output.  The inductive          *)
(* invariant accounts for every chunk between systemctl and the parser,    *)
(* and for every holder of a pipe's write end that matters to its owner.   *)
(***************************************************************************)
EXTENDS SystemctlProcess, TLAPS

\* What a thread knows of its pipe and its child at each step.
ThreadInv(t) ==
    /\ at[t] \in 1..Len(Script[op[t]])
    /\ pc[t] \in Idle => (child[t] # "none" => t \in zombies)
    /\ pc[t] \in {"pipe", "fork"} => child[t] = "none"
    /\ pc[t] = "exec" => child[t] = "forked"
    /\ pc[t] \in {"close", "read", "wait"} => child[t] \in {"running", "succeeded", "failed"}
    /\ pc[t] \in {"pipe", "close", "read"} => Kind(t) = "capture"
    /\ Parent \in writers[t] => pc[t] \in {"fork", "exec", "close"} /\ Kind(t) = "capture"
    /\ pc[t] = "fork" /\ Kind(t) = "capture" => Parent \in writers[t]
    /\ t \in reading <=> Kind(t) = "capture" /\ pc[t] \in {"fork", "exec", "close", "read"}
    /\ /\ pc[t] \in {"exec", "close", "read"} /\ Kind(t) = "capture"
       /\ child[t] \in {"forked", "running"}
       => t \in writers[t]
    /\ pc[t] \in Steps \ {"pipe"} /\ Kind(t) = "capture" =>
          /\ output[t] + piped[t] = printed[t]
          /\ pc[t] = "wait" => piped[t] = 0
          /\ child[t] = "succeeded" => printed[t] = Length
    /\ pc[t] = "ok" /\ op[t] \in {"lifecycle", "status"} => output[t] = Length

IInv ==
    /\ TypeOK
    /\ \A t \in Threads : ThreadInv(t)
-----------------------------------------------------------------------------
\* The scripts, one by one.
LEMMA Scripts ==
    ASSUME NEW o \in Operations
    PROVE  /\ o \in {"reload", "apply", "lifecycle", "status"}
           /\ Len(Script[o]) = IF o = "lifecycle" THEN 2 ELSE 1
           /\ Script[o][1] = IF o = "status" THEN "capture" ELSE "run"
           /\ o = "lifecycle" => Script[o][2] = "capture"
<1>1. o \in {"reload", "apply", "lifecycle", "status"}
  BY DEF Operations, Script
<1>2. /\ Script["reload"] = <<"run">> /\ Script["apply"] = <<"run">>
      /\ Script["lifecycle"] = <<"run", "capture">> /\ Script["status"] = <<"capture">>
  BY DEF Script
<1>3. Len(<<"run">>) = 1 /\ Len(<<"capture">>) = 1 /\ Len(<<"run", "capture">>) = 2
  OBVIOUS
<1>4. Len(Script[o]) = IF o = "lifecycle" THEN 2 ELSE 1
  <2>1. CASE o = "reload"
    BY <2>1, <1>2, <1>3
  <2>2. CASE o = "apply"
    BY <2>2, <1>2, <1>3
  <2>3. CASE o = "lifecycle"
    BY <2>3, <1>2, <1>3
  <2>4. CASE o = "status"
    BY <2>4, <1>2, <1>3
  <2> QED
    BY <1>1, <2>1, <2>2, <2>3, <2>4
<1> QED
  BY <1>1, <1>2, <1>4

\* What a step does to the threads that do not take it.
Unmoved(t) ==
    /\ pc'[t] = pc[t] /\ op'[t] = op[t] /\ at'[t] = at[t] /\ piped'[t] = piped[t]
    /\ output'[t] = output[t] /\ child'[t] = child[t] /\ printed'[t] = printed[t]
    /\ t \in zombies' <=> t \in zombies
    /\ t \in reading' <=> t \in reading

\* Other threads' children come and go, the owner and its child stay.
PipeKept(t) ==
    /\ Parent \in writers'[t] <=> Parent \in writers[t]
    /\ t \in writers[t] => t \in writers'[t]

LEMMA ThreadFrame ==
    ASSUME NEW t \in Threads, ThreadInv(t), Unmoved(t), PipeKept(t)
    PROVE  ThreadInv(t)'
BY DEF ThreadInv, Unmoved, PipeKept, Kind

LEMMA ThreadStepInv ==
    ASSUME IInv, NEW t \in Threads, TypeOK', ThreadInv(t)',
           \A v \in Threads \ {t} : Unmoved(v) /\ PipeKept(v)
    PROVE  IInv'
BY ThreadFrame DEF IInv

LEMMA InitInv == Init => IInv
<1> SUFFICES ASSUME Init PROVE IInv
  OBVIOUS
<1>1. "status" \in Operations
  BY DEF Operations, Script
<1>2. TypeOK
  BY <1>1, ProcessAssumption DEF Init, TypeOK, Idle
<1>3. \A t \in Threads : ThreadInv(t)
  BY <1>1, Scripts DEF Init, ThreadInv, Idle, Steps
<1> QED
  BY <1>2, <1>3 DEF IInv
-----------------------------------------------------------------------------
LEMMA CallStep ==
    ASSUME IInv, NEW t \in Threads, NEW o \in Operations, Call(t, o)
    PROVE  IInv'
<1>1. TypeOK /\ ThreadInv(t) /\ pc[t] \in Idle
  BY DEF IInv, Call
<1>2. /\ pc'[t] \in {FirstStep(Script[o][1]), "error", "dry_run"}
      /\ pc' = [pc EXCEPT ![t] = pc'[t]]
  BY <1>1 DEF Call, Goto, TypeOK
<1>3. /\ op'[t] = o /\ at'[t] = 1 /\ output'[t] = 0 /\ child'[t] = "none"
      /\ writers' = writers /\ reading' = reading /\ t \notin zombies'
  BY <1>1 DEF Call, TypeOK
<1>4. FirstStep(Script[o][1]) = IF o = "status" THEN "pipe" ELSE "fork"
  BY Scripts DEF FirstStep
<1>5. TypeOK'
  <2>1. pc'[t] \in Idle \cup Steps
    BY <1>2, <1>4 DEF Idle, Steps
  <2> QED
    BY <1>1, <1>2, <2>1, ProcessAssumption DEF Call, TypeOK
<1>6. Kind(t)' = IF o = "status" THEN "capture" ELSE "run"
  BY <1>3, Scripts DEF Kind
<1>7. ThreadInv(t)'
  <2>1. Parent \notin writers'[t] /\ t \notin reading'
    BY <1>1, <1>3 DEF ThreadInv, Idle
  <2>2. at'[t] \in 1..Len(Script[op'[t]])
    BY <1>3, Scripts
  <2> QED
    BY <1>2, <1>3, <1>4, <1>6, <2>1, <2>2 DEF ThreadInv, Idle, Steps
<1>8. \A v \in Threads \ {t} : Unmoved(v) /\ PipeKept(v)
  BY <1>1 DEF Call, Goto, TypeOK, Unmoved, PipeKept
<1> QED
  BY <1>5, <1>7, <1>8, ThreadStepInv

LEMMA PipeStep ==
    ASSUME IInv, NEW t \in Threads, Pipe(t)
    PROVE  IInv'
<1>1. /\ TypeOK /\ ThreadInv(t) /\ pc[t] = "pipe" /\ child[t] = "none" /\ Kind(t) = "capture"
      /\ Parent \notin writers[t]
  BY DEF IInv, Pipe, ThreadInv
<1>2. \/ /\ writers' = [writers EXCEPT ![t] = {Parent}] /\ pc' = [pc EXCEPT ![t] = "fork"]
         /\ reading' = reading \cup {t}
      \/ writers' = writers /\ reading' = reading /\ pc' = [pc EXCEPT ![t] = "error"]
  BY DEF Pipe, Goto
<1>3. TypeOK'
  BY <1>1, <1>2, ProcessAssumption DEF Pipe, TypeOK, Idle, Steps, Process
<1>4. /\ \/ pc'[t] = "fork" /\ Parent \in writers'[t] /\ t \in reading'
         \/ pc'[t] = "error" /\ Parent \notin writers'[t] /\ reading' = reading
      /\ output'[t] = 0 /\ piped'[t] = 0 /\ printed'[t] = 0
      /\ UNCHANGED <<op, at, child>>
  BY <1>1, <1>2 DEF Pipe, TypeOK
<1>5. ThreadInv(t)'
  BY <1>1, <1>4 DEF ThreadInv, Kind, Idle
<1>6. \A v \in Threads \ {t} : Unmoved(v) /\ PipeKept(v)
  BY <1>1, <1>2 DEF Pipe, TypeOK, Unmoved, PipeKept
<1> QED
  BY <1>3, <1>5, <1>6, ThreadStepInv

LEMMA ForkStep ==
    ASSUME IInv, NEW t \in Threads, Fork(t)
    PROVE  IInv'
<1>1. TypeOK /\ ThreadInv(t) /\ pc[t] = "fork" /\ child[t] = "none" /\ Parent # t
  BY ProcessAssumption DEF IInv, Fork, ThreadInv, Parent
<1>2. \A v \in Threads : writers'[v] = writers[v] \cup (IF Parent \in writers[v] THEN {t} ELSE {})
  BY DEF Fork
<1>3. TypeOK'
  <2>1. writers' \in [Threads -> SUBSET Process]
    <3>1. t \in Process /\ writers \in [Threads -> SUBSET Process]
      BY <1>1 DEF TypeOK, Process
    <3>2. \A v \in Threads : writers'[v] \in SUBSET Process
      BY <1>2, <3>1
    <3>3. writers' = [v \in Threads |-> writers'[v]]
      BY DEF Fork
    <3> QED
      BY <3>2, <3>3
  <2> QED
    BY <1>1, <2>1 DEF Fork, Goto, TypeOK, Steps
<1>4. /\ pc'[t] = "exec" /\ child'[t] = "forked" /\ UNCHANGED <<op, at, piped, output, printed, zombies, reading>>
  BY <1>1 DEF Fork, Goto, TypeOK
<1>5. \A v \in Threads : PipeKept(v)
  BY <1>1, <1>2 DEF PipeKept
<1>6. ThreadInv(t)'
  BY <1>1, <1>2, <1>4 DEF ThreadInv, Kind, Idle, Steps
<1>7. \A v \in Threads \ {t} : Unmoved(v)
  BY <1>1 DEF Fork, Goto, TypeOK, Unmoved
<1> QED
  BY <1>3, <1>5, <1>6, <1>7, ThreadStepInv

\* What a process that gives up write ends leaves to the others.
LEMMA Closing ==
    ASSUME TypeOK, NEW p \in Process, NEW P \in SUBSET Threads
    PROVE  /\ Closed(p, P) \in [Threads -> SUBSET Process]
           /\ \A v \in Threads : Closed(p, P)[v] = IF v \in P THEN writers[v] \ {p} ELSE writers[v]
BY DEF TypeOK, Closed

LEMMA ExecStep ==
    ASSUME IInv, NEW t \in Threads, Exec(t)
    PROVE  IInv'
<1> DEFINE P == Threads \ (IF Kind(t) = "capture" THEN {t} ELSE {})
<1>1. /\ TypeOK /\ ThreadInv(t) /\ pc[t] = "exec" /\ child[t] = "forked"
      /\ Parent # t /\ t \in Process /\ Parent \in Process /\ P \in SUBSET Threads
  BY ProcessAssumption DEF IInv, Exec, ThreadInv, Parent, Process
<1>2. writers' = Closed(t, P)
  BY DEF Exec
<1>3. TypeOK'
  BY <1>1, <1>2, Closing DEF Exec, Goto, TypeOK, Steps
<1>4. /\ pc'[t] = (IF Kind(t) = "capture" THEN "close" ELSE "wait")
      /\ child'[t] = "running" /\ UNCHANGED <<op, at, piped, output, printed, zombies, reading>>
  BY <1>1 DEF Exec, Goto, TypeOK
<1>5. /\ \A v \in Threads \ {t} : writers'[v] = writers[v] \ {t}
      /\ writers'[t] = IF Kind(t) = "capture" THEN writers[t] ELSE writers[t] \ {t}
  <2>1. \A v \in Threads \ {t} : v \in P
    OBVIOUS
  <2>2. t \in P <=> Kind(t) # "capture"
    OBVIOUS
  <2> HIDE DEF P
  <2>3. \A v \in Threads : writers'[v] = IF v \in P THEN writers[v] \ {t} ELSE writers[v]
    BY <1>2 DEF Closed
  <2> QED
    BY <2>1, <2>2, <2>3
<1>6. \A v \in Threads \ {t} : PipeKept(v)
  BY <1>1, <1>5 DEF PipeKept
<1>7. Kind(t) = "capture" => writers'[t] = writers[t]
  BY <1>5
<1>8. Parent \in writers'[t] <=> Parent \in writers[t]
  BY <1>1, <1>5
<1>9. ThreadInv(t)'
  BY <1>1, <1>4, <1>7, <1>8 DEF ThreadInv, Kind, Idle, Steps
<1>10. \A v \in Threads \ {t} : Unmoved(v)
  BY <1>1 DEF Exec, Goto, TypeOK, Unmoved
<1> QED
  BY <1>3, <1>6, <1>9, <1>10, ThreadStepInv

LEMMA SpawnFailsStep ==
    ASSUME IInv, NEW t \in Threads, SpawnFails(t)
    PROVE  IInv'
<1>1. /\ TypeOK /\ ThreadInv(t) /\ pc[t] \in {"fork", "exec"}
      /\ Parent # t /\ t \in Process /\ Parent \in Process
  BY ProcessAssumption DEF IInv, SpawnFails, ThreadInv, Parent, Process
<1>2. writers' = [Closed(t, Threads) EXCEPT ![t] = {}]
  BY DEF SpawnFails
<1>3. TypeOK'
  BY <1>1, <1>2, Closing DEF SpawnFails, Goto, TypeOK, Idle
<1>4. pc'[t] = "error" /\ child'[t] = "none" /\ reading' = reading \ {t}
      /\ UNCHANGED <<op, at, piped, output, printed, zombies>>
  BY <1>1 DEF SpawnFails, Goto, TypeOK
<1>5. writers'[t] = {} /\ \A v \in Threads \ {t} : writers'[v] = writers[v] \ {t}
  BY <1>1, <1>2, Closing
<1>6. \A v \in Threads \ {t} : PipeKept(v)
  BY <1>1, <1>5 DEF PipeKept
<1>7. Parent \notin writers'[t]
  BY <1>5
<1>8. ThreadInv(t)'
  BY <1>1, <1>4, <1>7 DEF ThreadInv, Kind, Idle, Steps
<1>9. \A v \in Threads \ {t} : Unmoved(v)
  BY <1>1 DEF SpawnFails, Goto, TypeOK, Unmoved
<1> QED
  BY <1>3, <1>6, <1>8, <1>9, ThreadStepInv

LEMMA CloseWriteEndStep ==
    ASSUME IInv, NEW t \in Threads, CloseWriteEnd(t)
    PROVE  IInv'
<1>1. /\ TypeOK /\ ThreadInv(t) /\ pc[t] = "close" /\ Parent # t /\ Parent \in Process
  BY ProcessAssumption DEF IInv, CloseWriteEnd, Parent, Process
<1>2. writers' = Closed(Parent, {t})
  BY DEF CloseWriteEnd
<1>3. TypeOK'
  BY <1>1, <1>2, Closing DEF CloseWriteEnd, Goto, TypeOK, Steps
<1>4. pc'[t] = "read" /\ UNCHANGED <<op, at, piped, output, child, printed, zombies, reading>>
  BY <1>1 DEF CloseWriteEnd, Goto, TypeOK
<1>5. writers'[t] = writers[t] \ {Parent} /\ \A v \in Threads \ {t} : writers'[v] = writers[v]
  BY <1>2 DEF Closed
<1>6. ThreadInv(t)'
  BY <1>1, <1>4, <1>5 DEF ThreadInv, Kind, Idle, Steps
<1>7. \A v \in Threads \ {t} : Unmoved(v) /\ PipeKept(v)
  BY <1>1, <1>5 DEF CloseWriteEnd, Goto, TypeOK, Unmoved, PipeKept
<1> QED
  BY <1>3, <1>6, <1>7, ThreadStepInv

\* What is read is what was in the pipe.
LEMMA ReadOutputStep ==
    ASSUME IInv, NEW t \in Threads, ReadOutput(t)
    PROVE  IInv'
<1>1. TypeOK /\ ThreadInv(t) /\ pc[t] = "read" /\ Kind(t) = "capture"
  BY DEF IInv, ReadOutput, ThreadInv
<1>2. PICK n \in 1..piped[t] : /\ piped' = [piped EXCEPT ![t] = @ - n]
                               /\ output' = [output EXCEPT ![t] = @ + n]
  BY DEF ReadOutput
<1>3. output[t] + piped[t] = printed[t] /\ piped[t] \in 0..Capacity /\ output[t] \in 0..Length
      /\ printed[t] \in 0..Length
  BY <1>1 DEF ThreadInv, Steps, TypeOK
<1>4. piped[t] - n \in 0..Capacity /\ output[t] + n \in 0..Length
  BY <1>2, <1>3, ProcessAssumption
<1>5. TypeOK'
  BY <1>1, <1>2, <1>4 DEF ReadOutput, TypeOK
<1>6. piped'[t] = piped[t] - n /\ output'[t] = output[t] + n
      /\ UNCHANGED <<pc, op, at, writers, child, printed, zombies, reading>>
  BY <1>1, <1>2 DEF TypeOK, ReadOutput
<1>7. ThreadInv(t)'
  <2>1. output'[t] + piped'[t] = printed[t]
    BY <1>2, <1>3, <1>6, ProcessAssumption
  <2> QED
    BY <1>1, <1>6, <2>1 DEF ThreadInv, Kind, Idle, Steps
<1>8. \A v \in Threads \ {t} : Unmoved(v) /\ PipeKept(v)
  BY <1>1, <1>2 DEF ReadOutput, TypeOK, Unmoved, PipeKept
<1> QED
  BY <1>5, <1>7, <1>8, ThreadStepInv

\* At the end of its output the child has ended, for it held the write end while it ran.
LEMMA EndOfOutputStep ==
    ASSUME IInv, NEW t \in Threads, EndOfOutput(t)
    PROVE  IInv'
<1>1. TypeOK /\ ThreadInv(t) /\ pc[t] = "read" /\ piped[t] = 0
  BY DEF IInv, EndOfOutput
<1>2. TypeOK'
  BY <1>1 DEF EndOfOutput, Goto, TypeOK, Steps
<1>3. pc'[t] = "wait" /\ UNCHANGED <<op, at, writers, piped, output, child, printed, zombies>>
      /\ reading' = reading \ {t}
  BY <1>1 DEF EndOfOutput, Goto, TypeOK
<1>4. ThreadInv(t)'
  BY <1>1, <1>3 DEF ThreadInv, Kind, Idle, Steps
<1>5. \A v \in Threads \ {t} : Unmoved(v) /\ PipeKept(v)
  BY <1>1 DEF EndOfOutput, Goto, TypeOK, Unmoved, PipeKept
<1> QED
  BY <1>2, <1>4, <1>5, ThreadStepInv

LEMMA ReadFailsStep ==
    ASSUME IInv, NEW t \in Threads, ReadFails(t)
    PROVE  IInv'
<1>1. TypeOK /\ ThreadInv(t) /\ pc[t] = "read"
  BY DEF IInv, ReadFails
<1>2. TypeOK'
  BY <1>1, ProcessAssumption DEF ReadFails, Goto, TypeOK, Idle
<1>3. pc'[t] = "read_error" /\ t \in zombies' /\ UNCHANGED <<op, at, writers, child, output, printed>> /\ reading' = reading \ {t}
  BY <1>1 DEF ReadFails, Goto, TypeOK
<1>4. ThreadInv(t)'
  BY <1>1, <1>3 DEF ThreadInv, Kind, Idle, Steps
<1>5. \A v \in Threads \ {t} : Unmoved(v) /\ PipeKept(v)
  BY <1>1 DEF ReadFails, Goto, TypeOK, Unmoved, PipeKept
<1> QED
  BY <1>2, <1>4, <1>5, ThreadStepInv

\* Only a systemctl that succeeded leads on: to the next one, or to an answer made from
\* everything it printed.
LEMMA ReapStep ==
    ASSUME IInv, NEW t \in Threads, Reap(t) \/ WaitFails(t)
    PROVE  IInv'
<1>1. /\ TypeOK /\ ThreadInv(t) /\ pc[t] = "wait" /\ child[t] \in {"succeeded", "failed"}
      /\ child' = [child EXCEPT ![t] = "none"]
      /\ UNCHANGED <<op, writers, piped, output, printed, zombies, reading>>
  BY DEF IInv, Reap, WaitFails
<1>2. /\ op[t] \in Operations /\ at[t] \in 1..Len(Script[op[t]])
      /\ Parent \notin writers[t] /\ t \notin reading
  BY <1>1 DEF TypeOK, ThreadInv
<1>3. \/ Goto(t, "error") /\ at' = at
      \/ child[t] = "succeeded" /\ at[t] < Len(Script[op[t]])
         /\ at' = [at EXCEPT ![t] = @ + 1] /\ Goto(t, "pipe")
      \/ child[t] = "succeeded" /\ ~(at[t] < Len(Script[op[t]])) /\ at' = at /\ Goto(t, "ok")
  <2>1. CASE Reap(t)
    <3>1. CASE child[t] = "failed"
      BY <2>1, <3>1 DEF Reap
    <3>2. CASE child[t] = "succeeded"
      BY <2>1, <3>2 DEF Reap
    <3> QED
      BY <1>1, <3>1, <3>2
  <2>2. CASE WaitFails(t)
    BY <2>2 DEF WaitFails
  <2> QED
    BY <1>1, <2>1, <2>2
<1>4. at[t] < Len(Script[op[t]]) => op[t] = "lifecycle" /\ at[t] + 1 = 2
  BY <1>2, Scripts
<1>5. TypeOK'
  <2>1. at' \in [Threads -> 1..2]
    <3>1. at' = at \/ at' = [at EXCEPT ![t] = 2]
      BY <1>1, <1>3, <1>4 DEF TypeOK
    <3> QED
      BY <1>1, <3>1 DEF TypeOK
  <2>2. pc' \in [Threads -> Idle \cup Steps]
    BY <1>1, <1>3 DEF TypeOK, Goto, Idle, Steps
  <2>3. child' \in [Threads -> {"none", "forked", "running", "succeeded", "failed"}]
    BY <1>1 DEF TypeOK
  <2> QED
    BY <1>1, <2>1, <2>2, <2>3 DEF TypeOK
<1>6. \A v \in Threads \ {t} : Unmoved(v) /\ PipeKept(v)
  BY <1>1, <1>3 DEF TypeOK, Goto, Unmoved, PipeKept
<1>7. child'[t] = "none" /\ op'[t] = op[t] /\ writers'[t] = writers[t] /\ output'[t] = output[t] /\ reading' = reading
  BY <1>1 DEF TypeOK
<1>8. CASE Goto(t, "error") /\ at' = at
  <2>1. pc'[t] = "error" /\ at'[t] = at[t]
    BY <1>1, <1>8 DEF TypeOK, Goto
  <2> QED
    BY <1>2, <1>5, <1>6, <1>7, <2>1, ThreadStepInv DEF ThreadInv, Idle, Steps
<1>9. CASE at[t] < Len(Script[op[t]]) /\ at' = [at EXCEPT ![t] = @ + 1] /\ Goto(t, "pipe")
  <2>1. pc'[t] = "pipe" /\ at'[t] = 2 /\ op[t] = "lifecycle"
    BY <1>1, <1>4, <1>9 DEF TypeOK, Goto
  <2>2. Kind(t)' = "capture" /\ at'[t] \in 1..Len(Script[op'[t]])
    BY <1>2, <1>7, <2>1, Scripts DEF Kind
  <2>3. ThreadInv(t)'
    BY <1>2, <1>7, <2>1, <2>2 DEF ThreadInv, Idle, Steps
  <2> QED
    BY <1>5, <1>6, <2>3, ThreadStepInv
<1>10. CASE child[t] = "succeeded" /\ ~(at[t] < Len(Script[op[t]])) /\ at' = at /\ Goto(t, "ok")
  <2>1. pc'[t] = "ok" /\ at'[t] = at[t]
    BY <1>1, <1>10 DEF TypeOK, Goto
  <2>2. op[t] \in {"lifecycle", "status"} => Kind(t) = "capture"
    BY <1>2, <1>10, Scripts DEF Kind
  <2>3. op[t] \in {"lifecycle", "status"} => output[t] = Length
    <3>1. output[t] \in Nat /\ piped[t] \in Nat
      BY <1>1, ProcessAssumption DEF TypeOK
    <3> QED
      BY <1>1, <1>10, <2>2, <3>1 DEF ThreadInv, Steps
  <2>4. ThreadInv(t)'
    BY <1>2, <1>7, <2>1, <2>3 DEF ThreadInv, Idle, Steps
  <2> QED
    BY <1>5, <1>6, <2>4, ThreadStepInv
<1> QED
  BY <1>3, <1>8, <1>9, <1>10
-----------------------------------------------------------------------------
LEMMA ChildPrintsStep ==
    ASSUME IInv, NEW t \in Threads, ChildPrints(t)
    PROVE  IInv'
<1>1. TypeOK /\ ThreadInv(t) /\ pc[t] \in {"close", "read"} /\ Kind(t) = "capture" /\ child[t] = "running"
      /\ UNCHANGED <<pc, op, at, writers, output, child, zombies, reading>>
  BY DEF IInv, ChildPrints, ThreadInv
<1>2. printed[t] + 1 \in 0..Length /\ piped[t] + 1 \in 0..Capacity /\ printed[t] \in Nat /\ piped[t] \in Nat
      /\ output[t] \in Nat /\ output[t] + piped[t] = printed[t]
  BY <1>1, ProcessAssumption DEF ChildPrints, TypeOK, ThreadInv, Steps
<1>3. TypeOK'
  BY <1>1, <1>2 DEF ChildPrints, TypeOK
<1>4. printed'[t] = printed[t] + 1 /\ piped'[t] = piped[t] + 1
  BY <1>1 DEF ChildPrints, TypeOK
<1>5. ThreadInv(t)'
  <2>1. output[t] + piped'[t] = printed'[t]
    BY <1>2, <1>4
  <2> QED
    BY <1>1, <1>4, <2>1 DEF ThreadInv, Kind, Idle, Steps
<1>6. \A v \in Threads \ {t} : Unmoved(v) /\ PipeKept(v)
  BY <1>1 DEF ChildPrints, TypeOK, Unmoved, PipeKept
<1> QED
  BY <1>3, <1>5, <1>6, ThreadStepInv

LEMMA ChildEndsStep ==
    ASSUME IInv, NEW t \in Threads, ChildSucceeds(t) \/ ChildFails(t)
    PROVE  IInv'
<1>1. PICK r \in {"succeeded", "failed"} :
          ChildEnds(t, r) /\ (r = "succeeded" /\ Kind(t) = "capture" => printed[t] = Length)
  BY DEF ChildSucceeds, ChildFails
<1>2. /\ TypeOK /\ ThreadInv(t) /\ child[t] = "running" /\ Parent # t /\ t \in Process
      /\ UNCHANGED <<pc, op, at, piped, output, printed, zombies, reading>>
  BY <1>1, ProcessAssumption DEF IInv, ChildEnds, Parent, Process
<1>3. \A v \in Threads : writers'[v] = writers[v] \ {t}
  BY <1>1 DEF ChildEnds, Closed
<1>4. child'[t] = r
  BY <1>1, <1>2 DEF TypeOK, ChildEnds
<1>5. TypeOK'
  BY <1>1, <1>2, Closing DEF ChildEnds, TypeOK
<1>6. ThreadInv(t)'
  <2>1. pc[t] \notin {"pipe", "fork", "exec"}
    BY <1>2 DEF ThreadInv
  <2>2. Parent \in writers'[t] <=> Parent \in writers[t]
    BY <1>2, <1>3
  <2> QED
    BY <1>1, <1>2, <1>4, <2>1, <2>2 DEF ThreadInv, Kind, Idle, Steps
<1>7. \A v \in Threads \ {t} : Unmoved(v) /\ PipeKept(v)
  BY <1>1, <1>2, <1>3 DEF ChildEnds, TypeOK, Unmoved, PipeKept
<1> QED
  BY <1>5, <1>6, <1>7, ThreadStepInv

LEMMA NextInv == IInv /\ [Next]_allVars => IInv'
<1> SUFFICES ASSUME IInv, [Next]_allVars PROVE IInv'
  OBVIOUS
<1>1. CASE UNCHANGED allVars
  BY <1>1 DEF allVars, vars, IInv, TypeOK, ThreadInv, Kind
<1>2. CASE Next
  BY <1>2, CallStep, PipeStep, ForkStep, ExecStep, CloseWriteEndStep, ReadOutputStep, EndOfOutputStep,
     ReapStep, SpawnFailsStep, ReadFailsStep, ChildPrintsStep, ChildEndsStep
  DEF Next, ThreadStep, Failure, ChildStep
<1> QED
  BY <1>1, <1>2

\* The invariant holds of every behaviour, whatever the children do.
THEOREM Invariant == Spec => []IInv
<1> QED
  BY InitInv, NextInv, PTL DEF Spec

\* The pipes never hold more than their capacity and no thread reads more than was printed.
THEOREM TypeCorrect == Spec => []TypeOK
<1> QED
  BY Invariant, PTL DEF IInv

\* A status is parsed from all that a systemctl that succeeded has printed.
THEOREM CapturesAreWhole == Spec => []CaptureIsWhole
<1>1. IInv => CaptureIsWhole
  BY DEF IInv, ThreadInv, CaptureIsWhole
<1> QED
  BY <1>1, Invariant, PTL

\* However a call ends, no end of its pipe stays open and no child is forgotten, but for a
\* failed read.
THEOREM CallsLeakNothing == Spec => []NothingLeaks
<1>1. IInv => NothingLeaks
  BY DEF IInv, ThreadInv, NothingLeaks, Idle
<1> QED
  BY <1>1, Invariant, PTL
=============================================================================
